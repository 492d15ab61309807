------------------------------- MODULE Tunnel -------------------------------
(***************************************************************************)
(* The task that ProxyHandler::tunnel_proxy spawns for an accepted CONNECT *)
(* (proxy.rs 224-270) and the splice it runs, tunnel() (proxy.rs 471-480): *)
(* await the HTTP upgrade of the client connection, open a TCP connection  *)
(* to the target, wrap the target stream in TimeoutIO(IDLE_TIMEOUT), and   *)
(* run tokio::io::copy_bidirectional between the upgraded client stream    *)
(* and the target stream.                                                  *)
(*                                                                         *)
(* Data is abstracted to byte counts per direction.  The two peers (the    *)
(* client and the target server) are the environment: they send, read,    *)
(* half-close (FIN) and reset (RST) their sockets at will.  The proxy's    *)
(* copy loop follows tokio's CopyBuffer: read into a bounded buffer, write *)
(* it out, and on EOF of the source shut down the destination's write     *)
(* half; copy_bidirectional returns Ok when both directions are shut down  *)
(* and Err as soon as either direction meets an I/O error.                 *)
(*                                                                         *)
(* The idle timer lives only on the target stream (line 473): TimeoutIO    *)
(* resets its deadline whenever a read or write on the target completes,   *)
(* and it can only report TimedOut from inside a poll of the target that   *)
(* returns Pending: a wrapper future observes time only when it is polled. *)
(***************************************************************************)
EXTENDS Naturals

CONSTANTS
    MaxData,      \* bytes each peer may send over the tunnel's lifetime
    IdleTimeout,  \* IDLE_TIMEOUT, in ticks of the model's clock
    BufCap,       \* capacity of a CopyBuffer, in bytes
    Window        \* bytes a peer's socket accepts before it reads them

ASSUME TunnelAssumption ==
    /\ MaxData \in Nat
    /\ IdleTimeout \in Nat \ {0}
    /\ BufCap \in Nat \ {0}
    /\ Window \in Nat \ {0}

Peers == {"client", "target"}
Dirs == {"c2t", "t2c"}

\* The peer a direction reads from and the peer it writes to.
Src(d) == IF d = "c2t" THEN "client" ELSE "target"
Dst(d) == IF d = "c2t" THEN "target" ELSE "client"
\* The opposite direction.
Other(d) == IF d = "c2t" THEN "t2c" ELSE "c2t"
\* The direction that writes to peer p.
Into(p) == IF p = "client" THEN "t2c" ELSE "c2t"

Phases == {"awaitUpgrade", "connecting", "splicing", "closed"}
Results == {"none", "upgradeErr", "connectErr", "ok", "ioErr", "timedOut"}

VARIABLES
    phase,    \* where the spawned task is
    result,   \* how it ended
    sent,     \* sent[p]: bytes peer p has written to its socket
    fin,      \* fin[p]: peer p has shut down its write half
    rst,      \* rst[p]: peer p's connection has been reset
    acked,    \* acked[p]: bytes peer p's application has read
    read,     \* read[d]: bytes the copy of direction d has read from Src(d)
    written,  \* written[d]: bytes it has written to Dst(d)
    eof,      \* eof[d]: the copy of d has read EOF from Src(d)
    shut,     \* shut[d]: the copy of d has shut down Dst(d)'s write half
    idle      \* ticks since a read or write on the target stream completed

vars == <<phase, result, sent, fin, rst, acked, read, written, eof, shut, idle>>

\* Bytes read by the copy of d and not yet written out.
Buffered(d) == read[d] - written[d]

TypeOK ==
    /\ phase \in Phases
    /\ result \in Results
    /\ sent \in [Peers -> 0..MaxData]
    /\ fin \in [Peers -> BOOLEAN]
    /\ rst \in [Peers -> BOOLEAN]
    /\ acked \in [Peers -> 0..MaxData]
    /\ read \in [Dirs -> 0..MaxData]
    /\ written \in [Dirs -> 0..MaxData]
    /\ eof \in [Dirs -> BOOLEAN]
    /\ shut \in [Dirs -> BOOLEAN]
    /\ idle \in 0..IdleTimeout

\* The task has just been spawned; the 200 response is on its way.
Init ==
    /\ phase = "awaitUpgrade"
    /\ result = "none"
    /\ sent = [p \in Peers |-> 0]
    /\ fin = [p \in Peers |-> FALSE]
    /\ rst = [p \in Peers |-> FALSE]
    /\ acked = [p \in Peers |-> 0]
    /\ read = [d \in Dirs |-> 0]
    /\ written = [d \in Dirs |-> 0]
    /\ eof = [d \in Dirs |-> FALSE]
    /\ shut = [d \in Dirs |-> FALSE]
    /\ idle = 0

\* The target connection exists only once TcpStream::connect succeeded.
PeerLive(p) == IF p = "client" THEN phase # "closed" ELSE phase = "splicing"

\* A TimeoutIO deadline is reset by a completed operation on the target.
ResetIdle(p) == idle' = IF p = "target" THEN 0 ELSE idle

\* The copy of d ends the tunnel: copy_bidirectional returns Err.
Fail(kind) ==
    /\ phase' = "closed"
    /\ result' = kind
----------------------------------------------------------------------------
(* The environment: the two peers.                                         *)

PeerSend(p) ==
    /\ PeerLive(p)
    /\ ~fin[p] /\ ~rst[p]
    /\ sent[p] < MaxData
    /\ sent' = [sent EXCEPT ![p] = @ + 1]
    /\ UNCHANGED <<phase, result, fin, rst, acked, read, written, eof, shut, idle>>

PeerFin(p) ==
    /\ PeerLive(p)
    /\ ~fin[p] /\ ~rst[p]
    /\ fin' = [fin EXCEPT ![p] = TRUE]
    /\ UNCHANGED <<phase, result, sent, rst, acked, read, written, eof, shut, idle>>

PeerReset(p) ==
    /\ PeerLive(p)
    /\ ~rst[p]
    /\ rst' = [rst EXCEPT ![p] = TRUE]
    /\ UNCHANGED <<phase, result, sent, fin, acked, read, written, eof, shut, idle>>

\* Peer p's application reads one byte the proxy wrote to it.
PeerRead(p) ==
    /\ PeerLive(p)
    /\ ~rst[p]
    /\ acked[p] < written[Into(p)]
    /\ acked' = [acked EXCEPT ![p] = @ + 1]
    /\ UNCHANGED <<phase, result, sent, fin, rst, read, written, eof, shut, idle>>
----------------------------------------------------------------------------
(* The spawned task, before the splice (proxy.rs 226-268).                 *)

\* hyper::upgrade::on(req).await: fails if the client connection is gone.
Upgrade ==
    /\ phase = "awaitUpgrade"
    /\ IF rst["client"]
         THEN /\ phase' = "closed" /\ result' = "upgradeErr"
         ELSE /\ phase' = "connecting" /\ result' = result
    /\ UNCHANGED <<sent, fin, rst, acked, read, written, eof, shut, idle>>

\* TcpStream::connect(addr).await: the target accepts or the connect fails.
Connect ==
    /\ phase = "connecting"
    /\ \E ok \in BOOLEAN :
         IF ok THEN /\ phase' = "splicing" /\ result' = result
               ELSE /\ phase' = "closed" /\ result' = "connectErr"
    /\ idle' = 0
    /\ UNCHANGED <<sent, fin, rst, acked, read, written, eof, shut>>
----------------------------------------------------------------------------
(* copy_bidirectional, one CopyBuffer per direction (proxy.rs 471-480).    *)

\* A read from Src(d) returns one byte.
CopyRead(d) ==
    /\ phase = "splicing"
    /\ ~eof[d] /\ ~rst[Src(d)]
    /\ Buffered(d) < BufCap
    /\ read[d] < sent[Src(d)]
    /\ read' = [read EXCEPT ![d] = @ + 1]
    /\ ResetIdle(Src(d))
    /\ UNCHANGED <<phase, result, sent, fin, rst, acked, written, eof, shut>>

\* Mutant: the peer's FIN is taken as EOF before its last bytes are read.
CopyReadEofEarly(d) ==
    /\ phase = "splicing"
    /\ ~eof[d] /\ ~rst[Src(d)]
    /\ Buffered(d) < BufCap
    /\ fin[Src(d)]
    /\ eof' = [eof EXCEPT ![d] = TRUE]
    /\ ResetIdle(Src(d))
    /\ UNCHANGED <<phase, result, sent, fin, rst, acked, read, written, shut>>

\* A read from Src(d) returns 0: the peer's FIN, after all its bytes.
CopyReadEof(d) ==
    /\ phase = "splicing"
    /\ ~eof[d] /\ ~rst[Src(d)]
    /\ Buffered(d) < BufCap
    /\ read[d] = sent[Src(d)] /\ fin[Src(d)]
    /\ eof' = [eof EXCEPT ![d] = TRUE]
    /\ ResetIdle(Src(d))
    /\ UNCHANGED <<phase, result, sent, fin, rst, acked, read, written, shut>>

\* Mutant: a write through a stream of a tunnel that has ended.
CopyWriteAfterEnd(d) ==
    /\ ~rst[Dst(d)]
    /\ Buffered(d) > 0
    /\ written[d] - acked[Dst(d)] < Window
    /\ written' = [written EXCEPT ![d] = @ + 1]
    /\ ResetIdle(Dst(d))
    /\ UNCHANGED <<phase, result, sent, fin, rst, acked, read, eof, shut>>

\* A write to Dst(d) accepts one buffered byte.
CopyWrite(d) ==
    /\ phase = "splicing"
    /\ ~rst[Dst(d)]
    /\ Buffered(d) > 0
    /\ written[d] - acked[Dst(d)] < Window
    /\ written' = [written EXCEPT ![d] = @ + 1]
    /\ ResetIdle(Dst(d))
    /\ UNCHANGED <<phase, result, sent, fin, rst, acked, read, eof, shut>>

\* Mutant: shutdown without draining the buffer.
CopyShutdownEarly(d) ==
    /\ phase = "splicing"
    /\ ~rst[Dst(d)]
    /\ eof[d] /\ ~shut[d]
    /\ shut' = [shut EXCEPT ![d] = TRUE]
    /\ IF shut[Other(d)]
         THEN /\ phase' = "closed" /\ result' = "ok"
         ELSE UNCHANGED <<phase, result>>
    /\ UNCHANGED <<sent, fin, rst, acked, read, written, eof, idle>>

\* Source at EOF and buffer drained: poll_shutdown on Dst(d).  When the
\* other direction is already shut down, copy_bidirectional returns Ok and
\* tunnel() returns, dropping both streams.
CopyShutdown(d) ==
    /\ phase = "splicing"
    /\ ~rst[Dst(d)]
    /\ eof[d] /\ ~shut[d]
    /\ Buffered(d) = 0
    /\ shut' = [shut EXCEPT ![d] = TRUE]
    /\ IF shut[Other(d)]
         THEN /\ phase' = "closed" /\ result' = "ok"
         ELSE UNCHANGED <<phase, result>>
    /\ UNCHANGED <<sent, fin, rst, acked, read, written, eof, idle>>

\* The copy of d polls a reset stream: copy_bidirectional returns Err.
CopyError(d) ==
    /\ phase = "splicing"
    /\ \/ /\ rst[Src(d)] /\ ~eof[d] /\ Buffered(d) < BufCap
       \/ /\ rst[Dst(d)] /\ ~shut[d] /\ (Buffered(d) > 0 \/ eof[d])
    /\ Fail("ioErr")
    /\ UNCHANGED <<sent, fin, rst, acked, read, written, eof, shut, idle>>

Copy(d) ==
    \/ CopyRead(d)
    \/ CopyReadEof(d)
    \/ CopyWrite(d)
    \/ CopyShutdown(d)
    \/ CopyError(d)
----------------------------------------------------------------------------
(* TimeoutIO on the target stream (proxy.rs 473).                          *)

\* Mutant: only an outstanding read of the target is timed.
TargetPendingReadOnly ==
    /\ ~rst["target"]
    /\ ~eof["t2c"] /\ Buffered("t2c") < BufCap
    /\ read["t2c"] = sent["target"] /\ ~fin["target"]

\* Mutant: only a blocked write to the target is timed.
TargetPendingWriteOnly ==
    /\ ~rst["target"]
    /\ Buffered("c2t") > 0
    /\ written["c2t"] - acked["target"] = Window

\* The target is being polled and has nothing ready: a read of the target
\* is outstanding with no byte and no FIN to return, or a write to it is
\* outstanding against a full window.
TargetPending ==
    /\ ~rst["target"]
    /\ \/ /\ ~eof["t2c"] /\ Buffered("t2c") < BufCap
          /\ read["t2c"] = sent["target"] /\ ~fin["target"]
       \/ /\ Buffered("c2t") > 0
          /\ written["c2t"] - acked["target"] = Window

\* The clock advances while the splice runs.
Tick ==
    /\ phase = "splicing"
    /\ idle < IdleTimeout
    /\ idle' = idle + 1
    /\ UNCHANGED <<phase, result, sent, fin, rst, acked, read, written, eof, shut>>

\* The deadline has passed and a poll of the target returns Pending:
\* TimeoutIO reports TimedOut and copy_bidirectional returns Err.
Timeout ==
    /\ phase = "splicing"
    /\ idle = IdleTimeout
    /\ TargetPending
    /\ Fail("timedOut")
    /\ UNCHANGED <<sent, fin, rst, acked, read, written, eof, shut, idle>>
----------------------------------------------------------------------------
Environment ==
    \E p \in Peers : PeerSend(p) \/ PeerFin(p) \/ PeerReset(p) \/ PeerRead(p)

Proxy ==
    \/ Upgrade
    \/ Connect
    \/ \E d \in Dirs : Copy(d)
    \/ Timeout

Next == Environment \/ Proxy \/ Tick

\* The task is polled whenever it can make progress (tokio wakes it when a
\* stream it waits on becomes ready) and the clock runs.  The peers are the
\* environment and owe the proxy nothing: they need not send, close, reset
\* or even read what reaches them.
Fairness ==
    /\ WF_vars(Upgrade)
    /\ WF_vars(Connect)
    /\ \A d \in Dirs : WF_vars(Copy(d))
    /\ WF_vars(Tick)
    /\ WF_vars(Timeout)

Spec == Init /\ [][Next]_vars

FairSpec == Spec /\ Fairness
----------------------------------------------------------------------------
(* Properties.                                                             *)

\* No byte is lost by a half-close or by a clean end of the tunnel: when
\* the proxy forwards a peer's FIN (poll_shutdown on the other side), the
\* other side has been written every byte that peer sent; and when
\* tunnel() returns Ok, both peers have been written everything the other
\* sent.
HalfCloseDrained ==
    \A d \in Dirs : shut[d] => written[d] = sent[Src(d)]

CleanCloseComplete ==
    result = "ok" => \A d \in Dirs : written[d] = sent[Src(d)]

NoDataLost == HalfCloseDrained /\ CleanCloseComplete

\* The inductive strengthening of TypeOK and NoDataLost.  A copy never
\* writes more than it read nor reads more than its source sent, and a
\* peer never reads more than was written to it; a copy sees EOF only
\* after its source's FIN and last byte, and shuts the destination down
\* only with an empty buffer; a clean end needs both shutdowns, and the
\* task has a result exactly when it is closed.  Together these say that
\* CopyBuffer's EOF and shutdown steps happen in the one order that
\* loses no byte, whatever the peers and the other direction do.
CounterInv ==
    /\ \A d \in Dirs : written[d] <= read[d] /\ read[d] <= sent[Src(d)]
    /\ \A p \in Peers : acked[p] <= written[Into(p)]

DrainInv ==
    /\ \A d \in Dirs : eof[d] => fin[Src(d)] /\ read[d] = sent[Src(d)]
    /\ \A d \in Dirs : shut[d] => eof[d] /\ written[d] = read[d]
    /\ result = "ok" => \A d \in Dirs : shut[d]
    /\ (phase = "closed") <=> (result # "none")

IInv == TypeOK /\ CounterInv /\ DrainInv

\* The refinement mapping to TunnelPipe: a copy's writes are the pipe's
\* deliveries, its poll_shutdown the forwarded FIN, and the task's end
\* the pipe's status; reads into the CopyBuffer, resets, the clock and the
\* peers' reads are internal to the tunnel.
PipeStatus ==
    IF phase # "closed" THEN "open" ELSE IF result = "ok" THEN "ok" ELSE "failed"

Pipe == INSTANCE TunnelPipe WITH delivered <- written, halfClosed <- shut,
                                 status <- PipeStatus

\* copy_bidirectional behaves as two ordered pipes (spec 4.7): every byte
\* written to a peer is one the other peer sent, FINs are forwarded after
\* the last byte, the tunnel ends "ok" only with both FINs forwarded, and
\* nothing is written once tunnel() has returned.
TunnelImplementsPipe == Pipe!PipeSpec

\* Once the client has closed its side, the tunnel task ends, provided
\* the client keeps reading what the proxy writes to it: either the target
\* closes too, or the idle timer on the target stream fires, whether the
\* target has gone silent or has stopped reading with the proxy's writes
\* blocked on it (the FIN_WAIT_2 / CLOSE_WAIT case commented at proxy.rs
\* 237-242, spec 4.7 "Cancellation").  The target owes nothing; the
\* client's reading is a hypothesis because the client stream has no
\* timer: a client that stops reading blocks the t2c write forever.
ClientCloseEndsTunnel ==
    WF_vars(PeerRead("client")) => (fin["client"] ~> (phase = "closed"))

\* Every spawned tunnel task eventually ends (spec 4.7: the copy runs
\* until either half closes or the idle timer elapses with no traffic).
TunnelEventuallyEnds ==
    <>(phase = "closed")
=============================================================================
