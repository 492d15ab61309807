---------------------------- MODULE TunnelProofs ----------------------------
(***************************************************************************)
(* Proofs about the tunnel task, for every value of the constants         *)
(* TunnelAssumption allows: TypeOK and NoDataLost are invariants, by way   *)
(* of the inductive invariant IInv (Tunnel.tla), which MCTunnel.cfg also   *)
(* checks on the small instance; and the task refines TunnelPipe.         *)
(***************************************************************************)
EXTENDS Tunnel, TLAPS

\* The initial state of a freshly spawned tunnel task satisfies IInv.
LEMMA IInvInit == Init => IInv
BY TunnelAssumption
   DEF Init, IInv, TypeOK, CounterInv, DrainInv, Peers, Dirs, Phases, Results,
       Src, Into

\* Every step of the peers, of the copy loops, of the clock and of
\* TimeoutIO preserves IInv.
LEMMA IInvStep == IInv /\ [Next]_vars => IInv'
<1> SUFFICES ASSUME IInv, [Next]_vars PROVE IInv'
  OBVIOUS
<1> USE TunnelAssumption
    DEF IInv, TypeOK, CounterInv, DrainInv, Peers, Dirs, Phases, Results,
        Src, Dst, Other, Into, Buffered
<1>1. ASSUME NEW p \in Peers, PeerSend(p) PROVE IInv'
  BY <1>1 DEF PeerSend, PeerLive
<1>2. ASSUME NEW p \in Peers, PeerFin(p) PROVE IInv'
  BY <1>2 DEF PeerFin, PeerLive
<1>3. ASSUME NEW p \in Peers, PeerReset(p) PROVE IInv'
  BY <1>3 DEF PeerReset, PeerLive
<1>4. ASSUME NEW p \in Peers, PeerRead(p) PROVE IInv'
  BY <1>4 DEF PeerRead, PeerLive
<1>5. CASE Upgrade
  BY <1>5 DEF Upgrade
<1>6. CASE Connect
  BY <1>6 DEF Connect
<1>7. ASSUME NEW d \in Dirs, CopyRead(d) PROVE IInv'
  BY <1>7 DEF CopyRead, ResetIdle
<1>8. ASSUME NEW d \in Dirs, CopyReadEof(d) PROVE IInv'
  BY <1>8 DEF CopyReadEof, ResetIdle
<1>9. ASSUME NEW d \in Dirs, CopyWrite(d) PROVE IInv'
  BY <1>9 DEF CopyWrite, ResetIdle
<1>10. ASSUME NEW d \in Dirs, CopyShutdown(d) PROVE IInv'
  BY <1>10 DEF CopyShutdown
<1>11. ASSUME NEW d \in Dirs, CopyError(d) PROVE IInv'
  BY <1>11 DEF CopyError, Fail
<1>12. CASE Tick
  BY <1>12 DEF Tick
<1>13. CASE Timeout
  BY <1>13 DEF Timeout, Fail
<1>14. CASE UNCHANGED vars
  BY <1>14 DEF vars
<1>15. QED
  BY <1>1, <1>2, <1>3, <1>4, <1>5, <1>6, <1>7, <1>8, <1>9, <1>10, <1>11,
     <1>12, <1>13, <1>14
     DEF Next, Environment, Proxy, Copy

\* IInv holds in every reachable state of the tunnel task.
THEOREM IInvHolds == Spec => []IInv
BY IInvInit, IInvStep, PTL DEF Spec

\* Type correctness: every counter of the tunnel stays within its bound
\* (no copy reads or writes past what the peers sent).
THEOREM TypeCorrect == Spec => []TypeOK
<1>1. IInv => TypeOK
  BY DEF IInv
<1>2. QED
  BY IInvHolds, <1>1, PTL

\* IInv implies NoDataLost: a shutdown follows EOF and an empty buffer,
\* EOF follows the source's last byte, and a clean end both shutdowns.
LEMMA IInvNoDataLost == IInv => NoDataLost
BY DEF IInv, TypeOK, CounterInv, DrainInv, NoDataLost, HalfCloseDrained,
       CleanCloseComplete, Dirs

\* No byte is lost by a half-close or a clean end of copy_bidirectional,
\* for every buffer size, window, timeout and amount of data.
THEOREM NoDataLostHolds == Spec => []NoDataLost
BY IInvHolds, IInvNoDataLost, PTL

\* The tunnel task implements the two-pipe specification TunnelPipe: each
\* step of the copy loops, the peers, the clock and TimeoutIO is a step of
\* a pipe (a send, a FIN, a delivery, a forwarded FIN, an abort) or leaves
\* the pipes' state unchanged.
THEOREM Refinement == Spec => TunnelImplementsPipe
<1>1. Init => Pipe!PipeInit
  BY DEF Init, Pipe!PipeInit, PipeStatus, Peers, Dirs, Pipe!PipePeers, Pipe!PipeDirs
<1>2. IInv /\ [Next]_vars => [Pipe!PipeNext]_Pipe!pvars
  <2> SUFFICES ASSUME IInv, [Next]_vars PROVE [Pipe!PipeNext]_Pipe!pvars
    OBVIOUS
  <2> USE TunnelAssumption
      DEF IInv, TypeOK, CounterInv, DrainInv, Peers, Dirs, Phases, Results,
          Src, Dst, Other, Into, Buffered, PipeStatus, Pipe!pvars, Pipe!PipeNext,
          Pipe!PipePeers, Pipe!PipeDirs, Pipe!From, Pipe!Reverse
  <2>1. ASSUME NEW p \in Peers, PeerSend(p) PROVE Pipe!Send(p)
    BY <2>1 DEF PeerSend, PeerLive, Pipe!Send
  <2>2. ASSUME NEW p \in Peers, PeerFin(p) PROVE Pipe!Fin(p)
    BY <2>2 DEF PeerFin, PeerLive, Pipe!Fin
  <2>3. ASSUME NEW p \in Peers, PeerReset(p) \/ PeerRead(p) PROVE UNCHANGED Pipe!pvars
    BY <2>3 DEF PeerReset, PeerRead
  <2>4. CASE Upgrade
    BY <2>4 DEF Upgrade, Pipe!Abort
  <2>5. CASE Connect
    BY <2>5 DEF Connect, Pipe!Abort
  <2>6. ASSUME NEW d \in Dirs, CopyRead(d) \/ CopyReadEof(d) PROVE UNCHANGED Pipe!pvars
    BY <2>6 DEF CopyRead, CopyReadEof, ResetIdle
  <2>7. ASSUME NEW d \in Dirs, CopyWrite(d) PROVE Pipe!Deliver(d)
    BY <2>7 DEF CopyWrite, ResetIdle, Pipe!Deliver
  <2>8. ASSUME NEW d \in Dirs, CopyShutdown(d) PROVE Pipe!HalfClose(d)
    BY <2>8 DEF CopyShutdown, Pipe!HalfClose
  <2>9. ASSUME NEW d \in Dirs, CopyError(d) PROVE Pipe!Abort
    BY <2>9 DEF CopyError, Fail, Pipe!Abort
  <2>10. CASE Tick
    BY <2>10 DEF Tick
  <2>11. CASE Timeout
    BY <2>11 DEF Timeout, Fail, Pipe!Abort
  <2>12. CASE UNCHANGED vars
    BY <2>12 DEF vars
  <2>13. QED
    BY <2>1, <2>2, <2>3, <2>4, <2>5, <2>6, <2>7, <2>8, <2>9, <2>10, <2>11, <2>12
       DEF Next, Environment, Proxy, Copy
<1>3. QED
  BY <1>1, <1>2, IInvHolds, PTL DEF Spec, TunnelImplementsPipe, Pipe!PipeSpec
=============================================================================
