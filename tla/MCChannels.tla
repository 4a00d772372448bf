----------------------------- MODULE MCChannels -----------------------------
(***************************************************************************)
(* One run for the two network channels.  `part` is drawn once; that       *)
(* channel runs under its own specification and the other stays in its     *)
(* initial state, so the states are the sum of the two.                    *)
(***************************************************************************)
EXTENDS Naturals, TLC

CONSTANTS host, client

VARIABLES
    part,
    \* FramedStream
    queue, writable, enqueued, written, waiters, drains, state, notices, sent,
    got, held, wire, stream, damage,
    \* WebSocketChannel
    pending, sentTotal, wsWaiters, wsDrains, wsState, wsNotices, wsSent, wsGot,
    ready, buffer, wsWire, fate, bad

framed == <<queue, writable, enqueued, written, waiters, drains, state, notices,
            sent, got, held, wire, stream, damage>>
socket == <<pending, sentTotal, wsWaiters, wsDrains, wsState, wsNotices, wsSent,
            wsGot, ready, buffer, wsWire, fate, bad>>
vars == <<part, framed, socket>>

(* The host writes to a peer that only listens; the dialling end is the one *)
(* with frames to hold back while its socket connects.                      *)
MCEnds == {host, client}
Framed == INSTANCE FramedStream WITH
    Ends <- MCEnds, MaxSends <- (host :> 3) @@ (client :> 0), HeaderBytes <- 2,
    Sizes <- {3, 4}, OutboundHard <- 7,
    MaxDrains <- (host :> 1) @@ (client :> 0), MaxDamage <- 1

Socket == INSTANCE WebSocketChannel WITH
    Ends <- MCEnds, Dialling <- {client}, MaxSends <- (host :> 1) @@ (client :> 3),
    Sizes <- {1, 2}, OutboundHard <- 4,
    MaxDrains <- (host :> 0) @@ (client :> 1), MaxBad <- 1,
    waiters <- wsWaiters, drains <- wsDrains, state <- wsState, notices <- wsNotices,
    sent <- wsSent, got <- wsGot, wire <- wsWire

Init ==
    /\ part \in {"framed", "socket"}
    /\ Framed!Init /\ Socket!Init

Next ==
    \/ part = "framed" /\ Framed!Next /\ UNCHANGED <<part, socket>>
    \/ part = "socket" /\ Socket!Next /\ UNCHANGED <<part, framed>>

(* The fairness of the channel that runs, as its module states it. *)
Fairness ==
    \A e \in MCEnds :
       /\ WF_framed(part = "framed" /\ Framed!OnDrain(e))
       /\ WF_framed(part = "framed" /\ Framed!OnData(e))
       /\ WF_framed(part = "framed" /\ (Framed!OnEnd(e) \/ Framed!OnStreamClose(e)))
       /\ WF_socket(part = "socket" /\ Socket!OnOpen(e))
       /\ WF_socket(part = "socket" /\ Socket!Transmit(e))
       /\ WF_socket(part = "socket" /\ Socket!OnMessage(e))
       /\ WF_socket(part = "socket" /\ Socket!OnClose(e))
       /\ WF_socket(part = "socket" /\ Socket!CheckDrain(e))

FairSpec == Init /\ [][Next]_vars /\ Fairness

-----------------------------------------------------------------------------
(* Both channels implement the contract of ExplorerChannel (Channel), with  *)
(* frames split anywhere or lost with their socket, sockets still           *)
(* connecting, and closes at any moment: in order, whole, none after a      *)
(* close, one close notice, and everything accepted arrives unless an end   *)
(* closes.  A damaged byte of a framed stream, which no checksum catches,   *)
(* spoils one message at most and never moves another out of its place.     *)
ChannelsKeepTheirContract ==
    /\ Framed!ImplementsChannel
    /\ Framed!DamageIsContained
    /\ Socket!ImplementsChannel

(* drain() of both channels: it never resolves while a frame sent before    *)
(* the call is still queued, and it does resolve.                           *)
DrainIsSound ==
    /\ Framed!DrainIsHonest /\ Framed!DrainSettles
    /\ Socket!OpenDrainIsHonest /\ Socket!DrainSettles

(* Statements of the code that the model refutes (ChannelsRefuted.cfg): every *)
(* drain() call settles, one made after the close too (framed-channel.ts);    *)
(* drain() never resolves early, while the socket connects too (channel.ts).  *)
FramedDrainSettles == Framed!NoDrainDangles
SocketDrainIsHonest == Socket!DrainIsHonest
=============================================================================
