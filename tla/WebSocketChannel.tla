-------------------------- MODULE WebSocketChannel --------------------------
(***************************************************************************)
(* ExplorerChannel over a WebSocket, one frame per binary message:         *)
(* packages/mille/src/websocket.                                           *)
(*                                                                         *)
(* The client's socket may still be CONNECTING: its frames wait in #pending *)
(* and are flushed by the 'open' event.  There is no 'drain' event, so the  *)
(* channel reads bufferedAmount: before every send, and, while someone      *)
(* waits in drain(), on a timer and from the callback of every send.  The   *)
(* standard API of the client calls that callback inside send() itself.     *)
(***************************************************************************)
EXTENDS Naturals, Sequences, SequencesExt

CONSTANTS Ends,         \* the two ends
          Dialling,     \* ends whose socket starts out CONNECTING, and whose
                        \* adapter calls onSent inside send() (client.ts)
          MaxSends,     \* bound: MaxSends[e], the messages e gets accepted
          Sizes,        \* the sizes a frame may have
          OutboundHard, \* outboundHardBytes
          MaxDrains,    \* bound: MaxDrains[e], the drain() calls at e
          MaxBad        \* bound: malformed messages

VARIABLES
    (* the channel object of each end *)
    pending,    \* frames sent while CONNECTING: [msg, size]
    sentTotal,  \* cumulative bytes passed to send()
    waiters,    \* unresolved drain() calls: [mark, upto, early]
    drains,     \* drain() calls made
    state,      \* "open" or "closed"
    notices,    \* calls of the onClose listeners
    sent,       \* messages send() accepted
    got,        \* messages the onMessage listeners were given
    (* the sockets *)
    ready,      \* readyState: "CONNECTING", "OPEN" or "CLOSING"
    buffer,     \* frames in the socket's buffer: bufferedAmount is their size
    wire,       \* messages on the network towards the other end
    fate,       \* "up", "closed" (a close frame follows the buffer) or "dropped"
    bad         \* malformed messages so far

vars == <<pending, sentTotal, waiters, drains, state, notices, sent, got,
          ready, buffer, wire, fate, bad>>

Other(e) == CHOOSE o \in Ends : o # e

Bytes(frames) == FoldLeft(LAMBDA n, f : n + f.size, 0, frames)

(* bufferedBytes, of an open channel whose buffers hold p and b *)
Buffered(p, b) == Bytes(p) + Bytes(b)

Init ==
    /\ pending = [e \in Ends |-> <<>>]
    /\ sentTotal = [e \in Ends |-> 0]
    /\ waiters = [e \in Ends |-> {}]
    /\ drains = [e \in Ends |-> 0]
    /\ state = [e \in Ends |-> "open"]
    /\ notices = [e \in Ends |-> 0]
    /\ sent = [e \in Ends |-> 0]
    /\ got = [e \in Ends |-> <<>>]
    /\ ready = [e \in Ends |-> IF e \in Dialling THEN "CONNECTING" ELSE "OPEN"]
    /\ buffer = [e \in Ends |-> <<>>]
    /\ wire = [e \in Ends |-> <<>>]
    /\ fate = [e \in Ends |-> "up"]
    /\ bad = 0

(* #checkDrain: who still waits when `buffered` bytes are left of `total`  *)
(* ever sent.  The buffer is a FIFO, so a waiter is done once no more is   *)
(* left than was sent after it asked.                                      *)
WaitingPastMark(ws, buffered, total) == {w \in ws : buffered > w.mark}

Waiting(ws, buffered, total) == {w \in ws : buffered > total - w.mark}

(* #shutdown: `end` is what becomes of the socket: closed by us, dropped   *)
(* (terminate), or already closed by the peer.                             *)
ShutdownKeepingWaiters(e, end) ==
    /\ state[e] = "open"
    /\ state' = [state EXCEPT ![e] = "closed"]
    /\ notices' = [notices EXCEPT ![e] = @ + 1]
    /\ pending' = [pending EXCEPT ![e] = <<>>]
    /\ ready' = [ready EXCEPT ![e] = "CLOSING"]
    /\ fate' = [fate EXCEPT ![e] = end]
    /\ UNCHANGED waiters

Shutdown(e, end) ==
    /\ state[e] = "open"
    /\ state' = [state EXCEPT ![e] = "closed"]
    /\ notices' = [notices EXCEPT ![e] = @ + 1]
    /\ pending' = [pending EXCEPT ![e] = <<>>]
    /\ ready' = [ready EXCEPT ![e] = "CLOSING"]
    /\ fate' = [fate EXCEPT ![e] = end]
    /\ waiters' = [waiters EXCEPT ![e] = {}]

(* send(): past the hard limit the channel closes and throws; a socket     *)
(* that throws is gone, and so is the message; while CONNECTING the frame  *)
(* is held back.                                                           *)
SendRefused(e, size) ==
    /\ Buffered(pending[e], buffer[e]) + size > OutboundHard
    /\ Shutdown(e, "closed")
    /\ UNCHANGED <<sentTotal, sent, buffer>>

SendThrown(e, size) ==
    /\ Buffered(pending[e], buffer[e]) + size <= OutboundHard
    /\ ready[e] = "OPEN"
    /\ sentTotal' = [sentTotal EXCEPT ![e] = @ + size]
    /\ Shutdown(e, "dropped")
    /\ UNCHANGED <<sent, buffer>>

SendAccepted(e, size) ==
    LET frame == [msg |-> sent[e] + 1, size |-> size]
        total == sentTotal[e] + size
        out   == Append(buffer[e], frame)
    IN /\ Buffered(pending[e], buffer[e]) + size <= OutboundHard
       /\ sentTotal' = [sentTotal EXCEPT ![e] = total]
       /\ sent' = [sent EXCEPT ![e] = @ + 1]
       /\ \/ /\ ready[e] = "CONNECTING"
             /\ pending' = [pending EXCEPT ![e] = Append(@, frame)]
             /\ UNCHANGED <<buffer, waiters>>
          \/ /\ ready[e] = "OPEN"
             /\ buffer' = [buffer EXCEPT ![e] = out]
             /\ waiters' = [waiters EXCEPT ![e] =
                   IF e \in Dialling THEN Waiting(@, Bytes(out), total) ELSE @]
             /\ UNCHANGED pending
       /\ UNCHANGED <<state, notices, ready, fate>>

Send(e) ==
    /\ state[e] = "open"
    /\ sent[e] < MaxSends[e]
    /\ \E size \in Sizes : \/ SendRefused(e, size)
                           \/ SendThrown(e, size)
                           \/ SendAccepted(e, size)
    /\ UNCHANGED <<drains, got, wire, bad>>

(* drain(): nothing to wait for when closed or when nothing is buffered. *)
Drain(e) ==
    /\ drains[e] < MaxDrains[e]
    /\ drains' = [drains EXCEPT ![e] = @ + 1]
    /\ state[e] = "open"
    /\ Buffered(pending[e], buffer[e]) > 0
    /\ waiters' = [waiters EXCEPT ![e] = @ \cup
          {[mark |-> sentTotal[e], upto |-> sent[e], early |-> ready[e] = "CONNECTING"]}]
    /\ UNCHANGED <<pending, sentTotal, state, notices, sent, got, ready, buffer,
                   wire, fate, bad>>

(* #checkDrain, from the timer drain() keeps running, or from the callback *)
(* of a frame that left the buffer.                                        *)
CheckDrain(e) ==
    /\ state[e] = "open"
    /\ waiters[e] # {}
    /\ waiters' = [waiters EXCEPT ![e] =
          Waiting(@, Buffered(pending[e], buffer[e]), sentTotal[e])]
    /\ UNCHANGED <<pending, sentTotal, drains, state, notices, sent, got, ready,
                   buffer, wire, fate, bad>>

(* #onOpen: #pending is emptied first, then its frames are written in      *)
(* order; on the client each write checks the drain waiters against what   *)
(* is in the socket's buffer at that point of the loop.                    *)
OnOpenReversed(e) ==
    /\ state[e] = "open"
    /\ ready[e] = "CONNECTING"
    /\ ready' = [ready EXCEPT ![e] = "OPEN"]
    /\ buffer' = [buffer EXCEPT ![e] = @ \o Reverse(pending[e])]
    /\ pending' = [pending EXCEPT ![e] = <<>>]
    /\ UNCHANGED <<sentTotal, waiters, drains, state, notices, sent, got, wire, fate, bad>>

OnOpen(e) ==
    LET p == pending[e]
        Written(k) == Bytes(SubSeq(p, 1, k))
    IN /\ state[e] = "open"
       /\ ready[e] = "CONNECTING"
       /\ ready' = [ready EXCEPT ![e] = "OPEN"]
       /\ buffer' = [buffer EXCEPT ![e] = @ \o p]
       /\ waiters' = [waiters EXCEPT ![e] =
             {w \in @ : \A k \in 1..Len(p) : w \in Waiting(@, Written(k), sentTotal[e])}]
       /\ pending' = [pending EXCEPT ![e] = <<>>]
       /\ UNCHANGED <<sentTotal, drains, state, notices, sent, got, wire, fate, bad>>

(* The socket puts the first frame of its buffer on the network. *)
Transmit(e) ==
    /\ ready[e] # "CONNECTING"
    /\ fate[e] # "dropped"
    /\ buffer[e] # <<>>
    /\ wire' = [wire EXCEPT ![e] = Append(@, [msg |-> Head(buffer[e]).msg, ok |-> TRUE])]
    /\ buffer' = [buffer EXCEPT ![e] = Tail(@)]
    /\ UNCHANGED <<pending, sentTotal, waiters, drains, state, notices, sent, got,
                   ready, fate, bad>>

(* #onMessage: a whole message; a malformed one (text, oversized, a header *)
(* that does not match) closes the session; a listener may close it.       *)
OnMessage(e) ==
    LET o == Other(e)
        m == Head(wire[o])
    IN /\ state[e] = "open"
       /\ ready[e] = "OPEN"
       /\ wire[o] # <<>>
       /\ wire' = [wire EXCEPT ![o] = Tail(@)]
       /\ \/ ~m.ok /\ Shutdown(e, "closed") /\ UNCHANGED got
          \/ /\ m.ok
             /\ got' = [got EXCEPT ![e] = Append(@, m.msg)]
             /\ \/ Shutdown(e, "closed")
                \/ UNCHANGED <<pending, waiters, state, notices, ready, fate>>
       /\ UNCHANGED <<sentTotal, drains, sent, buffer, bad>>

(* close(), closeAs(), dispose() *)
Close(e) ==
    /\ Shutdown(e, "closed")
    /\ UNCHANGED <<sentTotal, drains, sent, got, buffer, wire, bad>>

(* #onClose: the peer's close frame, behind everything the peer buffered,  *)
(* or code 1006 when the peer dropped the connection.                      *)
OnClose(e) ==
    LET o == Other(e)
    IN /\ \/ fate[o] = "dropped"
          \/ /\ fate[o] = "closed" /\ ready[e] = "OPEN"
             /\ buffer[o] = <<>> /\ wire[o] = <<>>
       /\ Shutdown(e, "dropped")
       /\ UNCHANGED <<sentTotal, drains, sent, got, buffer, wire, bad>>

(* #onError: a transport failure, answered with terminate(). *)
OnError(e) ==
    /\ Shutdown(e, "dropped")
    /\ UNCHANGED <<sentTotal, drains, sent, got, buffer, wire, bad>>

(* A message on the network is not a frame of this protocol. *)
Malform(e) ==
    /\ bad < MaxBad
    /\ bad' = bad + 1
    /\ \E i \in 1..Len(wire[e]) : wire' = [wire EXCEPT ![e][i].ok = FALSE]
    /\ UNCHANGED <<pending, sentTotal, waiters, drains, state, notices, sent, got,
                   ready, buffer, fate>>

Next ==
    \E e \in Ends :
       \/ Send(e) \/ Drain(e) \/ CheckDrain(e) \/ Close(e)
       \/ OnOpen(e) \/ OnMessage(e) \/ OnClose(e) \/ OnError(e)
       \/ Transmit(e) \/ Malform(e)

(* The socket connects, transmits and delivers its events; the drain timer *)
(* keeps firing while someone waits.                                       *)
Fairness ==
    \A e \in Ends : /\ WF_vars(OnOpen(e))
                    /\ WF_vars(Transmit(e))
                    /\ WF_vars(OnMessage(e))
                    /\ WF_vars(OnClose(e))
                    /\ WF_vars(CheckDrain(e))

Spec == Init /\ [][Next]_vars
FairSpec == Spec /\ Fairness

-----------------------------------------------------------------------------
Contract == INSTANCE Channel

(* The WebSocket channel implements the channel contract: what was sent     *)
(* while the socket was connecting arrives first and in order, nothing is   *)
(* delivered after a close, and what was accepted arrives if nothing closes. *)
ImplementsChannel == Contract!FairSpec

(* drain()'s comment: it "resolves once everything sent before this call   *)
(* has left the socket's buffer", never earlier.                           *)
DrainIsHonest ==
    [][\A e \in Ends : \A w \in waiters[e] \ waiters'[e] :
          state'[e] = "open" =>
             \A f \in Range(pending'[e]) \cup Range(buffer'[e]) : f.msg > w.upto]_vars

(* The same for the calls made once the socket is open, where it holds.    *)
OpenDrainIsHonest ==
    [][\A e \in Ends : \A w \in waiters[e] \ waiters'[e] :
          state'[e] = "open" /\ ~w.early =>
             \A f \in Range(pending'[e]) \cup Range(buffer'[e]) : f.msg > w.upto]_vars

(* Every drain() settles: the buffer empties past its mark, or the channel *)
(* closes and releases it.                                                 *)
DrainSettles == \A e \in Ends : (waiters[e] # {}) ~> (waiters[e] = {})
=============================================================================
