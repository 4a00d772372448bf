---------------------------- MODULE FramedStream ----------------------------
(***************************************************************************)
(* ExplorerChannel over a byte stream: packages/mille/src/stream.          *)
(*                                                                         *)
(* Each end queues encoded frames and hands them to its Node stream one at  *)
(* a time until write() answers false; the stream moves bytes to the peer's *)
(* decoder, splitting them wherever it likes.  A byte is a record naming    *)
(* the frame it belongs to and its place in it, so the decoder has to find  *)
(* the frame boundaries; sizes are counted in the same small units.  Every  *)
(* handler runs to its end on the event loop, so each is one action.        *)
(***************************************************************************)
EXTENDS Naturals, Sequences, SequencesExt, FiniteSets

CONSTANTS Ends,         \* the two ends
          MaxSends,     \* bound: MaxSends[e], the messages e gets accepted
          HeaderBytes,  \* bytes of a frame's header
          Sizes,        \* the sizes a frame may have, header included
          OutboundHard, \* outboundHardBytes: what the queue may hold
          MaxDrains,    \* bound: MaxDrains[e], the drain() calls at e
          MaxDamage     \* bound: bytes damaged on the way

VARIABLES
    (* the channel object of each end *)
    queue,      \* frames not yet handed to the stream: [msg, size]
    writable,   \* write() has not answered false since the last 'drain'
    enqueued,   \* cumulative bytes ever queued
    written,    \* cumulative bytes ever handed over
    waiters,    \* unresolved drain() calls: [mark, upto, late]
    drains,     \* drain() calls made
    state,      \* "open" or "closed"
    notices,    \* calls of the onClose listeners
    sent,       \* messages send() accepted
    got,        \* messages the onMessage listeners were given
    held,       \* bytes the decoder is holding
    (* the streams *)
    wire,       \* bytes e handed over that its peer has not read
    stream,     \* e's stream: "up", "ended" (end()) or "destroyed"
    damage      \* bytes damaged so far

outbound == <<queue, writable, enqueued, written>>
vars == <<outbound, waiters, drains, state, notices, sent, got, held,
          wire, stream, damage>>

Other(e) == CHOOSE o \in Ends : o # e

(* encodeFrame: one frame, the header first.  There is no checksum: `is`    *)
(* says whether a byte is "sound", and if not what the decoder can make of *)
(* it: "rejected" where it stands, rejected "late" when the whole frame is *)
(* decoded, or "quiet", as good as any other byte.                         *)
Frame(msg, size) ==
    [i \in 1..size |-> [msg |-> msg, at |-> i, size |-> size, is |-> "sound"]]

(* A message that decodes and that nobody sent. *)
Altered == 0

Bytes(frames) == FoldLeft(LAMBDA n, f : n + f.size, 0, frames)

Init ==
    /\ queue = [e \in Ends |-> <<>>]
    /\ writable = [e \in Ends |-> TRUE]
    /\ enqueued = [e \in Ends |-> 0]
    /\ written = [e \in Ends |-> 0]
    /\ waiters = [e \in Ends |-> {}]
    /\ drains = [e \in Ends |-> 0]
    /\ state = [e \in Ends |-> "open"]
    /\ notices = [e \in Ends |-> 0]
    /\ sent = [e \in Ends |-> 0]
    /\ got = [e \in Ends |-> <<>>]
    /\ held = [e \in Ends |-> <<>>]
    /\ wire = [e \in Ends |-> <<>>]
    /\ stream = [e \in Ends |-> "up"]
    /\ damage = 0

(* #shutdown: what is queued or half decoded is dropped, every drain()     *)
(* waiter is released and the close listeners are called, once.  A local   *)
(* close ends the stream, which flushes what it was handed; any other      *)
(* destroys it.                                                            *)
ShutdownForgettingWaiters(e, end) ==
    /\ state[e] = "open"
    /\ state' = [state EXCEPT ![e] = "closed"]
    /\ notices' = [notices EXCEPT ![e] = @ + 1]
    /\ queue' = [queue EXCEPT ![e] = <<>>]
    /\ held' = [held EXCEPT ![e] = <<>>]
    /\ stream' = [stream EXCEPT ![e] = end]
    /\ UNCHANGED waiters

Shutdown(e, end) ==
    /\ state[e] = "open"
    /\ state' = [state EXCEPT ![e] = "closed"]
    /\ notices' = [notices EXCEPT ![e] = @ + 1]
    /\ queue' = [queue EXCEPT ![e] = <<>>]
    /\ held' = [held EXCEPT ![e] = <<>>]
    /\ stream' = [stream EXCEPT ![e] = end]
    /\ waiters' = [waiters EXCEPT ![e] = {}]

(* #settleDrainWaiters: who is still waiting once `total` bytes are handed over. *)
SettledByProgress(e, total) == IF total > written[e] THEN {} ELSE waiters[e]

Unsettled(e, total) == {w \in waiters[e] : total < w.mark}

(* #pump of the frames q: the first k are handed over, the stream choosing *)
(* at which write() it answers false; nothing moves while it is waiting    *)
(* for its 'drain'.                                                        *)
Pump(e, q, ready) ==
    \E k \in 0..Len(q), ok \in BOOLEAN :
       /\ k > 0 => ready
       /\ ~ready => ~ok
       /\ ready /\ k < Len(q) => k > 0 /\ ~ok
       /\ ready /\ q = <<>> => ok
       /\ LET handed == SubSeq(q, 1, k)
              total  == written[e] + Bytes(handed)
          IN /\ wire' = [wire EXCEPT ![e] = @ \o
                  FlattenSeq([i \in 1..k |-> Frame(handed[i].msg, handed[i].size)])]
             /\ written' = [written EXCEPT ![e] = total]
             /\ waiters' = [waiters EXCEPT ![e] = Unsettled(e, total)]
       /\ queue' = [queue EXCEPT ![e] = SubSeq(q, k + 1, Len(q))]
       /\ writable' = [writable EXCEPT ![e] = ok]

(* send() of a message whose frame has `size` bytes.  Past the hard limit  *)
(* it closes the channel and throws; a write() that throws closes it too,  *)
(* after the message was accepted.                                         *)
SendRefused(e, size) ==
    /\ Bytes(queue[e]) + size > OutboundHard
    /\ Shutdown(e, "destroyed")
    /\ UNCHANGED <<writable, enqueued, written, drains, sent, got, wire, damage>>

SendQueued(e, size) ==
    LET msg == sent[e] + 1
    IN /\ Bytes(queue[e]) + size <= OutboundHard
       /\ enqueued' = [enqueued EXCEPT ![e] = @ + size]
       /\ sent' = [sent EXCEPT ![e] = msg]
       /\ Pump(e, Append(queue[e], [msg |-> msg, size |-> size]), writable[e])
       /\ UNCHANGED <<drains, state, notices, got, held, stream, damage>>

SendThrown(e, size) ==
    /\ writable[e]
    /\ Bytes(queue[e]) + size <= OutboundHard
    /\ enqueued' = [enqueued EXCEPT ![e] = @ + size]
    /\ written' = [written EXCEPT ![e] = @ + size]
    /\ sent' = [sent EXCEPT ![e] = @ + 1]
    /\ Shutdown(e, "destroyed")
    /\ UNCHANGED <<writable, drains, got, wire, damage>>

Send(e) ==
    /\ state[e] = "open"
    /\ sent[e] < MaxSends[e]
    /\ \E size \in Sizes : \/ SendRefused(e, size)
                           \/ SendQueued(e, size)
                           \/ SendThrown(e, size)

(* drain(): resolved at once when everything queued was handed over, else  *)
(* it waits for the byte mark of this moment.  The state is not looked at. *)
Drain(e) ==
    /\ drains[e] < MaxDrains[e]
    /\ drains' = [drains EXCEPT ![e] = @ + 1]
    /\ written[e] < enqueued[e]
    /\ waiters' = [waiters EXCEPT ![e] = @ \cup
          {[mark |-> enqueued[e], upto |-> sent[e], late |-> state[e] # "open"]}]
    /\ UNCHANGED <<outbound, state, notices, sent, got, held, wire, stream, damage>>

(* The stream took what it was holding back: its 'drain' event. *)
OnDrain(e) ==
    /\ state[e] = "open"
    /\ ~writable[e]
    /\ Pump(e, queue[e], TRUE)
    /\ UNCHANGED <<enqueued, drains, state, notices, sent, got, held, stream, damage>>

(* FrameDecoder.push over the bytes b: frames are cut off the front while  *)
(* a validated header says the whole frame is there.  parseHeader looks at *)
(* the magic, the version, the flags and the limits, decodeFrame at the    *)
(* UTF-8, the JSON and the sum of the attachments: `bad` says that one of  *)
(* them threw, and nothing decoded before it is returned.                  *)
DecodeFirstOnly(b) ==
    LET whole == Len(b) >= HeaderBytes /\ Len(b) >= b[HeaderBytes].size
    IN [bad |-> FALSE,
        out |-> IF whole THEN <<b[1].msg>> ELSE <<>>,
        rest |-> IF whole THEN <<>> ELSE b]

Decode(b) ==
    LET Size(i)   == b[i + HeaderBytes].size
        Header(i) == \A k \in 1..HeaderBytes :
                        b[i + k].is # "rejected" /\ b[i + k].at = k
        Body(i)   == \A k \in 1..Size(i) : b[i + k].is \notin {"rejected", "late"}
        Message(i) == IF \A k \in 1..Size(i) : b[i + k].is = "sound"
                      THEN b[i + 1].msg ELSE Altered
        loop[i \in 0..Len(b)] ==
            IF Len(b) - i < HeaderBytes
            THEN [bad |-> FALSE, out |-> <<>>, rest |-> SubSeq(b, i + 1, Len(b))]
            ELSE IF ~Header(i) THEN [bad |-> TRUE, out |-> <<>>, rest |-> <<>>]
            ELSE IF Len(b) - i < Size(i)
            THEN [bad |-> FALSE, out |-> <<>>, rest |-> SubSeq(b, i + 1, Len(b))]
            ELSE IF ~Body(i) THEN [bad |-> TRUE, out |-> <<>>, rest |-> <<>>]
            ELSE LET tail == loop[i + Size(i)]
                 IN [tail EXCEPT !.out = <<Message(i)>> \o @]
    IN loop[0]

(* #onData: a chunk of any length arrives.  A malformed frame closes the   *)
(* channel; a listener may close it at any message, and then hears no more *)
(* of the chunk.                                                           *)
OnData(e) ==
    LET o == Other(e)
    IN /\ state[e] = "open"
       /\ \E n \in 1..Len(wire[o]) :
             LET d == Decode(held[e] \o SubSeq(wire[o], 1, n))
             IN /\ wire' = [wire EXCEPT ![o] = SubSeq(@, n + 1, Len(@))]
                /\ \/ /\ d.bad
                      /\ Shutdown(e, "destroyed")
                      /\ UNCHANGED <<writable, enqueued, written, got>>
                   \/ /\ ~d.bad
                      /\ got' = [got EXCEPT ![e] = @ \o d.out]
                      /\ held' = [held EXCEPT ![e] = d.rest]
                      /\ UNCHANGED <<outbound, waiters, state, notices, stream>>
                   \/ /\ ~d.bad
                      /\ \E k \in 1..Len(d.out) :
                            got' = [got EXCEPT ![e] = @ \o SubSeq(d.out, 1, k)]
                      /\ Shutdown(e, "ended")
                      /\ UNCHANGED <<writable, enqueued, written>>
       /\ UNCHANGED <<drains, sent, damage>>

(* close(), dispose() *)
Close(e) ==
    /\ Shutdown(e, "ended")
    /\ UNCHANGED <<writable, enqueued, written, drains, sent, got, wire, damage>>

(* 'end' after the last byte of a peer that ended its stream; 'close' (or  *)
(* 'error') at any point once the peer's stream was destroyed.             *)
OnEnd(e) ==
    /\ stream[Other(e)] = "ended"
    /\ wire[Other(e)] = <<>>
    /\ Shutdown(e, "destroyed")
    /\ UNCHANGED <<writable, enqueued, written, drains, sent, got, wire, damage>>

OnStreamClose(e) ==
    /\ stream[Other(e)] = "destroyed"
    /\ Shutdown(e, "destroyed")
    /\ UNCHANGED <<writable, enqueued, written, drains, sent, got, wire, damage>>

(* 'error': the connection broke at this end. *)
OnError(e) ==
    /\ Shutdown(e, "destroyed")
    /\ UNCHANGED <<writable, enqueued, written, drains, sent, got, wire, damage>>

(* A byte of the stream is not what the peer wrote: one that the decoder    *)
(* rejects, one of the payload that still parses, or one of the header's    *)
(* lengths, so that the frame ends elsewhere.                               *)
Damaged(byte) ==
    {d \in [msg : {byte.msg}, at : {byte.at}, size : Sizes,
            is : {"rejected", "late", "quiet"}] :
        /\ d.is = "late" => d.at = HeaderBytes
        /\ d.is = "quiet" => d.at >= HeaderBytes
        /\ d.size # byte.size <=> d.at = HeaderBytes /\ d.is # "rejected"}

Damage(e) ==
    /\ damage < MaxDamage
    /\ damage' = damage + 1
    /\ \E i \in 1..Len(wire[e]) :
          \E byte \in Damaged(wire[e][i]) : wire' = [wire EXCEPT ![e][i] = byte]
    /\ UNCHANGED <<outbound, waiters, drains, state, notices, sent, got, held, stream>>

Next ==
    \E e \in Ends :
       \/ Send(e) \/ Drain(e) \/ Close(e)
       \/ OnDrain(e) \/ OnData(e) \/ OnEnd(e) \/ OnStreamClose(e) \/ OnError(e)
       \/ Damage(e)

(* Node delivers the events of a stream: bytes arrive, a full buffer        *)
(* drains, an ended or destroyed peer is reported.  Callers and faults owe  *)
(* nothing.                                                                *)
Fairness ==
    \A e \in Ends : /\ WF_vars(OnDrain(e))
                    /\ WF_vars(OnData(e))
                    /\ WF_vars(OnEnd(e) \/ OnStreamClose(e))

Spec == Init /\ [][Next]_vars
FairSpec == Spec /\ Fairness

-----------------------------------------------------------------------------
Contract == INSTANCE Channel

(* While its bytes arrive as they were written, the framed stream           *)
(* implements the channel contract: messages arrive in order and unbroken   *)
(* however the bytes are split, none after a close, the close is told once, *)
(* and what was accepted arrives if nothing closes.                         *)
ImplementsChannel ==
    /\ Contract!Init
    /\ [][damage' = 0 => Contract!Next]_Contract!vars
    /\ [](damage = 0) =>
          \A e \in Ends : /\ WF_Contract!vars(Contract!Receive(e))
                          /\ WF_Contract!vars(Contract!PeerGone(e))

(* What damage can do.  The codec has no checksum (codec.ts parseHeader,    *)
(* decodeFrame), so a damaged message may be delivered; but each damaged    *)
(* byte costs one message at most: any other that arrives is the one sent   *)
(* in its place, since a frame that ends at the wrong place leaves no valid *)
(* header behind it.  The close is still told once.                         *)
DamageIsContained ==
    [](\A e \in Ends :
         /\ \A i \in DOMAIN got[e] : got[e][i] \in {i, Altered}
         /\ Cardinality({i \in DOMAIN got[e] : got[e][i] = Altered}) <= damage
         /\ notices[e] = IF state[e] = "closed" THEN 1 ELSE 0)

(* CH-004, as long as the channel is open: a drain() that resolves leaves  *)
(* nothing in the queue that was sent before the call, though later sends  *)
(* keep the queue full.                                                    *)
DrainIsHonest ==
    [][\A e \in Ends : \A w \in waiters[e] \ waiters'[e] :
          state'[e] = "open" => \A i \in DOMAIN queue'[e] : queue'[e][i].msg > w.upto]_vars

(* A drain() called on an open channel settles: by the writes, or by the   *)
(* close that drops the queue.                                             *)
DrainSettles ==
    \A e \in Ends :
       (\E w \in waiters[e] : ~w.late) ~> (\A w \in waiters[e] : w.late)

(* The comment at the end of #shutdown ("release them rather than leaving  *)
(* the promises dangling forever"), for every drain() call: a call made    *)
(* after the close too.                                                    *)
NoDrainDangles == \A e \in Ends : (waiters[e] # {}) ~> (waiters[e] = {})
=============================================================================
