------------------------ MODULE WebSocketChannelProofs ------------------------
(***************************************************************************)
(* The WebSocket channel implements the safety of the channel contract for *)
(* every two ends, frame sizes, limits and bounds: what an end is given is *)
(* what the other sent, in order and with none left out, an end that has   *)
(* closed is given nothing more, and its listeners hear of the close once. *)
(***************************************************************************)
EXTENDS WebSocketChannel, TLAPS

TwoEnds == \E a, b : a # b /\ Ends = {a, b}

Frames == [msg : Nat, size : Sizes]
Messages == [msg : Nat, ok : BOOLEAN]

(* After n messages were given to one end, the wire, the socket's buffer    *)
(* and #pending of the other, one after the other, carry the next ones,     *)
(* and none that was not sent.                                              *)
Total(n, w, b, p) == n + Len(w) + Len(b) + Len(p)
Chain(n, w, b, p, s) ==
    /\ \A i \in 1..Len(w) : w[i].msg = n + i
    /\ \A i \in 1..Len(b) : b[i].msg = n + Len(w) + i
    /\ \A i \in 1..Len(p) : p[i].msg = n + Len(w) + Len(b) + i
    /\ Total(n, w, b, p) <= s

(* send() on an open socket appends to its buffer, ... *)
LEMMA ChainBuffers ==
  ASSUME NEW n \in Nat, NEW w \in Seq(Messages), NEW b \in Seq(Frames), NEW f \in Frames,
         NEW s \in Nat, Chain(n, w, b, <<>>, s), Total(n, w, b, <<>>) = s, f.msg = s + 1
  PROVE  Chain(n, w, Append(b, f), <<>>, s + 1) /\ Total(n, w, Append(b, f), <<>>) = s + 1
BY DEF Chain, Total

(* ... on a connecting one to #pending, ... *)
LEMMA ChainHoldsBack ==
  ASSUME NEW n \in Nat, NEW w \in Seq(Messages), NEW b \in Seq(Frames), NEW p \in Seq(Frames),
         NEW f \in Frames, NEW s \in Nat,
         Chain(n, w, b, p, s), Total(n, w, b, p) = s, f.msg = s + 1
  PROVE  Chain(n, w, b, Append(p, f), s + 1) /\ Total(n, w, b, Append(p, f)) = s + 1
BY DEF Chain, Total

(* ... which the 'open' event moves behind the buffer. *)
LEMMA ChainFlushes ==
  ASSUME NEW n \in Nat, NEW w \in Seq(Messages), NEW b \in Seq(Frames), NEW p \in Seq(Frames),
         NEW s \in Nat, Chain(n, w, b, p, s)
  PROVE  /\ Chain(n, w, b \o p, <<>>, s)
         /\ Total(n, w, b \o p, <<>>) = Total(n, w, b, p)
<1>1. /\ b \o p \in Seq(Frames) /\ Len(b \o p) = Len(b) + Len(p)
      /\ \A i \in 1..Len(b \o p) : (b \o p)[i] = IF i <= Len(b) THEN b[i] ELSE p[i - Len(b)]
  OBVIOUS
<1>2. \A i \in 1..Len(b \o p) : (b \o p)[i].msg = n + Len(w) + i
  <2> TAKE i \in 1..Len(b \o p)
  <2>1. CASE i <= Len(b)
    BY <1>1, <2>1 DEF Chain
  <2>2. CASE i > Len(b)
    <3>1. i - Len(b) \in 1..Len(p) /\ (b \o p)[i] = p[i - Len(b)]
      BY <1>1, <2>2
    <3> QED BY <3>1 DEF Chain
  <2> QED BY <2>1, <2>2
<1> QED BY <1>1, <1>2 DEF Chain, Total

(* A shutdown drops #pending. *)
LEMMA ChainForgets ==
  ASSUME NEW n \in Nat, NEW w \in Seq(Messages), NEW b \in Seq(Frames), NEW p \in Seq(Frames),
         NEW s \in Nat, Chain(n, w, b, p, s)
  PROVE  Chain(n, w, b, <<>>, s)
BY DEF Chain, Total

(* The socket transmits the first frame it buffers. *)
LEMMA ChainTransmits ==
  ASSUME NEW n \in Nat, NEW w \in Seq(Messages), NEW b \in Seq(Frames), NEW p \in Seq(Frames),
         NEW s \in Nat, Chain(n, w, b, p, s), b # <<>>
  PROVE  /\ Chain(n, Append(w, [msg |-> Head(b).msg, ok |-> TRUE]), Tail(b), p, s)
         /\ Total(n, Append(w, [msg |-> Head(b).msg, ok |-> TRUE]), Tail(b), p) = Total(n, w, b, p)
         /\ Append(w, [msg |-> Head(b).msg, ok |-> TRUE]) \in Seq(Messages)
         /\ Tail(b) \in Seq(Frames)
<1> DEFINE m == [msg |-> Head(b).msg, ok |-> TRUE]
<1>1. /\ Head(b) = b[1] /\ Len(b) >= 1 /\ b[1] \in Frames
      /\ Len(Tail(b)) = Len(b) - 1 /\ Tail(b) \in Seq(Frames)
      /\ \A i \in 1..Len(Tail(b)) : Tail(b)[i] = b[i + 1]
  OBVIOUS
<1>2. m \in Messages /\ m.msg = n + Len(w) + 1
  BY <1>1 DEF Chain, Frames, Messages
<1> HIDE DEF m
<1>3. /\ Append(w, m) \in Seq(Messages) /\ Len(Append(w, m)) = Len(w) + 1
      /\ \A i \in 1..Len(w) : Append(w, m)[i] = w[i]
      /\ Append(w, m)[Len(w) + 1] = m
  BY <1>2
<1>4. \A i \in 1..Len(Append(w, m)) : Append(w, m)[i].msg = n + i
  BY <1>2, <1>3 DEF Chain
<1>5. Chain(n, Append(w, m), Tail(b), p, s) /\ Total(n, Append(w, m), Tail(b), p) = Total(n, w, b, p)
  BY <1>1, <1>3, <1>4 DEF Chain, Total
<1> QED BY <1>1, <1>3, <1>5 DEF m

(* The first message of the wire is the next one. *)
LEMMA ChainDelivers ==
  ASSUME NEW n \in Nat, NEW w \in Seq(Messages), NEW b \in Seq(Frames), NEW p \in Seq(Frames),
         NEW s \in Nat, Chain(n, w, b, p, s), w # <<>>
  PROVE  /\ Head(w).msg = n + 1 /\ n + 1 <= s /\ Tail(w) \in Seq(Messages)
         /\ Chain(n + 1, Tail(w), b, p, s) /\ Total(n + 1, Tail(w), b, p) = Total(n, w, b, p)
<1>1. /\ Head(w) = w[1] /\ Len(w) >= 1
      /\ Len(Tail(w)) = Len(w) - 1 /\ Tail(w) \in Seq(Messages)
      /\ \A i \in 1..Len(Tail(w)) : Tail(w)[i] = w[i + 1]
  OBVIOUS
<1>2. Head(w).msg = n + 1 /\ \A i \in 1..Len(Tail(w)) : Tail(w)[i].msg = n + 1 + i
  BY <1>1 DEF Chain
<1>3. n + 1 <= s /\ Total(n + 1, Tail(w), b, p) = Total(n, w, b, p)
  BY <1>1 DEF Chain, Total
<1> QED BY <1>1, <1>2, <1>3 DEF Chain, Total

-----------------------------------------------------------------------------
Typed ==
    /\ sent \in [Ends -> Nat] /\ got \in [Ends -> Seq(Nat)]
    /\ pending \in [Ends -> Seq(Frames)] /\ buffer \in [Ends -> Seq(Frames)]
    /\ wire \in [Ends -> Seq(Messages)]
    /\ state \in [Ends -> {"open", "closed"}]
    /\ ready \in [Ends -> {"CONNECTING", "OPEN", "CLOSING"}]

(* The traffic towards e, until e closes. *)
Flow(e) ==
    LET o == Other(e)
        n == Len(got[e])
    IN /\ got[e] = [i \in 1..n |-> i]
       /\ state[e] = "open" => Chain(n, wire[o], buffer[o], pending[o], sent[o])
       /\ state[e] = "open" /\ state[o] = "open"
            => Total(n, wire[o], buffer[o], pending[o]) = sent[o]

(* Frames are held back only by an open channel whose socket connects. *)
HeldBack(e) == state[e] = "closed" \/ ready[e] = "OPEN" => pending[e] = <<>>

Inv == Typed /\ \A e \in Ends : Flow(e) /\ HeldBack(e)

(* Each end is the other's other. *)
LEMMA EndsPair ==
  ASSUME TwoEnds, NEW e \in Ends
  PROVE  /\ Other(e) \in Ends /\ Other(e) # e /\ Other(Other(e)) = e
         /\ \A x \in Ends : x = e \/ x = Other(e)
BY DEF TwoEnds, Other

(* Two new channels: nothing sent. *)
LEMMA InvInit == TwoEnds /\ Init => Inv
<1> SUFFICES ASSUME TwoEnds, Init PROVE Inv
  OBVIOUS
<1>1. Typed
  BY DEF Init, Typed
<1>2. ASSUME NEW e \in Ends PROVE Flow(e) /\ HeldBack(e)
  <2>1. Other(e) \in Ends
    BY EndsPair
  <2> QED BY <2>1 DEF Init, Flow, HeldBack, Chain, Total
<1> QED BY <1>1, <1>2 DEF Inv

(* An end that shuts down: nothing is owed to it any more, and what it held *)
(* back is not sent.  It may have been given a message in the same call.    *)
LEMMA EndCloses ==
  ASSUME TwoEnds, Inv, NEW e \in Ends, NEW end, Shutdown(e, end),
         UNCHANGED <<sent, buffer>>,
         wire' \in [Ends -> Seq(Messages)], wire'[e] = wire[e],
         got' \in [Ends -> Seq(Nat)], \A x \in Ends \ {e} : got'[x] = got[x],
         got'[e] = [i \in 1..Len(got'[e]) |-> i]
  PROVE  Inv'
<1> DEFINE o == Other(e)
<1>1. o \in Ends /\ o # e /\ Other(o) = e /\ \A x \in Ends : x = e \/ x = o
  BY EndsPair
<1> HIDE DEF o
<1>2. /\ Typed' /\ state'[e] = "closed" /\ state'[o] = state[o]
      /\ pending'[e] = <<>> /\ pending'[o] = pending[o] /\ ready'[o] = ready[o]
  <2>1. Typed
    BY DEF Inv
  <2> QED BY <1>1, <2>1 DEF Shutdown, Typed
<1>3. Flow(e)' /\ HeldBack(e)'
  BY <1>2 DEF Flow, HeldBack
<1>4. HeldBack(o)'
  BY <1>1, <1>2 DEF HeldBack, Inv
<1>5. Flow(o)'
  <2>1. Flow(o) /\ got'[o] = got[o]
    BY <1>1 DEF Inv
  <2>2. ASSUME state[o] = "open"
        PROVE  Chain(Len(got[o]), wire[e], buffer[e], <<>>, sent[e])
    <3>1. Chain(Len(got[o]), wire[e], buffer[e], pending[e], sent[e])
      BY <1>1, <2>1, <2>2 DEF Flow
    <3>2. /\ Len(got[o]) \in Nat /\ wire[e] \in Seq(Messages) /\ buffer[e] \in Seq(Frames)
          /\ pending[e] \in Seq(Frames) /\ sent[e] \in Nat
      BY <1>1 DEF Inv, Typed
    <3> QED BY <3>1, <3>2, ChainForgets
  <2> QED BY <1>1, <1>2, <2>1, <2>2 DEF Flow
<1> QED BY <1>1, <1>2, <1>3, <1>4, <1>5 DEF Inv

(* A step of e's that leaves e's ears alone: the traffic from e is what has *)
(* to be seen to.                                                           *)
LEMMA EndWrites ==
  ASSUME TwoEnds, Inv, NEW e \in Ends, Typed', UNCHANGED <<got, state>>,
         \A x \in Ends \ {e} : /\ wire'[x] = wire[x] /\ buffer'[x] = buffer[x]
                               /\ pending'[x] = pending[x] /\ sent'[x] = sent[x]
                               /\ ready'[x] = ready[x],
         HeldBack(e)',
         LET n == Len(got[Other(e)]) IN
           state[Other(e)] = "open" =>
             /\ Chain(n, wire'[e], buffer'[e], pending'[e], sent'[e])
             /\ state[e] = "open" => Total(n, wire'[e], buffer'[e], pending'[e]) = sent'[e]
  PROVE  Inv'
<1> DEFINE o == Other(e)
<1>1. o \in Ends /\ o # e /\ Other(o) = e /\ \A x \in Ends : x = e \/ x = o
  BY EndsPair
<1>2. Flow(o)'
  BY <1>1 DEF Flow, Inv
<1>3. Flow(e)'
  BY <1>1 DEF Flow, Inv
<1>4. HeldBack(o)'
  BY <1>1 DEF HeldBack, Inv
<1> HIDE DEF o
<1> QED BY <1>1, <1>2, <1>3, <1>4 DEF Inv

(* What is known of the traffic from e when the other end is open. *)
LEMMA FromEnd ==
  ASSUME TwoEnds, Inv, NEW e \in Ends
  PROVE  LET n == Len(got[Other(e)]) IN
         /\ n \in Nat /\ wire[e] \in Seq(Messages) /\ buffer[e] \in Seq(Frames)
         /\ pending[e] \in Seq(Frames) /\ sent[e] \in Nat
         /\ state[Other(e)] = "open" =>
              /\ Chain(n, wire[e], buffer[e], pending[e], sent[e])
              /\ state[e] = "open" => Total(n, wire[e], buffer[e], pending[e]) = sent[e]
<1>1. Other(e) \in Ends /\ Other(Other(e)) = e
  BY EndsPair
<1>2. Flow(Other(e)) /\ Typed
  BY <1>1 DEF Inv
<1> QED BY <1>1, <1>2 DEF Flow, Typed

(* send() that accepts the message. *)
LEMMA EndSends ==
  ASSUME TwoEnds, Inv, NEW e \in Ends, NEW size \in Sizes, SendAccepted(e, size),
         state[e] = "open", UNCHANGED <<got, wire>>
  PROVE  Inv'
<1> DEFINE frame == [msg |-> sent[e] + 1, size |-> size]
           n == Len(got[Other(e)])
<1>1. Typed /\ frame \in Frames /\ frame.msg = sent[e] + 1
  <2>1. Typed
    BY DEF Inv
  <2>2. sent[e] + 1 \in Nat
    BY <2>1 DEF Typed
  <2> QED BY <2>1, <2>2 DEF Frames
<1>2. UNCHANGED <<state, ready>> /\ sent' = [sent EXCEPT ![e] = @ + 1]
  BY DEF SendAccepted
<1>3. /\ n \in Nat /\ wire[e] \in Seq(Messages) /\ buffer[e] \in Seq(Frames)
      /\ pending[e] \in Seq(Frames) /\ sent[e] \in Nat
      /\ state[Other(e)] = "open" =>
           /\ Chain(n, wire[e], buffer[e], pending[e], sent[e])
           /\ Total(n, wire[e], buffer[e], pending[e]) = sent[e]
  BY FromEnd
<1> HIDE DEF n
<1>4. CASE ready[e] = "CONNECTING" /\ pending' = [pending EXCEPT ![e] = Append(@, frame)]
                                   /\ UNCHANGED buffer
  <2>1. Typed' /\ sent'[e] = sent[e] + 1 /\ pending'[e] = Append(pending[e], frame)
    BY <1>1, <1>2, <1>4 DEF Typed
  <2>2. HeldBack(e)'
    BY <1>2, <1>4 DEF HeldBack
  <2>3. ASSUME state[Other(e)] = "open"
        PROVE  /\ Chain(n, wire[e], buffer[e], pending'[e], sent'[e])
               /\ Total(n, wire[e], buffer[e], pending'[e]) = sent'[e]
    <3> HIDE DEF frame
    <3> QED BY <1>1, <1>3, <2>1, <2>3, ChainHoldsBack
  <2>4. \A x \in Ends \ {e} : /\ wire'[x] = wire[x] /\ buffer'[x] = buffer[x]
                              /\ pending'[x] = pending[x] /\ sent'[x] = sent[x]
                              /\ ready'[x] = ready[x]
    BY <1>1, <1>2, <1>4 DEF Typed
  <2> QED BY <1>2, <1>4, <2>1, <2>2, <2>3, <2>4, EndWrites DEF n
<1>5. CASE ready[e] = "OPEN" /\ buffer' = [buffer EXCEPT ![e] = Append(@, frame)]
                             /\ UNCHANGED pending
  <2>1. Typed' /\ sent'[e] = sent[e] + 1 /\ buffer'[e] = Append(buffer[e], frame)
    BY <1>1, <1>2, <1>5 DEF Typed
  <2>2. pending[e] = <<>> /\ HeldBack(e)'
    BY <1>2, <1>5 DEF HeldBack, Inv
  <2>3. ASSUME state[Other(e)] = "open"
        PROVE  /\ Chain(n, wire[e], buffer'[e], pending[e], sent'[e])
               /\ Total(n, wire[e], buffer'[e], pending[e]) = sent'[e]
    <3> HIDE DEF frame
    <3> QED BY <1>1, <1>3, <2>1, <2>2, <2>3, ChainBuffers
  <2>4. \A x \in Ends \ {e} : /\ wire'[x] = wire[x] /\ buffer'[x] = buffer[x]
                              /\ pending'[x] = pending[x] /\ sent'[x] = sent[x]
                              /\ ready'[x] = ready[x]
    BY <1>1, <1>2, <1>5 DEF Typed
  <2> QED BY <1>2, <1>5, <2>1, <2>2, <2>3, <2>4, EndWrites DEF n
<1> QED BY <1>4, <1>5 DEF SendAccepted

(* The socket opens, transmits, and the network garbles a message. *)
LEMMA SocketMoves ==
  ASSUME TwoEnds, Inv, NEW e \in Ends, OnOpen(e) \/ Transmit(e) \/ Malform(e)
  PROVE  Inv'
<1> DEFINE n == Len(got[Other(e)])
<1>1. UNCHANGED <<sent, got, state>>
  BY DEF OnOpen, Transmit, Malform
<1>2. /\ n \in Nat /\ wire[e] \in Seq(Messages) /\ buffer[e] \in Seq(Frames)
      /\ pending[e] \in Seq(Frames) /\ sent[e] \in Nat
      /\ state[Other(e)] = "open" =>
           /\ Chain(n, wire[e], buffer[e], pending[e], sent[e])
           /\ state[e] = "open" => Total(n, wire[e], buffer[e], pending[e]) = sent[e]
  BY FromEnd
<1>3. Typed /\ HeldBack(e)
  BY DEF Inv
<1> HIDE DEF n
<1>4. CASE OnOpen(e)
  <2>1. /\ buffer' = [buffer EXCEPT ![e] = @ \o pending[e]]
        /\ pending' = [pending EXCEPT ![e] = <<>>] /\ ready' = [ready EXCEPT ![e] = "OPEN"]
        /\ UNCHANGED wire
    BY <1>4 DEF OnOpen
  <2>2. Typed' /\ buffer'[e] = buffer[e] \o pending[e] /\ pending'[e] = <<>> /\ HeldBack(e)'
    BY <1>1, <1>3, <2>1 DEF Typed, HeldBack
  <2>3. \A x \in Ends \ {e} : /\ wire'[x] = wire[x] /\ buffer'[x] = buffer[x]
                              /\ pending'[x] = pending[x] /\ sent'[x] = sent[x]
                              /\ ready'[x] = ready[x]
    BY <1>1, <1>3, <2>1 DEF Typed
  <2>4. ASSUME state[Other(e)] = "open"
        PROVE  /\ Chain(n, wire[e], buffer'[e], pending'[e], sent[e])
               /\ state[e] = "open" => Total(n, wire[e], buffer'[e], pending'[e]) = sent[e]
    BY <1>2, <2>2, <2>4, ChainFlushes
  <2> QED BY <1>1, <2>1, <2>2, <2>3, <2>4, EndWrites DEF n
<1>5. CASE Transmit(e)
  <2> DEFINE m == [msg |-> Head(buffer[e]).msg, ok |-> TRUE]
  <2>1. /\ buffer[e] # <<>> /\ buffer' = [buffer EXCEPT ![e] = Tail(@)]
        /\ wire' = [wire EXCEPT ![e] = Append(@, m)] /\ UNCHANGED <<pending, ready>>
    BY <1>5 DEF Transmit
  <2>2. m \in Messages /\ Tail(buffer[e]) \in Seq(Frames)
    <3>1. Head(buffer[e]) \in Frames
      BY <1>2, <2>1
    <3> QED BY <1>2, <2>1, <3>1 DEF Frames, Messages
  <2> HIDE DEF m
  <2>3. Typed' /\ buffer'[e] = Tail(buffer[e]) /\ wire'[e] = Append(wire[e], m) /\ HeldBack(e)'
    BY <1>1, <1>3, <2>1, <2>2 DEF Typed, HeldBack
  <2>4. \A x \in Ends \ {e} : /\ wire'[x] = wire[x] /\ buffer'[x] = buffer[x]
                              /\ pending'[x] = pending[x] /\ sent'[x] = sent[x]
                              /\ ready'[x] = ready[x]
    BY <1>1, <1>3, <2>1 DEF Typed
  <2>5. ASSUME state[Other(e)] = "open"
        PROVE  /\ Chain(n, wire'[e], buffer'[e], pending[e], sent[e])
               /\ state[e] = "open" => Total(n, wire'[e], buffer'[e], pending[e]) = sent[e]
    <3>1. /\ Chain(n, Append(wire[e], m), Tail(buffer[e]), pending[e], sent[e])
          /\ Total(n, Append(wire[e], m), Tail(buffer[e]), pending[e])
               = Total(n, wire[e], buffer[e], pending[e])
      BY <1>2, <2>1, <2>5, ChainTransmits DEF m
    <3> QED BY <1>2, <2>3, <2>5, <3>1
  <2> QED BY <1>1, <2>1, <2>3, <2>4, <2>5, EndWrites DEF n
<1>6. CASE Malform(e)
  <2>1. UNCHANGED <<buffer, pending, ready>>
    BY <1>6 DEF Malform
  <2>2. PICK i \in 1..Len(wire[e]) : wire' = [wire EXCEPT ![e][i].ok = FALSE]
    BY <1>6 DEF Malform
  <2>3. /\ wire'[e] = [wire[e] EXCEPT ![i].ok = FALSE] /\ wire[e][i] \in Messages
        /\ \A x \in Ends \ {e} : wire'[x] = wire[x]
    BY <1>2, <1>3, <2>2 DEF Typed
  <2>4. /\ wire'[e] \in Seq(Messages) /\ Len(wire'[e]) = Len(wire[e])
        /\ \A j \in 1..Len(wire[e]) : wire'[e][j].msg = wire[e][j].msg
    <3> DEFINE m == [wire[e][i] EXCEPT !.ok = FALSE]
    <3>1. m \in Messages /\ m.msg = wire[e][i].msg
      BY <2>3 DEF Messages
    <3>2. wire'[e] = [wire[e] EXCEPT ![i] = m]
      BY <2>3
    <3> HIDE DEF m
    <3> QED BY <1>2, <3>1, <3>2
  <2>5. wire' \in [Ends -> Seq(Messages)]
    BY <1>3, <2>2, <2>3, <2>4 DEF Typed
  <2>6. Typed' /\ HeldBack(e)'
    BY <1>1, <1>3, <2>1, <2>5 DEF Typed, HeldBack
  <2>7. ASSUME state[Other(e)] = "open"
        PROVE  /\ Chain(n, wire'[e], buffer[e], pending[e], sent[e])
               /\ state[e] = "open" => Total(n, wire'[e], buffer[e], pending[e]) = sent[e]
    BY <1>2, <2>4, <2>7 DEF Chain, Total
  <2> QED BY <1>1, <2>1, <2>3, <2>6, <2>7, EndWrites DEF n
<1> QED BY <1>4, <1>5, <1>6

(* What an open end is given is the next message, which was sent. *)
LEMMA GivesTheNext ==
  ASSUME TwoEnds, Inv, NEW e \in Ends, OnMessage(e)
  PROVE  LET o == Other(e)
             n == Len(got[e])
         IN /\ n \in Nat /\ got[e] = [i \in 1..n |-> i] /\ n + 1 <= sent[o]
            /\ Head(wire[o]).msg = n + 1
            /\ Append(got[e], n + 1) = [i \in 1..(n + 1) |-> i]
            /\ Tail(wire[o]) \in Seq(Messages)
            /\ Chain(n + 1, Tail(wire[o]), buffer[o], pending[o], sent[o])
            /\ state[o] = "open" =>
                 Total(n + 1, Tail(wire[o]), buffer[o], pending[o]) = sent[o]
<1> DEFINE o == Other(e)
           n == Len(got[e])
<1>1. o \in Ends
  BY EndsPair
<1>2. Flow(e) /\ Typed /\ state[e] = "open" /\ wire[o] # <<>>
  BY DEF OnMessage, Inv
<1>3. /\ n \in Nat /\ wire[o] \in Seq(Messages) /\ buffer[o] \in Seq(Frames)
      /\ pending[o] \in Seq(Frames) /\ sent[o] \in Nat
  BY <1>1, <1>2 DEF Typed
<1>4. /\ got[e] = [i \in 1..n |-> i]
      /\ Chain(n, wire[o], buffer[o], pending[o], sent[o])
      /\ state[o] = "open" => Total(n, wire[o], buffer[o], pending[o]) = sent[o]
  BY <1>2 DEF Flow
<1>5. Append(got[e], n + 1) = [i \in 1..(n + 1) |-> i]
  <2> HIDE DEF n
  <2>1. [i \in 1..n |-> i] \in Seq(Nat) /\ Len([i \in 1..n |-> i]) = n
    BY <1>3
  <2> QED BY <1>3, <1>4, <2>1
<1> HIDE DEF o, n
<1>6. /\ Head(wire[o]).msg = n + 1 /\ n + 1 <= sent[o] /\ Tail(wire[o]) \in Seq(Messages)
      /\ Chain(n + 1, Tail(wire[o]), buffer[o], pending[o], sent[o])
      /\ Total(n + 1, Tail(wire[o]), buffer[o], pending[o]) = Total(n, wire[o], buffer[o], pending[o])
  BY <1>2, <1>3, <1>4, ChainDelivers
<1> QED BY <1>3, <1>4, <1>5, <1>6 DEF o, n

(* #onMessage: one more message, a close, or both. *)
LEMMA EndHears ==
  ASSUME TwoEnds, Inv, NEW e \in Ends, OnMessage(e)
  PROVE  Inv'
<1> DEFINE o == Other(e)
           n == Len(got[e])
<1>1. o \in Ends /\ o # e /\ Other(o) = e /\ \A x \in Ends : x = e \/ x = o
  BY EndsPair
<1>2. /\ n \in Nat /\ got[e] = [i \in 1..n |-> i] /\ n + 1 <= sent[o]
      /\ Head(wire[o]).msg = n + 1
      /\ Append(got[e], n + 1) = [i \in 1..(n + 1) |-> i]
      /\ Tail(wire[o]) \in Seq(Messages)
      /\ Chain(n + 1, Tail(wire[o]), buffer[o], pending[o], sent[o])
      /\ state[o] = "open" =>
           Total(n + 1, Tail(wire[o]), buffer[o], pending[o]) = sent[o]
  BY GivesTheNext
<1>3. wire' = [wire EXCEPT ![o] = Tail(@)] /\ UNCHANGED <<sent, buffer>> /\ state[e] = "open"
  BY DEF OnMessage
<1>4. \/ (\E end : Shutdown(e, end)) /\ UNCHANGED got
      \/ (\E end : Shutdown(e, end)) /\ got' = [got EXCEPT ![e] = Append(@, n + 1)]
      \/ /\ UNCHANGED <<pending, state, ready>>
         /\ got' = [got EXCEPT ![e] = Append(@, n + 1)]
  BY <1>2 DEF OnMessage
<1> HIDE DEF o, n
<1>5. Typed
  BY DEF Inv
<1>6. wire' \in [Ends -> Seq(Messages)] /\ wire'[e] = wire[e] /\ wire'[o] = Tail(wire[o])
  BY <1>1, <1>2, <1>3, <1>5 DEF Typed
<1>7. CASE UNCHANGED got /\ \E end : Shutdown(e, end)
  <2>1. got'[e] = [i \in 1..Len(got'[e]) |-> i]
    BY <1>2, <1>7 DEF n
  <2> QED BY <1>3, <1>5, <1>6, <1>7, <2>1, EndCloses DEF Typed
<1>8. ASSUME got' = [got EXCEPT ![e] = Append(@, n + 1)]
      PROVE  /\ got' \in [Ends -> Seq(Nat)] /\ got'[e] = [i \in 1..(n + 1) |-> i]
             /\ Len(got'[e]) = n + 1 /\ \A x \in Ends \ {e} : got'[x] = got[x]
  <2>1. got[e] \in Seq(Nat) /\ Len(got[e]) = n
    BY <1>5 DEF Typed, n
  <2>2. got'[e] = Append(got[e], n + 1)
    BY <1>5, <1>8 DEF Typed
  <2>3. Append(got[e], n + 1) \in Seq(Nat) /\ Len(Append(got[e], n + 1)) = n + 1
    BY <1>2, <2>1
  <2> QED BY <1>2, <1>5, <1>8, <2>2, <2>3 DEF Typed
<1>9. CASE got' = [got EXCEPT ![e] = Append(@, n + 1)] /\ \E end : Shutdown(e, end)
  BY <1>3, <1>6, <1>8, <1>9, EndCloses
<1>10. CASE /\ UNCHANGED <<pending, state, ready>>
            /\ got' = [got EXCEPT ![e] = Append(@, n + 1)]
  <2>1. Typed' /\ HeldBack(e)' /\ HeldBack(o)'
    BY <1>1, <1>3, <1>5, <1>6, <1>8, <1>10 DEF Typed, HeldBack, Inv
  <2>2. Flow(e)'
    <3>1. Other(e) = o
      BY DEF o
    <3> QED BY <1>2, <1>3, <1>6, <1>8, <1>10, <3>1 DEF Flow
  <2>3. Flow(o)'
    BY <1>1, <1>3, <1>6, <1>8, <1>10 DEF Flow, Inv
  <2> QED BY <1>1, <2>1, <2>2, <2>3 DEF Inv
<1> QED BY <1>4, <1>7, <1>9, <1>10

(* Every step. *)
LEMMA InvNext == TwoEnds /\ Inv /\ [Next]_vars => Inv'
<1> SUFFICES ASSUME TwoEnds, Inv, [Next]_vars PROVE Inv'
  OBVIOUS
<1>1. ASSUME UNCHANGED <<pending, state, sent, got, ready, buffer, wire>> PROVE Inv'
  BY <1>1 DEF Inv, Typed, Flow, HeldBack
<1>2. ASSUME NEW e \in Ends, NEW end, Shutdown(e, end), UNCHANGED <<sent, got, buffer, wire>>
      PROVE  Inv'
  <2>1. Typed /\ got[e] = [i \in 1..Len(got[e]) |-> i]
    BY DEF Inv, Flow
  <2> QED BY <1>2, <2>1, EndCloses DEF Typed
<1>3. ASSUME NEW e \in Ends, Send(e) PROVE Inv'
  <2>1. PICK size \in Sizes : SendRefused(e, size) \/ SendThrown(e, size) \/ SendAccepted(e, size)
    BY <1>3 DEF Send
  <2>2. state[e] = "open" /\ UNCHANGED <<got, wire>>
    BY <1>3 DEF Send
  <2>3. CASE SendRefused(e, size) \/ SendThrown(e, size)
    BY <1>2, <2>2, <2>3 DEF SendRefused, SendThrown
  <2> QED BY <2>1, <2>2, <2>3, EndSends
<1>4. ASSUME NEW e \in Ends, Close(e) \/ OnClose(e) \/ OnError(e) PROVE Inv'
  BY <1>2, <1>4 DEF Close, OnClose, OnError
<1>5. ASSUME NEW e \in Ends, Drain(e) \/ CheckDrain(e) PROVE Inv'
  BY <1>1, <1>5 DEF Drain, CheckDrain
<1>6. CASE UNCHANGED vars
  BY <1>1, <1>6 DEF vars
<1> QED BY <1>3, <1>4, <1>5, <1>6, EndHears, SocketMoves DEF Next

(* Each step is one of the contract's or leaves what it speaks of alone. *)
LEMMA StepRefines ==
  TwoEnds /\ Inv /\ [Next]_vars => [Contract!Next]_(Contract!vars)
<1> SUFFICES ASSUME TwoEnds, Inv, [Next]_vars PROVE [Contract!Next]_(Contract!vars)
  OBVIOUS
<1>1. ASSUME UNCHANGED <<sent, got, state, notices>> PROVE UNCHANGED Contract!vars
  BY <1>1 DEF Contract!vars
<1>2. ASSUME NEW e \in Ends, NEW end, Shutdown(e, end) PROVE Contract!Closing(e)
  BY <1>2 DEF Shutdown, Contract!Closing
<1>3. ASSUME NEW e \in Ends, NEW end, Shutdown(e, end), UNCHANGED <<sent, got>>
      PROVE  Contract!Next
  BY <1>2, <1>3 DEF Contract!Close, Contract!Next
<1>4. ASSUME NEW e \in Ends, Send(e) PROVE Contract!Next
  <2>1. PICK size \in Sizes : SendRefused(e, size) \/ SendThrown(e, size) \/ SendAccepted(e, size)
    BY <1>4 DEF Send
  <2>2. CASE SendRefused(e, size) \/ SendThrown(e, size)
    BY <1>3, <1>4, <2>2 DEF Send, SendRefused, SendThrown
  <2>3. CASE SendAccepted(e, size)
    BY <1>4, <2>3 DEF Send, SendAccepted, Contract!Send, Contract!Next
  <2> QED BY <2>1, <2>2, <2>3
<1>5. ASSUME NEW e \in Ends, OnMessage(e) PROVE Contract!Next
  <2> DEFINE o == Other(e)
             n == Len(got[e])
  <2>1. /\ n \in Nat /\ n + 1 <= sent[o] /\ sent[o] \in Nat /\ Head(wire[o]).msg = n + 1
        /\ Append(got[e], n + 1) = [i \in 1..(n + 1) |-> i]
    <3>1. Typed /\ o \in Ends
      BY EndsPair DEF Inv
    <3> QED BY <1>5, <3>1, GivesTheNext DEF Typed
  <2>2. state[e] = "open" /\ UNCHANGED sent
    BY <1>5 DEF OnMessage
  <2>3. CASE ~Head(wire[o]).ok /\ Shutdown(e, "closed") /\ UNCHANGED got
    BY <1>3, <2>2, <2>3
  <2>4. CASE /\ got' = [got EXCEPT ![e] = Append(@, Head(wire[o]).msg)]
             /\ Shutdown(e, "closed") \/ UNCHANGED <<state, notices>>
    <3>1. got' = [got EXCEPT ![e] = [i \in 1..(n + 1) |-> i]]
      BY <2>1, <2>4
    <3>2. Contract!Other(e) = o
      BY DEF Contract!Other, Other
    <3>3. n + 1 \in Len(got[e]) + 1 .. sent[Contract!Other(e)]
      BY <2>1, <3>2
    <3>4. \E k \in Len(got[e]) + 1 .. sent[Contract!Other(e)] :
             got' = [got EXCEPT ![e] = [i \in 1..k |-> i]]
      <4> HIDE DEF n, o
      <4> QED BY <3>1, <3>3, Zenon
    <3>5. Contract!Closing(e) \/ UNCHANGED <<state, notices>>
      BY <1>2, <2>4
    <3> QED BY <2>2, <3>4, <3>5, Zenon DEF Contract!Receive, Contract!Next
  <2> QED BY <1>5, <2>3, <2>4 DEF OnMessage
<1>6. ASSUME NEW e \in Ends, Close(e) \/ OnClose(e) \/ OnError(e) PROVE Contract!Next
  BY <1>3, <1>6 DEF Close, OnClose, OnError
<1>7. ASSUME NEW e \in Ends, Drain(e) \/ CheckDrain(e) \/ OnOpen(e) \/ Transmit(e) \/ Malform(e)
      PROVE  UNCHANGED Contract!vars
  BY <1>1, <1>7 DEF Drain, CheckDrain, OnOpen, Transmit, Malform
<1>8. CASE UNCHANGED vars
  BY <1>1, <1>8 DEF vars
<1> QED BY <1>4, <1>5, <1>6, <1>7, <1>8 DEF Next

(* The WebSocket channel refines the contract: every message an end is      *)
(* given is the next one the other end sent, whether it was sent while the  *)
(* socket connected or after, and none follows the end's own close, of      *)
(* which its listeners are told once.                                       *)
THEOREM WebSocketIsAChannel == TwoEnds /\ Spec => Contract!Spec
<1>1. TwoEnds /\ Init => Inv /\ Contract!Init
  BY InvInit DEF Init, Contract!Init
<1>2. ASSUME TwoEnds PROVE Spec => Contract!Spec
  <2>1. Init => Inv /\ Contract!Init
    BY <1>1, <1>2
  <2>2. Inv /\ [Next]_vars => Inv'
    BY <1>2, InvNext
  <2>3. Inv /\ [Next]_vars => [Contract!Next]_(Contract!vars)
    BY <1>2, StepRefines
  <2> QED BY <2>1, <2>2, <2>3, PTL DEF Spec, Contract!Spec
<1> QED BY <1>2
=============================================================================
