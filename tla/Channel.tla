------------------------------ MODULE Channel ------------------------------
(***************************************************************************)
(* What every ExplorerChannel promises to the host and the client that     *)
(* talk over it (packages/mille/src/channel/types.ts): a pair of ends, each *)
(* of which sends to the other.  The messages one end sends are numbered   *)
(* in the order of its send() calls.  The three transports implement this  *)
(* contract; FramedStream and WebSocketChannel are shown to.               *)
(***************************************************************************)
EXTENDS Naturals, Sequences

CONSTANTS Ends,       \* the two ends of the connection
          MaxSends    \* bound: MaxSends[e], the messages e sends

VARIABLES sent,       \* sent[e]: how many messages send() accepted at e
          got,        \* got[e]: the messages e's listeners were given, in order
          state,      \* state[e]: "open" or "closed"
          notices     \* notices[e]: how often e's onClose listeners were called

vars == <<sent, got, state, notices>>

Other(e) == CHOOSE o \in Ends : o # e

Init ==
    /\ sent = [e \in Ends |-> 0]
    /\ got = [e \in Ends |-> <<>>]
    /\ state = [e \in Ends |-> "open"]
    /\ notices = [e \in Ends |-> 0]

(* CH-005: the first step out of `open` tells the listeners, no later one does. *)
Closing(e) ==
    /\ state[e] = "open"
    /\ state' = [state EXCEPT ![e] = "closed"]
    /\ notices' = [notices EXCEPT ![e] = @ + 1]

(* CH-002, CH-003: send() of an open end accepts a message and promises no *)
(* more: the transport may turn out to be gone in the same call.           *)
Send(e) ==
    /\ state[e] = "open"
    /\ sent[e] < MaxSends[e]
    /\ sent' = [sent EXCEPT ![e] = @ + 1]
    /\ Closing(e) \/ UNCHANGED <<state, notices>>
    /\ UNCHANGED got

Close(e) == Closing(e) /\ UNCHANGED <<sent, got>>

(* CH-001, CH-006: an open end is given further messages in the order they  *)
(* were sent, none left out; a listener may close the end it hears them on. *)
Receive(e) ==
    /\ state[e] = "open"
    /\ \E n \in Len(got[e]) + 1 .. sent[Other(e)] :
          got' = [got EXCEPT ![e] = [i \in 1..n |-> i]]
    /\ Closing(e) \/ UNCHANGED <<state, notices>>
    /\ UNCHANGED sent

(* An end whose peer is gone is told so. *)
PeerGone(e) == state[Other(e)] = "closed" /\ Close(e)

Next == \E e \in Ends : Send(e) \/ Close(e) \/ Receive(e)

Spec == Init /\ [][Next]_vars

(* What was accepted arrives unless an end closes; a lost peer is noticed. *)
FairSpec ==
    Spec /\ \A e \in Ends : WF_vars(Receive(e)) /\ WF_vars(PeerGone(e))
=============================================================================
