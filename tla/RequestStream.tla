---------------------------- MODULE RequestStream ----------------------------
(***************************************************************************)
(* What a TARS connection promises its client, stated without bytes,       *)
(* buffers, pools or goroutines (spec.md 4.3-4.5, 8): the requests the     *)
(* client has written out in full reach the application in the order they  *)
(* were written, each once, and never before they are complete; while the  *)
(* connection stays open every complete request is delivered; and every    *)
(* delivered request is handled, once, whether or not its reply can still  *)
(* be written.  The server may close a connection at any time.             *)
(***************************************************************************)
EXTENDS Naturals, Sequences

CONSTANTS
  Conns,     \* connections
  Requests   \* the sequences of requests a client may write

VARIABLES
  reqs,       \* per connection, the requests its client writes, in order
  sent,       \* per connection, how many of them are written out in full
  delivered,  \* per connection, the requests handed to the application
  answered,   \* per connection, the indices of the requests handled
  open        \* per connection, whether the server still reads it

vars == <<reqs, sent, delivered, answered, open>>

Init ==
  /\ reqs \in [Conns -> Requests]
  /\ sent = [c \in Conns |-> 0]
  /\ delivered = [c \in Conns |-> <<>>]
  /\ answered = [c \in Conns |-> {}]
  /\ open = [c \in Conns |-> TRUE]

\* The client completes its next request.
Send(c) ==
  /\ sent[c] < Len(reqs[c])
  /\ sent' = [sent EXCEPT ![c] = @ + 1]
  /\ UNCHANGED <<reqs, delivered, answered, open>>

\* The next complete request is handed to the application.
Deliver(c) ==
  /\ open[c]
  /\ Len(delivered[c]) < sent[c]
  /\ delivered' = [delivered EXCEPT ![c] = Append(@, reqs[c][Len(@) + 1])]
  /\ UNCHANGED <<reqs, sent, answered, open>>

\* A delivered request is handled.
Answer(c, k) ==
  /\ k \in 1 .. Len(delivered[c]) \ answered[c]
  /\ answered' = [answered EXCEPT ![c] = @ \cup {k}]
  /\ UNCHANGED <<reqs, sent, delivered, open>>

\* The server stops reading some connections, at once.
Close(cs) ==
  /\ cs # {} /\ \A c \in cs : open[c]
  /\ open' = [c \in Conns |-> open[c] /\ c \notin cs]
  /\ UNCHANGED <<reqs, sent, delivered, answered>>

Next ==
  \/ \E c \in Conns :
       \/ Send(c) \/ Deliver(c)
       \/ \E k \in 1 .. Len(delivered[c]) : Answer(c, k)
  \/ \E cs \in SUBSET Conns : Close(cs)

\* Delivery and handling are the server's obligations; the client need
\* not send, and the server may close.
Spec ==
  /\ Init /\ [][Next]_vars
  /\ \A c \in Conns :
       /\ WF_vars(Deliver(c))
       /\ WF_vars(\E k \in 1 .. Len(delivered[c]) : Answer(c, k))

====
