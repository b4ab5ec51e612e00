--------------------------- MODULE OrderedChannel ---------------------------
(***************************************************************************)
(* What `crypto::secretstream` promises to the two applications that use   *)
(* it (src/src/crypto/secretstream/mod.rs, lines 3-21), with nothing of    *)
(* the wire in it.  Every channel carries an ordered sequence of items;    *)
(* the reader is attached to one channel at a time and takes its items     *)
(* from the front, one by one, each exactly once.  A `Final` item closes   *)
(* the channel at both ends.                                               *)
(***************************************************************************)
EXTENDS Naturals, Sequences

CONSTANTS
  Channels,     \* identities of the channels
  NoChannel,    \* the reader has not been attached to a channel yet
  Items,        \* what a channel carries
  FinalItems    \* the items that close a channel

VARIABLES
  sent,         \* sent[c]: the items written to channel c, in order
  source,       \* the channel the reader is attached to
  taken,        \* the items the reader took from `source`, in order
  closed        \* the reader has taken a final item

vars == <<sent, source, taken, closed>>

IsClosed(s) == s # << >> /\ s[Len(s)] \in FinalItems

Init ==
  /\ sent   = [c \in Channels |-> << >>]
  /\ source = NoChannel
  /\ taken  = << >>
  /\ closed = FALSE

\* The writer of channel c adds an item, unless it closed the channel.
Write(c) ==
  /\ ~IsClosed(sent[c])
  /\ Len(sent'[c]) = Len(sent[c]) + 1
  /\ \E x \in Items : sent' = [sent EXCEPT ![c] = Append(@, x)]
  /\ UNCHANGED <<source, taken, closed>>

\* The reader starts over at the beginning of some channel.
Attach(c) ==
  /\ source' = c
  /\ taken'  = << >>
  /\ closed' = FALSE
  /\ UNCHANGED sent

\* The reader takes the next item.
Take ==
  /\ source \in Channels
  /\ ~closed
  /\ Len(taken) < Len(sent[source])
  /\ LET x == sent[source][Len(taken) + 1]
     IN  /\ taken'  = Append(taken, x)
         /\ closed' = (x \in FinalItems)
  /\ UNCHANGED <<sent, source>>

Next ==
  \/ \E c \in Channels : Write(c)
  \/ \E c \in Channels : Attach(c)
  \/ Take

Spec == Init /\ [][Next]_vars
=============================================================================
