---------------------------- MODULE BusChannel ----------------------------
(***************************************************************************)
(* What the SPI bus promises when no transaction fails: a bounded FIFO to  *)
(* the NCP whose messages, numbered in the order they enter, are each      *)
(* taken exactly once and in order, and one bounded FIFO from the NCP per  *)
(* bound traffic type.                                                     *)
(***************************************************************************)
EXTENDS Naturals, Sequences

CONSTANTS Kinds, Messages, DownDepth, UpDepth

VARIABLES
  down,  \* messages on their way to the NCP
  sent,  \* number of messages entered
  got,   \* the last message the NCP took
  count, \* how many messages it took
  up     \* messages on their way from the NCP, by kind

ChannelVars == <<down, sent, got, count, up>>

ChannelInit ==
  /\ down = <<>>
  /\ sent = 0
  /\ got = 0
  /\ count = 0
  /\ up = [k \in Kinds |-> <<>>]

Send ==
  /\ Len(down) < DownDepth
  /\ sent' = sent + 1
  /\ down' = Append(down, sent')
  /\ UNCHANGED <<got, count, up>>

Take ==
  /\ down # <<>>
  /\ got' = Head(down)
  /\ count' = count + 1
  /\ down' = Tail(down)
  /\ UNCHANGED <<sent, up>>

Give ==
  /\ \E k \in Kinds, m \in Messages :
       /\ Len(up[k]) < UpDepth[k]
       /\ up' = [up EXCEPT ![k] = Append(@, m)]
  /\ UNCHANGED <<down, sent, got, count>>

(* One exchange of the bus carries a message each way. *)
Swap ==
  /\ down # <<>>
  /\ got' = Head(down)
  /\ count' = count + 1
  /\ down' = Tail(down)
  /\ \E k \in Kinds, m \in Messages :
       /\ Len(up[k]) < UpDepth[k]
       /\ up' = [up EXCEPT ![k] = Append(@, m)]
  /\ UNCHANGED sent

Read ==
  /\ \E k \in Kinds : up[k] # <<>> /\ up' = [up EXCEPT ![k] = Tail(@)]
  /\ UNCHANGED <<down, sent, got, count>>

ChannelNext == Send \/ Take \/ Give \/ Swap \/ Read

ChannelSpec == ChannelInit /\ [][ChannelNext]_ChannelVars
=============================================================================
