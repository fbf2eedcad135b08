---------------------------- MODULE RecordStream ----------------------------
(***************************************************************************)
(* What the sync service can rely on when it iterates over the client: the *)
(* records of a resource, each once and in order, up to the end or to an   *)
(* exception.  Only a lapse of SWAPI, an answer that lacks what it should  *)
(* have, may lose records without an exception: a number of them before     *)
(* those that are still delivered, and a number after them.                 *)
(***************************************************************************)
EXTENDS Naturals, Sequences

CONSTANT Error   \* exceptions the stream may end with

VARIABLES
    records,    \* the resource, a sequence
    owed,       \* those the consumer is going to be given
    delivered,  \* those the consumer has been given
    lapses,     \* answers of SWAPI that lacked something
    end         \* "open", "exhausted" or the exception

svars == <<records, owed, delivered, lapses, end>>

StreamInit == owed = records /\ delivered = <<>> /\ lapses = 0 /\ end = "open"

Deliver ==
    /\ end = "open"
    /\ owed # <<>>
    /\ delivered' = Append(delivered, Head(owed))
    /\ owed' = Tail(owed)
    /\ UNCHANGED <<records, lapses, end>>

Lapse ==
    /\ end = "open"
    /\ lapses' = lapses + 1
    /\ \E first \in 1 .. Len(owed) + 1, last \in 0 .. Len(owed) : owed' = SubSeq(owed, first, last)
    /\ UNCHANGED <<records, delivered, end>>

\* Whatever is owed was delivered.
Exhaust ==
    /\ end = "open"
    /\ owed = <<>>
    /\ end' = "exhausted"
    /\ UNCHANGED <<records, owed, delivered, lapses>>

Raise(e) ==
    /\ end = "open"
    /\ end' = e
    /\ UNCHANGED <<records, owed, delivered, lapses>>

StreamNext == Deliver \/ Lapse \/ Exhaust \/ \E e \in Error : Raise(e)

Stream == StreamInit /\ [][StreamNext]_svars
=============================================================================
