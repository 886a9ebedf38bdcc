---------------------------- MODULE ChangeFeed -----------------------------
(***************************************************************************)
(* What pushing and pulling clients may rely on, without transactions or   *)
(* locks: one workspace has one feed of changes.  A change is published    *)
(* once, at the end, and is never altered or withdrawn; a reader is given  *)
(* longer and longer prefixes of the feed.                                 *)
(***************************************************************************)
EXTENDS Naturals, Sequences

CONSTANT Reader  \* the clients that pull

VARIABLES
  feed,      \* the changes published so far
  delivered  \* the prefix of the feed that each reader was given

Init ==
  /\ feed = << >>
  /\ delivered = [r \in Reader |-> << >>]

\* One change, whichever the writer makes, with an operation_id not yet used.
Publish ==
  /\ Len(feed') = Len(feed) + 1
  /\ SubSeq(feed', 1, Len(feed)) = feed
  /\ \A i \in 1 .. Len(feed) :
       feed[i].operation_id # feed'[Len(feed')].operation_id
  /\ UNCHANGED delivered

Deliver(r, n) ==
  /\ Len(delivered[r]) < n
  /\ delivered' = [delivered EXCEPT ![r] = SubSeq(feed, 1, n)]
  /\ UNCHANGED feed

Next ==
  \/ Publish
  \/ \E r \in Reader : \E n \in 1 .. Len(feed) : Deliver(r, n)

Spec == Init /\ [][Next]_<<feed, delivered>>
=============================================================================
