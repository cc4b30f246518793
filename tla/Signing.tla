------------------------------ MODULE Signing -------------------------------
(* The signed channel from an iframe to its host: the script in the iframe     *)
(* numbers a message and posts it when its signature is there, which may be    *)
(* out of order (security/channel-hmac.ts); the host verifies what arrives     *)
(* (security/message-signer.ts) and refuses what is not later than the last it *)
(* accepted.  A message can arrive twice.  A call of verify() looks at the     *)
(* last number before it awaits the check of the signature and moves it after: *)
(* calls overlap, and end in any order.                                        *)
EXTENDS Integers, Sequences, FiniteSets, SequencesExt

CONSTANTS MaxMessages, MaxRepeats    \* bounds on the messages, and on those that arrive twice

VARIABLES
    sendSeq,      \* of the iframe
    signing,      \* the numbers whose signature is being made
    channel,      \* the numbers on their way
    arrived,      \* how many messages the host took from the channel
    verifying,    \* the calls of verify() that await the check of a signature
    lastRecvSeq,  \* of the host
    verdicts,     \* what the host made of the arrivals, in the order in which verify() returned
    repeats

signVars == <<sendSeq, signing, channel, arrived, verifying, lastRecvSeq, verdicts, repeats>>

SigningInit ==
    /\ sendSeq = 0 /\ signing = {} /\ channel = << >> /\ arrived = 0 /\ verifying = {} /\ lastRecvSeq = -1
    /\ verdicts = << >> /\ repeats = 0

SignMessage ==
    /\ sendSeq < MaxMessages
    /\ sendSeq' = sendSeq + 1 /\ signing' = signing \cup {sendSeq}
    /\ UNCHANGED <<channel, arrived, verifying, lastRecvSeq, verdicts, repeats>>
Signed ==
    /\ \E seq \in signing : signing' = signing \ {seq} /\ channel' = Append(channel, seq)
    /\ UNCHANGED <<sendSeq, arrived, verifying, lastRecvSeq, verdicts, repeats>>

Repeated ==
    /\ repeats < MaxRepeats /\ repeats' = repeats + 1
    /\ \E seq \in ToSet(channel) \cup {v.seq : v \in ToSet(verdicts)} : channel' = Append(channel, seq)
    /\ UNCHANGED <<sendSeq, signing, arrived, verifying, lastRecvSeq, verdicts>>

Judged(seq, valid, began) == verdicts' = Append(verdicts, [seq |-> seq, valid |-> valid, began |-> began])
Call(seq) == [call |-> arrived, seq |-> seq, began |-> Len(verdicts)]
Verify ==
    /\ channel # << >>
    /\ channel' = Tail(channel) /\ arrived' = arrived + 1
    /\ IF Head(channel) <= lastRecvSeq
       THEN Judged(Head(channel), FALSE, Len(verdicts)) /\ UNCHANGED verifying
       ELSE verifying' = verifying \cup {Call(Head(channel))} /\ UNCHANGED verdicts
    /\ UNCHANGED <<sendSeq, signing, lastRecvSeq, repeats>>
\* Faulty: the last number is not moved.
SignatureHoldsUncounted ==
    \E c \in verifying :
       /\ Judged(c.seq, TRUE, c.began)
       /\ verifying' = verifying \ {c}
       /\ UNCHANGED <<sendSeq, signing, channel, arrived, lastRecvSeq, repeats>>
SignatureHolds ==
    \E c \in verifying :
       /\ lastRecvSeq' = c.seq /\ Judged(c.seq, TRUE, c.began)
       /\ verifying' = verifying \ {c}
       /\ UNCHANGED <<sendSeq, signing, channel, arrived, repeats>>

\* The host resets its signer for the next document of the iframe, once the channel is idle.
Reset ==
    /\ sendSeq > 0 /\ signing = {} /\ channel = << >> /\ verifying = {}
    /\ sendSeq' = 0 /\ lastRecvSeq' = -1 /\ verdicts' = << >> /\ arrived' = 0
    /\ UNCHANGED <<signing, channel, verifying, repeats>>

SigningNext == SignMessage \/ Signed \/ Repeated \/ Verify \/ SignatureHolds \/ Reset
SigningSpec == SigningInit /\ [][SigningNext]_signVars

-----------------------------------------------------------------------------
(* The host accepts the messages of an iframe in ascending order and none of   *)
(* them twice, unless calls of verify() overlapped: between a message and one  *)
(* accepted again, or behind a later one, there are two of which the second    *)
(* had looked at the last number before the first moved it.  The only ones it  *)
(* refuses came behind a later one or again: what the signatures, which end in *)
(* any order, can cost is what they reorder.                                   *)
Slipped(k, l) ==
    /\ k < l /\ verdicts[k].valid /\ verdicts[l].valid
    /\ verdicts[l].seq <= verdicts[k].seq /\ verdicts[l].began < k
AcceptedAscending ==
    \A j \in DOMAIN verdicts :
       IF verdicts[j].valid
       THEN \A i \in 1..(j - 1) :
               verdicts[i].valid /\ verdicts[i].seq >= verdicts[j].seq => \E k, l \in i..j : Slipped(k, l)
       ELSE \E i \in 1..(j - 1) : verdicts[i].valid /\ verdicts[i].seq >= verdicts[j].seq
=============================================================================
