------------------------------- MODULE HandOver -------------------------------
(***************************************************************************)
(* What a transfer is to its users, with no messages, queues or managers:  *)
(* a peer offers a file; while the offer stands the other one's copy under *)
(* the announced name grows by the next block, and by nothing else; and in *)
(* the end the whole copy is judged, or the file is given up and what has  *)
(* arrived of it stays for a later offer to go on from.                    *)
(***************************************************************************)
EXTENDS Integers

CONSTANTS
  Peers, Sources, Names, Size, NameOf, Outbox, None   \* as in FileTransfer

VARIABLES
  deals,   \* the offer that stands, as {<<sender, source>>}, or {}
  copy     \* copy[p][n]: what p's download folder has under the name n

Other(p) == CHOOSE q \in Peers : q # p

\* The first k blocks of s.
Part(s, k) == [i \in 1..k |-> <<s, i>>]

PartsOf(n) ==
  {None} \cup UNION {{Part(s, k) : k \in 0..Size[s]} :
                       s \in {t \in Sources : NameOf[t] = n}}

Copied(p, s) == copy[Other(p)][NameOf[s]]

Copies(p, s, blocks) ==
  copy' = [copy EXCEPT ![Other(p)][NameOf[s]] = blocks]

Init ==
  /\ deals = {}
  /\ copy \in [Peers -> [Names -> UNION {PartsOf(n) : n \in Names}]]
  /\ \A p \in Peers, n \in Names : copy[p][n] \in PartsOf(n)

\* One file at a time, in either direction.
Offer(p, s) ==
  /\ deals = {} /\ s \in Outbox[p]
  /\ deals' = {<<p, s>>}
  /\ UNCHANGED copy

\* The receiver opens a file that is not there yet.
Open(p, s) ==
  /\ <<p, s>> \in deals /\ Copied(p, s) = None
  /\ Copies(p, s, Part(s, 0))
  /\ UNCHANGED deals

Grow(p, s) ==
  /\ <<p, s>> \in deals
  /\ \E k \in 0..Size[s] - 1 :
       Copied(p, s) = Part(s, k) /\ Copies(p, s, Part(s, k + 1))
  /\ UNCHANGED deals

\* The last block may come with the verdict. Only here is a file removed.
Judge(p, s) ==
  /\ <<p, s>> \in deals /\ Size[s] > 0
  /\ \E k \in {Size[s] - 1, Size[s]} : Copied(p, s) = Part(s, k)
  /\ \E blocks \in {Part(s, Size[s]), None} : Copies(p, s, blocks)
  /\ deals' = {}

GiveUp ==
  /\ deals # {} /\ deals' = {}
  /\ UNCHANGED copy

Next ==
  \/ \E p \in Peers, s \in Sources :
       Offer(p, s) \/ Open(p, s) \/ Grow(p, s) \/ Judge(p, s)
  \/ GiveUp

Spec == Init /\ [][Next]_<<deals, copy>>

===============================================================================
