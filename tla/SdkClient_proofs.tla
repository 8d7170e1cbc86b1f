-------------------------- MODULE SdkClient_proofs --------------------------
(***************************************************************************)
(* Proofs about the session of the SDK with the batcher, for any number of *)
(* bursts, proofs and failures: what the calls report is true.             *)
(***************************************************************************)
EXTENDS SdkClient, SequenceTheorems, FiniteSetTheorems, TLAPS

Results == {Error} \cup [ok : {TRUE}, proof : Entries, root : Seq(Entries), index : Nat]

Messages ==
    [kind : {"error", "close"}]
        \cup [kind : {"inclusion"}, nonce : Nat, root : Seq(Entries), index : Nat]

ClientType ==
    [pc : {"idle", "connect", "send", "receive", "close", "await"}, api : Apis,
     size : 1..MaxBurst, base : Nat, sent : Seq(Entries), pending : SUBSET Entries,
     results : Seq(Results), checked : Nat]

PostingType == [pc : {None, "sent", "created", "stuck"}, batch : Seq(Entries), unsent : Nat]

\* The types of the client's side.
ClientTyped ==
    /\ round \in 0..Bursts
    /\ client \in ClientType
    /\ client.pc # "idle" => round \in Rounds
    /\ Len(client.sent) <= client.size
    /\ client.pc = "send" => Len(client.sent) < client.size
    /\ client.pc \in {"idle", "connect"} =>
         client.pending = {} /\ client.sent = <<>> /\ client.results = <<>>
    /\ client.pc = "send" => client.results = <<>>
    /\ client.pc # "await" => client.checked = 0
    /\ reports \in [Rounds -> [api : Apis \cup {None}, results : Seq(Results)]]

\* The types of the connections.
NetTyped ==
    /\ conn \in [Rounds -> {None, "open", "lost", "closed"}]
    /\ toBatcher \in [Rounds -> Seq(Entries)]
    /\ toClient \in [Rounds -> Seq(Messages)]

\* The types of the batcher and of the chain.
BatcherTyped ==
    /\ cached \in Nat \cup {None}
    /\ queue \subseteq Entries /\ IsFiniteSet(queue)
    /\ dropped \subseteq Entries
    /\ posting \in PostingType
    /\ (posting.pc = None) <=> (posting.batch = <<>>)
    /\ posting.unsent <= Len(posting.batch)
    /\ posting.pc = "sent" => posting.unsent = Len(posting.batch)
    /\ posting.pc = "created" => posting.unsent > 0
    /\ ethNonce \in Nat
    /\ created \subseteq Seq(Entries) /\ reverted \subseteq Seq(Entries)
    /\ stopped \in BOOLEAN
    /\ verified \subseteq created
    /\ faults \in 0..MaxFaults

\* The types of all the variables.
TypeInv == ClientTyped /\ NetTyped /\ BatcherTyped

\* Burst r has not sent anything yet.
NotBegun(r) == r > round \/ (r = round /\ client.pc = "connect")

\* A proof is where its burst sent it, and none is of a burst that has not begun.
RoundsInv ==
    /\ \A r \in Rounds : \A e \in Range(toBatcher[r]) : e.round = r
    /\ \A e \in queue \cup Range(posting.batch) : ~NotBegun(e.round)
    /\ \A r \in Rounds : NotBegun(r) =>
         toBatcher[r] = <<>> /\ \A m \in Range(toClient[r]) : m.kind # "inclusion"

\* Inclusion data under way is true.
MessagesInv ==
    /\ \A r \in Rounds : \A m \in Range(toClient[r]) : m.kind = "inclusion" =>
         /\ m.root \in Mined /\ m.index \in DOMAIN m.root
         /\ m.root[m.index].nonce = m.nonce /\ m.root[m.index].round = r
    /\ posting.pc = "created" => posting.batch \in Mined
    /\ \A i, j \in DOMAIN posting.batch : i < j => Earlier(posting.batch[j], posting.batch[i])

\* Where the proofs of burst r are: on the way to the batcher, in the queue, in the
\* batch and not answered, on the way back, in the results.
Underway(r) == Range(toBatcher[r])
Queued(r) == {e \in queue : e.round = r}
Posted(r) == {e \in {posting.batch[j] : j \in 1..posting.unsent} : e.round = r}
Told(r) == {m.root[m.index] : m \in {x \in Range(toClient[r]) : x.kind = "inclusion"}}
Answered(results) == {x.proof : x \in Included(results)}

Below(S, T) == \A e \in S, f \in T : e.nonce < f.nonce

\* The nonces of a burst are in the order of these places.
InOrder(R, C, P, Q, B) ==
    /\ Below(R, C \cup P \cup Q \cup B)
    /\ Below(C, P \cup Q \cup B)
    /\ Below(P, Q \cup B)
    /\ Below(Q, B)

\* The messages of a connection are in the order of their nonces.
Ascending(s) == \A i, j \in 1..Len(s) : i < j => s[i].nonce < s[j].nonce
AscendingInclusions(s) ==
    \A i, j \in 1..Len(s) :
        i < j /\ s[i].kind = "inclusion" /\ s[j].kind = "inclusion" => s[i].nonce < s[j].nonce

\* What the client holds about its burst.
PendingInv ==
    /\ \A e \in client.pending : e.round = round /\ e.nonce < client.base + Len(client.sent)
    /\ \A e, f \in client.pending : e.nonce = f.nonce => e = f
    /\ client.pc = "receive" => \A j \in DOMAIN client.results : client.results[j].ok

\* Where the proofs of the burst are.
PlacesInv ==
    /\ Told(round) \cup Posted(round) \cup Queued(round) \cup Underway(round) \subseteq client.pending
    /\ InOrder(Answered(client.results), Told(round), Posted(round), Queued(round), Underway(round))
    /\ Ascending(toBatcher[round])
    /\ AscendingInclusions(toClient[round])

\* The burst that is being submitted.
SessionInv == PendingInv /\ (client.pc \in {"send", "receive"} => PlacesInv)

\* What was checked before the call goes on is verified.
CheckedInv ==
    \A j \in DOMAIN client.results :
        j <= client.checked /\ client.results[j].ok => IsProofVerified(client.results[j])

\* The inductive invariant.
Inv == TypeInv /\ RoundsInv /\ MessagesInv /\ SessionInv /\ ResultsAreTrue
       /\ CheckedInv /\ WaitedForVerification

-----------------------------------------------------------------------------
(***************************************************************************)
(* Sequences.                                                              *)
(***************************************************************************)
\* A function on 1..n is a sequence of length n.
LEMMA FunctionIsSeq ==
  ASSUME NEW S, NEW n \in Nat, NEW f \in [1..n -> S]
  PROVE  f \in Seq(S) /\ Len(f) = n
<1>1. f \in Seq(S)
  BY SeqDef
<1>2. Len(f) \in Nat /\ DOMAIN f = 1..Len(f)
  BY <1>1, LenProperties
<1>3. 1..Len(f) = 1..n
  BY <1>2
<1> QED
  BY <1>1, <1>2, <1>3

\* The elements of a sequence.
LEMMA RangeIs ==
  ASSUME NEW S, NEW s \in Seq(S)
  PROVE  /\ Range(s) \subseteq S
         /\ Len(s) \in Nat /\ DOMAIN s = 1..Len(s)
         /\ \A x : x \in Range(s) <=> \E i \in 1..Len(s) : x = s[i]
<1>1. Len(s) \in Nat /\ DOMAIN s = 1..Len(s) /\ \A i \in 1..Len(s) : s[i] \in S
  BY LenProperties, ElementOfSeq
<1> QED
  BY <1>1 DEF Range

\* t is s without some of its messages, in their order.
Shortened(s, t) ==
    /\ Range(t) \subseteq Range(s)
    /\ Ascending(s) => Ascending(t)

\* t has no inclusions but those of s, in their order.
NoNewInclusion(s, t) ==
    /\ \A m \in Range(t) : m.kind = "inclusion" => m \in Range(s)
    /\ AscendingInclusions(s) => AscendingInclusions(t)

\* What is left after the first message.
LEMMA TailShortened ==
  ASSUME NEW S, NEW s \in Seq(S), s # <<>>
  PROVE  /\ Tail(s) \in Seq(S) /\ Shortened(s, Tail(s)) /\ NoNewInclusion(s, Tail(s))
         /\ Head(s) \in Range(s) /\ Head(s) = s[1]
         /\ \A x \in Range(Tail(s)) : \E i \in 1..Len(s) : 1 < i /\ x = s[i]
<1>1. /\ Len(s) \in Nat /\ Len(s) > 0
      /\ Tail(s) \in Seq(S) /\ Len(Tail(s)) = Len(s) - 1
      /\ \A i \in 1..Len(Tail(s)) : Tail(s)[i] = s[i + 1]
  BY HeadTailProperties, EmptySeq
<1>2. Head(s) = s[1] /\ Head(s) \in Range(s)
  BY <1>1, RangeIs
<1>3. \A x \in Range(Tail(s)) : \E i \in 1..Len(s) : 1 < i /\ x = s[i]
  <2> SUFFICES ASSUME NEW x \in Range(Tail(s)) PROVE \E i \in 1..Len(s) : 1 < i /\ x = s[i]
    OBVIOUS
  <2> DEFINE t == Tail(s)
  <2>0. \A y : y \in Range(t) <=> \E j \in 1..Len(t) : y = t[j]
    <3>1. t \in Seq(S)
      BY <1>1
    <3> HIDE DEF t
    <3> QED
      BY <3>1, RangeIs, Zenon
  <2>1. PICK j \in 1..Len(Tail(s)) : x = Tail(s)[j]
    BY <2>0, Zenon
  <2>2. j + 1 \in 1..Len(s) /\ 1 < j + 1 /\ x = s[j + 1]
    BY <1>1, <2>1
  <2> QED
    BY <2>2
<1>4. Range(Tail(s)) \subseteq Range(s)
  BY <1>3, RangeIs
<1>5. Ascending(s) => Ascending(Tail(s))
  BY <1>1 DEF Ascending
<1>6. AscendingInclusions(s) => AscendingInclusions(Tail(s))
  BY <1>1 DEF AscendingInclusions
<1> QED
  BY <1>1, <1>2, <1>3, <1>4, <1>5, <1>6 DEF Shortened, NoNewInclusion

\* What arrives of a sequence that is cut.
LEMMA PrefixShortened ==
  ASSUME NEW S, NEW s \in Seq(S), NEW n \in 0..Len(s)
  PROVE  /\ SubSeq(s, 1, n) \in Seq(S) /\ Shortened(s, SubSeq(s, 1, n))
         /\ NoNewInclusion(s, SubSeq(s, 1, n))
<1> DEFINE t == SubSeq(s, 1, n)
<1>1. /\ Len(s) \in Nat /\ t \in Seq(S) /\ Len(t) = n
      /\ \A i \in 1..n : t[i] = s[i]
  BY SubSeqProperties, LenProperties
<1> HIDE DEF t
<1>2. Range(t) \subseteq Range(s)
  BY <1>1, RangeIs
<1>3. Ascending(s) => Ascending(t)
  BY <1>1 DEF Ascending
<1>4. AscendingInclusions(s) => AscendingInclusions(t)
  BY <1>1 DEF AscendingInclusions
<1> QED
  BY <1>1, <1>2, <1>3, <1>4 DEF Shortened, NoNewInclusion, t

\* A message at the end.
LEMMA AppendRange ==
  ASSUME NEW S, NEW s \in Seq(S), NEW x \in S
  PROVE  /\ Append(s, x) \in Seq(S) /\ Len(Append(s, x)) = Len(s) + 1
         /\ Range(Append(s, x)) = Range(s) \cup {x}
         /\ \A i \in 1..Len(s) : Append(s, x)[i] = s[i]
         /\ Append(s, x)[Len(s) + 1] = x
<1>1. /\ Append(s, x) \in Seq(S) /\ Len(Append(s, x)) = Len(s) + 1
      /\ \A i \in 1..Len(s) : Append(s, x)[i] = s[i]
      /\ Append(s, x)[Len(s) + 1] = x /\ Len(s) \in Nat
  BY AppendProperties, LenProperties
<1>2. \A y : y \in Range(Append(s, x)) <=> \E i \in 1..(Len(s) + 1) : y = Append(s, x)[i]
  <2> DEFINE t == Append(s, x)
  <2> HIDE DEF t
  <2>1. t \in Seq(S) /\ Len(t) = Len(s) + 1
    BY <1>1 DEF t
  <2>2. \A y : y \in Range(t) <=> \E i \in 1..Len(t) : y = t[i]
    BY <2>1, RangeIs
  <2>3. \A y : y \in Range(t) <=> \E i \in 1..(Len(s) + 1) : y = t[i]
    BY <2>1, <2>2
  <2> QED
    BY <2>3 DEF t
<1>3. \A y : y \in Range(s) <=> \E i \in 1..Len(s) : y = s[i]
  BY RangeIs
<1>4. \A y : y \in Range(Append(s, x)) <=> y \in Range(s) \/ y = x
  BY <1>1, <1>2, <1>3
<1> QED
  BY <1>1, <1>4

\* An error or a close frame at the end.
LEMMA AppendNoInclusion ==
  ASSUME NEW S, NEW s \in Seq(S), NEW x \in S, x.kind # "inclusion"
  PROVE  Append(s, x) \in Seq(S) /\ NoNewInclusion(s, Append(s, x))
<1>1. Len(s) \in Nat
  BY LenProperties
<1>2. AscendingInclusions(s) => AscendingInclusions(Append(s, x))
  BY <1>1, AppendRange DEF AscendingInclusions
<1> QED
  BY <1>2, AppendRange DEF NoNewInclusion

\* Errors at the end.
LEMMA ErrorsNoInclusion ==
  ASSUME NEW s \in Seq(Messages), NEW n \in Nat
  PROVE  /\ s \o [j \in 1..n |-> [kind |-> "error"]] \in Seq(Messages)
         /\ NoNewInclusion(s, s \o [j \in 1..n |-> [kind |-> "error"]])
<1> DEFINE f == [j \in 1..n |-> [kind |-> "error"]]
<1>1. f \in [1..n -> Messages] /\ \A j \in 1..n : f[j].kind # "inclusion"
  BY DEF Messages
<1> HIDE DEF f
<1>2. f \in Seq(Messages) /\ Len(f) = n
  BY <1>1, FunctionIsSeq
<1> DEFINE t == s \o f
<1>3. /\ Len(s) \in Nat /\ t \in Seq(Messages) /\ Len(t) = Len(s) + n
      /\ \A i \in 1..Len(s) + n : t[i] = IF i <= Len(s) THEN s[i] ELSE f[i - Len(s)]
  BY <1>2, ConcatProperties, LenProperties
<1> HIDE DEF t
<1>4. \A i \in 1..Len(t) : t[i].kind = "inclusion" => i \in 1..Len(s) /\ t[i] = s[i]
  BY <1>1, <1>3
<1>5. \A m \in Range(t) : m.kind = "inclusion" => m \in Range(s)
  BY <1>3, <1>4, RangeIs
<1>6. AscendingInclusions(s) => AscendingInclusions(t)
  BY <1>3, <1>4 DEF AscendingInclusions
<1> QED
  BY <1>3, <1>5, <1>6 DEF NoNewInclusion, t, f

-----------------------------------------------------------------------------
(***************************************************************************)
(* Types.                                                                  *)
(***************************************************************************)
\* What a call returns is a sequence of results.
LEMMA ReturnedTyped ==
  ASSUME NEW api, NEW results \in Seq(Results)
  PROVE  Returned(api, results) \in Seq(Results)
<1>1. Error \in Results
  BY DEF Results
<1>2. results # <<>> => results[1] \in Results
  BY EmptySeq, ElementOfSeq
<1> QED
  BY <1>1, <1>2 DEF Returned

\* The shortest results.
LEMMA ErrorTyped == Error \in Results /\ <<Error>> \in Seq(Results) /\ <<>> \in Seq(Results)
BY DEF Results

\* The client between two calls.
LEMMA IdleTyped ==
  /\ IdleClient \in ClientType /\ IdleClient.pc = "idle"
  /\ IdleClient.pending = {} /\ IdleClient.sent = <<>> /\ IdleClient.results = <<>>
  /\ IdleClient.size = 1 /\ IdleClient.checked = 0 /\ Len(IdleClient.sent) = 0
BY BurstAssumption DEF IdleClient, ClientType, Apis

\* A call returns.
LEMMA ReturnTyped ==
  ASSUME ClientTyped, NEW results \in Seq(Results), round \in Rounds, Return(results),
         round' = round
  PROVE  ClientTyped'
<1>1. /\ reports' = [reports EXCEPT ![round] =
                       [api |-> client.api, results |-> Returned(client.api, results)]]
      /\ client' = IdleClient
  BY DEF Return
<1>2. [api |-> client.api, results |-> Returned(client.api, results)]
        \in [api : Apis \cup {None}, results : Seq(Results)]
  BY ReturnedTyped DEF ClientTyped, ClientType
<1>3. reports' \in [Rounds -> [api : Apis \cup {None}, results : Seq(Results)]]
  BY <1>1, <1>2 DEF ClientTyped
<1>4. round' \in 0..Bursts
  BY DEF ClientTyped
<1> QED
  BY <1>1, <1>3, <1>4, IdleTyped, BurstAssumption DEF ClientTyped

\* The batch inclusion of a typed message.
LEMMA AnswerTyped ==
  ASSUME client \in ClientType, NEW m \in Messages, m.kind = "inclusion"
  PROVE  /\ Answer(m) \in Results
         /\ m \in [kind : {"inclusion"}, nonce : Nat, root : Seq(Entries), index : Nat]
<1>1. m \in [kind : {"inclusion"}, nonce : Nat, root : Seq(Entries), index : Nat]
  BY DEF Messages
<1>2. CASE \E e \in Matches(m) : ProofIsIncluded(e, m)
  <2> DEFINE e == CHOOSE e \in Matches(m) : TRUE
  <2>1. e \in Matches(m)
    BY <1>2
  <2> HIDE DEF e
  <2>2. e \in Entries
    BY <2>1 DEF Matches, ClientType
  <2>3. Answer(m) = Ok(e, m.root, m.index)
    BY <1>2 DEF Answer, e
  <2> QED
    BY <1>1, <2>2, <2>3 DEF Ok, Results
<1>3. CASE ~ \E e \in Matches(m) : ProofIsIncluded(e, m)
  BY <1>1, <1>3, ErrorTyped DEF Answer
<1> QED
  BY <1>2, <1>3

\* The start of a burst, and of its connection.
LEMMA StartTyped ==
  ASSUME TypeInv,
         \/ \E api \in Calls, n \in 1..MaxBurst : GetNonce(api, n)
         \/ GetNonceFails \/ Connect \/ ConnectFails
  PROVE  ClientTyped'
<1> USE DEF TypeInv
<1>1. ASSUME NEW api \in Calls, NEW n \in 1..MaxBurst, GetNonce(api, n)
      PROVE  ClientTyped'
  <2>1. /\ round' = round + 1 /\ round < Bursts /\ reports' = reports
        /\ client' = [IdleClient EXCEPT !.pc = "connect", !.api = api, !.size = n,
                                        !.base = Expected]
    BY <1>1 DEF GetNonce
  <2>2. Expected \in Nat
    BY DEF Expected, BatcherTyped
  <2>3. /\ client' \in ClientType /\ client'.pc = "connect"
        /\ client'.pending = {} /\ client'.sent = <<>> /\ client'.results = <<>>
        /\ client'.checked = 0 /\ client'.size \in Nat /\ client'.size > 0
        /\ Len(client'.sent) = 0
    <3>0. api \in Apis
      BY CallsAssumption
    <3>1. client' = [pc |-> "connect", api |-> api, size |-> n, base |-> Expected,
                     sent |-> <<>>, pending |-> {}, results |-> <<>>, checked |-> 0]
      BY <2>1 DEF IdleClient
    <3>2. <<>> \in Seq(Entries) /\ <<>> \in Seq(Results) /\ n \in Nat /\ n > 0
      BY BurstAssumption
    <3>3. client' \in ClientType
      BY <2>2, <3>0, <3>1, <3>2 DEF ClientType
    <3>4. Len(<<>>) = 0
      OBVIOUS
    <3> QED
      BY <3>1, <3>2, <3>3, <3>4
  <2>4. round' \in Rounds /\ round' \in 0..Bursts
    BY <2>1, BurstAssumption DEF ClientTyped, Rounds
  <2> QED
    BY <2>1, <2>3, <2>4 DEF ClientTyped
<1>2. CASE GetNonceFails
  <2>1. /\ round' = round + 1 /\ round < Bursts /\ client' = client /\ client.pc = "idle"
        /\ reports' = [reports EXCEPT ![round'].results = <<Error>>]
    BY <1>2 DEF GetNonceFails
  <2>2. round' \in Rounds /\ round' \in 0..Bursts
    BY <2>1, BurstAssumption DEF ClientTyped, Rounds
  <2>3. reports' \in [Rounds -> [api : Apis \cup {None}, results : Seq(Results)]]
    BY <2>1, <2>2, ErrorTyped DEF ClientTyped
  <2> QED
    BY <2>1, <2>2, <2>3 DEF ClientTyped
<1>3. CASE Connect
  <2>1. /\ round' = round /\ reports' = reports /\ client.pc = "connect"
        /\ client' = [client EXCEPT !.pc = "send"]
    BY <1>3 DEF Connect
  <2>2. /\ client' \in ClientType /\ client'.pc = "send" /\ client'.sent = client.sent
        /\ client'.size = client.size /\ client'.results = client.results
        /\ client'.checked = client.checked
    BY <2>1 DEF ClientTyped, ClientType
  <2>3. Len(client.sent) < client.size
    BY <2>1 DEF ClientTyped, ClientType
  <2> QED
    BY <2>1, <2>2, <2>3 DEF ClientTyped
<1>4. CASE ConnectFails
  <2>1. Return(<<Error>>) /\ round' = round /\ round \in Rounds
    BY <1>4 DEF ConnectFails, ClientTyped
  <2> QED
    BY <2>1, ReturnTyped, ErrorTyped
<1> QED
  BY <1>1, <1>2, <1>3, <1>4

\* The messages of a burst.
LEMMA MessageTyped ==
  ASSUME TypeInv,
         \/ SendMessage \/ SendFails \/ ReceiveInclusion \/ ReceiveError \/ StreamEnds
  PROVE  ClientTyped'
<1> USE DEF TypeInv
<1>1. CASE SendMessage
  <2> DEFINE i == Len(client.sent) + 1
             e == [nonce |-> client.base + i - 1, round |-> round, i |-> i]
             c == [client EXCEPT !.sent = Append(client.sent, e),
                                 !.pending = client.pending \cup {e},
                                 !.pc = IF i = client.size THEN "receive" ELSE "send"]
  <2>1. /\ client' = c /\ round' = round /\ reports' = reports /\ client.pc = "send"
    BY <1>1 DEF SendMessage
  <2>2. /\ client \in ClientType /\ Len(client.sent) \in Nat /\ client.size \in 1..MaxBurst
        /\ Len(client.sent) < client.size /\ round \in Rounds /\ client.results = <<>>
        /\ client.checked = 0
    BY <2>1, LenProperties DEF ClientTyped, ClientType
  <2>3. i \in 1..MaxBurst /\ i <= client.size /\ client.base + i - 1 \in Nat
    BY <2>2, BurstAssumption DEF ClientType
  <2>4. e \in Entries
    BY <2>2, <2>3 DEF Entries
  <2> HIDE DEF e
  <2>5. Append(client.sent, e) \in Seq(Entries) /\ Len(Append(client.sent, e)) = i
    BY <2>2, <2>4, AppendProperties DEF ClientType
  <2> HIDE DEF i
  <2>6. c \in ClientType
    BY <2>2, <2>4, <2>5 DEF ClientType
  <2>7. /\ c.sent = Append(client.sent, e) /\ c.size = client.size
        /\ c.results = <<>> /\ c.checked = 0
        /\ c.pc = IF i = client.size THEN "receive" ELSE "send"
    BY <2>2 DEF ClientType
  <2> HIDE DEF c
  <2>8. c.pc \in {"send", "receive"} /\ (c.pc = "send" => i < client.size)
    BY <2>2, <2>3, <2>7
  <2> QED
    BY <2>1, <2>2, <2>3, <2>5, <2>6, <2>7, <2>8 DEF ClientTyped
<1>2. CASE SendFails \/ StreamEnds
  <2>1. /\ client' = [client EXCEPT !.pc = "receive"] \/ client' = [client EXCEPT !.pc = "close"]
        /\ round' = round /\ reports' = reports /\ client.pc \in {"send", "receive"}
    BY <1>2 DEF SendFails, StreamEnds
  <2>2. /\ client' \in ClientType /\ client'.pc \in {"receive", "close"}
        /\ client'.sent = client.sent /\ client'.size = client.size
        /\ client'.checked = client.checked
    BY <2>1 DEF ClientTyped, ClientType
  <2> QED
    BY <2>1, <2>2 DEF ClientTyped
<1>3. CASE ReceiveInclusion
  <2> DEFINE m == Head(toClient[round])
             pc == IF Answer(m) = Error \/ m.nonce = BiggestNonce(client.sent)
                     THEN "close" ELSE "receive"
             c == [client EXCEPT !.results = Append(client.results, Answer(m)),
                                 !.pending = client.pending \ Matches(m), !.pc = pc]
  <2>1. /\ client' = c /\ round' = round /\ reports' = reports
        /\ client.pc = "receive" /\ toClient[round] # <<>> /\ m.kind = "inclusion"
    BY <1>3 DEF ReceiveInclusion
  <2>2. client \in ClientType /\ round \in Rounds /\ toClient[round] \in Seq(Messages)
    BY <2>1 DEF ClientTyped, NetTyped
  <2>3. m \in Messages
    BY <2>1, <2>2, TailShortened, RangeIs
  <2> HIDE DEF m
  <2>4. Answer(m) \in Results
    BY <2>1, <2>2, <2>3, AnswerTyped
  <2>5. Append(client.results, Answer(m)) \in Seq(Results)
    BY <2>2, <2>4, AppendProperties DEF ClientType
  <2>6. pc \in {"close", "receive"}
    OBVIOUS
  <2> HIDE DEF pc
  <2>7. c \in ClientType /\ c.pc = pc /\ c.sent = client.sent /\ c.size = client.size
        /\ c.checked = client.checked
    BY <2>2, <2>5, <2>6 DEF ClientType
  <2> HIDE DEF c
  <2> QED
    BY <2>1, <2>2, <2>6, <2>7 DEF ClientTyped
<1>4. CASE ReceiveError
  <2>1. /\ client' = [client EXCEPT !.results = Append(client.results, Error), !.pc = AfterError]
        /\ round' = round /\ reports' = reports /\ client.pc = "receive"
    BY <1>4 DEF ReceiveError
  <2>2. client \in ClientType /\ Append(client.results, Error) \in Seq(Results)
    BY ErrorTyped, AppendProperties DEF ClientTyped, ClientType
  <2>3. /\ client' \in ClientType /\ client'.pc = "close"
        /\ client'.sent = client.sent /\ client'.size = client.size
        /\ client'.checked = client.checked
    BY <2>1, <2>2 DEF ClientType, AfterError
  <2> QED
    BY <2>1, <2>2, <2>3 DEF ClientTyped
<1> QED
  BY <1>1, <1>2, <1>3, <1>4

\* The end of a burst, and the wait for its verification.
LEMMA EndTyped ==
  ASSUME TypeInv, Close \/ AwaitVerified \/ AwaitTimesOut \/ AwaitEnds
  PROVE  ClientTyped'
<1> USE DEF TypeInv
<1>1. client \in ClientType /\ client.results \in Seq(Results)
  BY DEF ClientTyped, ClientType
<1>2. ASSUME NEW results \in Seq(Results), GoOn(results), client.pc = "close", round' = round
      PROVE  ClientTyped'
  <2>1. CASE client' = [client EXCEPT !.pc = "await", !.results = results] /\ reports' = reports
    <3>1. /\ client' \in ClientType /\ client'.pc = "await"
          /\ client'.sent = client.sent /\ client'.size = client.size
      BY <1>1, <2>1 DEF ClientType
    <3> QED
      BY <1>2, <2>1, <3>1 DEF ClientTyped
  <2>2. CASE Return(results)
    BY <1>2, <2>2, ReturnTyped DEF ClientTyped
  <2> QED
    BY <1>2, <2>1, <2>2 DEF GoOn
<1>3. CASE Close
  <2>1. /\ client.pc = "close" /\ round' = round
        /\ GoOn(client.results) \/ GoOn(<<Error>>)
    BY <1>3 DEF Close
  <2> QED
    BY <1>1, <1>2, <2>1, ErrorTyped
<1>4. CASE AwaitVerified
  <2>1. PICK j \in Unchecked : client' = [client EXCEPT !.checked = j]
    BY <1>4 DEF AwaitVerified
  <2>2. j \in Nat
    BY <1>1, LenProperties DEF Unchecked
  <2>3. client.pc = "await" /\ round' = round /\ reports' = reports
    BY <1>4 DEF AwaitVerified
  <2>4. /\ client' \in ClientType /\ client'.pc = "await"
        /\ client'.sent = client.sent /\ client'.size = client.size
    BY <1>1, <2>1, <2>2, <2>3 DEF ClientType
  <2> QED
    BY <2>3, <2>4 DEF ClientTyped
<1>5. CASE AwaitTimesOut
  <2>1. /\ Return(WithTimeout(client.results)) /\ round' = round /\ round \in Rounds
    BY <1>5 DEF AwaitTimesOut, ClientTyped
  <2>2. WithTimeout(client.results) \in Seq(Results)
    BY <1>1, ErrorTyped, AppendProperties DEF WithTimeout
  <2> QED
    BY <2>1, <2>2, ReturnTyped
<1>6. CASE AwaitEnds
  <2>1. /\ Return(client.results) /\ round' = round /\ round \in Rounds
    BY <1>6 DEF AwaitEnds, ClientTyped
  <2> QED
    BY <1>1, <2>1, ReturnTyped
<1> QED
  BY <1>3, <1>4, <1>5, <1>6

-----------------------------------------------------------------------------
(***************************************************************************)
(* The connections.  But for the client's messages and the batcher's       *)
(* inclusion data, steps only take messages away or add errors.            *)
(***************************************************************************)
\* No step but SendMessage adds a message to the batcher.
Unadded == \A r \in Rounds : Shortened(toBatcher[r], toBatcher'[r])

\* No step but SendResponse adds inclusion data.
Untold == \A r \in Rounds : NoNewInclusion(toClient[r], toClient'[r])

\* Messages that stay as they are.
LEMMA SameBoxes ==
  ASSUME NEW s
  PROVE  Shortened(s, s) /\ NoNewInclusion(s, s)
BY DEF Shortened, NoNewInclusion

\* One connection's messages change.
LEMMA BoxShortened ==
  ASSUME NEW S, NEW b \in [Rounds -> Seq(S)], NEW r \in Rounds, NEW t \in Seq(S),
         Shortened(b[r], t)
  PROVE  /\ [b EXCEPT ![r] = t] \in [Rounds -> Seq(S)]
         /\ \A q \in Rounds : Shortened(b[q], [b EXCEPT ![r] = t][q])
<1> SUFFICES ASSUME NEW q \in Rounds PROVE Shortened(b[q], [b EXCEPT ![r] = t][q])
  OBVIOUS
<1>1. CASE q = r
  BY <1>1
<1>2. CASE q # r
  BY <1>2, SameBoxes
<1> QED
  BY <1>1, <1>2

\* The same for the messages to the clients.
LEMMA BoxUntold ==
  ASSUME NEW S, NEW b \in [Rounds -> Seq(S)], NEW r \in Rounds, NEW t \in Seq(S),
         NoNewInclusion(b[r], t)
  PROVE  /\ [b EXCEPT ![r] = t] \in [Rounds -> Seq(S)]
         /\ \A q \in Rounds : NoNewInclusion(b[q], [b EXCEPT ![r] = t][q])
<1> SUFFICES ASSUME NEW q \in Rounds PROVE NoNewInclusion(b[q], [b EXCEPT ![r] = t][q])
  OBVIOUS
<1>1. CASE q = r
  BY <1>1
<1>2. CASE q # r
  BY <1>2, SameBoxes
<1> QED
  BY <1>1, <1>2

\* An error for one client.
LEMMA DeliverUntold ==
  ASSUME NetTyped, NEW r \in Rounds, toClient' = Deliver(toClient, r, [kind |-> "error"])
  PROVE  toClient' \in [Rounds -> Seq(Messages)] /\ Untold
<1> DEFINE x == [kind |-> "error"]
           t == Append(toClient[r], x)
<1>1. x \in Messages /\ x.kind # "inclusion"
  BY DEF Messages
<1> HIDE DEF x
<1>2. toClient \in [Rounds -> Seq(Messages)] /\ toClient[r] \in Seq(Messages)
  BY DEF NetTyped
<1>3. t \in Seq(Messages) /\ NoNewInclusion(toClient[r], t)
  BY <1>1, <1>2, AppendNoInclusion
<1> HIDE DEF t
<1>4. toClient' = [toClient EXCEPT ![r] = t] \/ toClient' = toClient
  BY DEF Deliver, t, x
<1> QED
  BY <1>2, <1>3, <1>4, BoxUntold, SameBoxes DEF Untold

\* Errors for the clients of some entries.
LEMMA TellAllUntold ==
  ASSUME NetTyped, NEW entries, IsFiniteSet(entries), TellAll(entries)
  PROVE  toClient' \in [Rounds -> Seq(Messages)] /\ Untold
<1> DEFINE n(r) == Cardinality({e \in entries : e.round = r})
           t(r) == toClient[r] \o [j \in 1..n(r) |-> [kind |-> "error"]]
<1>1. ASSUME NEW r \in Rounds PROVE n(r) \in Nat
  <2>1. {e \in entries : e.round = r} \subseteq entries
    OBVIOUS
  <2>2. IsFiniteSet({e \in entries : e.round = r})
    BY <2>1, FS_Subset
  <2> QED
    BY <2>2, FS_CardinalityType
<1>2. toClient' = [r \in Rounds |-> IF conn[r] # "open" THEN toClient[r] ELSE t(r)]
  BY DEF TellAll
<1> HIDE DEF n
<1>3. ASSUME NEW r \in Rounds PROVE t(r) \in Seq(Messages) /\ NoNewInclusion(toClient[r], t(r))
  BY <1>1, <1>3, ErrorsNoInclusion DEF NetTyped
<1> HIDE DEF t
<1>4. \A r \in Rounds : toClient'[r] \in Seq(Messages) /\ NoNewInclusion(toClient[r], toClient'[r])
  BY <1>2, <1>3, SameBoxes DEF NetTyped
<1> QED
  BY <1>2, <1>4 DEF Untold

\* The entries of a batch are a finite set.
LEMMA BatchFinite ==
  ASSUME NEW S, NEW b \in Seq(S)
  PROVE  IsFiniteSet(Range(b)) /\ Range(b) \subseteq S
<1>1. Len(b) \in Nat /\ DOMAIN b = 1..Len(b) /\ Range(b) \subseteq S
  BY RangeIs
<1>2. IsFiniteSet(1..Len(b))
  BY <1>1, FS_Interval
<1>3. b \in Surjection(1..Len(b), Range(b))
  BY <1>1 DEF Range, Surjection
<1> QED
  BY <1>1, <1>2, <1>3, FS_Surjection

\* Steps of the client.
LEMMA ClientNet ==
  ASSUME TypeInv, ClientStep, ~SendMessage
  PROVE  NetTyped' /\ Unadded /\ Untold
<1>1. NetTyped /\ ClientTyped
  BY DEF TypeInv
<1>2. CASE UNCHANGED netVars
  BY <1>1, <1>2, SameBoxes DEF netVars, NetTyped, Unadded, Untold
<1>3. CASE Connect
  <2>1. toBatcher' = toBatcher /\ toClient' = toClient /\ conn' = [conn EXCEPT ![round] = "open"]
    BY <1>3 DEF Connect
  <2> QED
    BY <1>1, <2>1, SameBoxes DEF NetTyped, Unadded, Untold
<1>4. CASE ReceiveInclusion \/ ReceiveError
  <2>1. /\ client.pc = "receive" /\ toClient[round] # <<>>
        /\ toClient' = [toClient EXCEPT ![round] = Tail(toClient[round])]
        /\ toBatcher' = toBatcher /\ conn' = conn
    BY <1>4 DEF ReceiveInclusion, ReceiveError
  <2>2. round \in Rounds /\ toClient[round] \in Seq(Messages)
    BY <1>1, <2>1 DEF ClientTyped, NetTyped
  <2>3. /\ Tail(toClient[round]) \in Seq(Messages)
        /\ NoNewInclusion(toClient[round], Tail(toClient[round]))
    BY <2>1, <2>2, TailShortened
  <2>4. toClient' \in [Rounds -> Seq(Messages)] /\ Untold
    BY <1>1, <2>1, <2>2, <2>3, BoxUntold DEF NetTyped, Untold
  <2> QED
    BY <1>1, <2>1, <2>4, SameBoxes DEF NetTyped, Unadded
<1>5. CASE Close
  <2>1. /\ client.pc = "close" /\ conn' = [conn EXCEPT ![round] = "closed"]
        /\ toClient' = [toClient EXCEPT ![round] = <<>>] /\ toBatcher' = toBatcher
    BY <1>5 DEF Close
  <2>2. round \in Rounds
    BY <1>1, <2>1 DEF ClientTyped
  <2>3. <<>> \in Seq(Messages) /\ NoNewInclusion(toClient[round], <<>>)
    BY DEF NoNewInclusion, AscendingInclusions, Range
  <2>4. toClient' \in [Rounds -> Seq(Messages)] /\ Untold
    BY <1>1, <2>1, <2>2, <2>3, BoxUntold DEF NetTyped, Untold
  <2> QED
    BY <1>1, <2>1, <2>2, <2>4, SameBoxes DEF NetTyped, Unadded
<1> QED
  BY <1>2, <1>3, <1>4, <1>5
     DEF ClientStep, GetNonce, GetNonceFails, ConnectFails, SendFails, StreamEnds,
         AwaitVerified, AwaitTimesOut, AwaitEnds

\* Steps of the batcher.
LEMMA BatcherNet ==
  ASSUME TypeInv, BatcherStep, ~SendResponse
  PROVE  NetTyped' /\ Unadded /\ Untold
<1>1. NetTyped /\ BatcherTyped
  BY DEF TypeInv
<1>2. CASE UNCHANGED netVars
  BY <1>1, <1>2, SameBoxes DEF netVars, NetTyped, Unadded, Untold
<1>3. ASSUME NEW r \in Rounds,
             \/ HandleSubmitProof(r) \/ AnswerBusy(r)
             \/ RefuseMessage(r) \/ RefuseSubmitProof(r)
      PROVE  NetTyped' /\ Unadded /\ Untold
  <2>1. /\ toBatcher[r] # <<>> /\ conn' = conn
        /\ toBatcher' = [toBatcher EXCEPT ![r] = Tail(toBatcher[r])]
        /\ toClient' = toClient \/ toClient' = Deliver(toClient, r, [kind |-> "error"])
    BY <1>3 DEF HandleSubmitProof, AnswerBusy, RefuseMessage, RefuseSubmitProof
  <2>2. /\ Tail(toBatcher[r]) \in Seq(Entries)
        /\ Shortened(toBatcher[r], Tail(toBatcher[r]))
    BY <1>1, <1>3, <2>1, TailShortened DEF NetTyped
  <2>3. toBatcher' \in [Rounds -> Seq(Entries)] /\ Unadded
    BY <1>1, <1>3, <2>1, <2>2, BoxShortened DEF NetTyped, Unadded
  <2>4. toClient' \in [Rounds -> Seq(Messages)] /\ Untold
    BY <1>1, <1>3, <2>1, DeliverUntold, SameBoxes DEF NetTyped, Untold
  <2> QED
    BY <1>1, <2>1, <2>3, <2>4 DEF NetTyped
<1>4. CASE FlushQueue \/ Evict
  <2>1. /\ conn' = conn /\ toBatcher' = toBatcher
        /\ \/ toClient' = toClient
           \/ \E entries \in SUBSET (queue \cup Range(posting.batch)) : TellAll(entries)
    BY <1>4, SameBoxes DEF FlushQueue, Evict
  <2> SUFFICES ASSUME NEW entries \in SUBSET (queue \cup Range(posting.batch)), TellAll(entries)
               PROVE  NetTyped' /\ Unadded /\ Untold
    BY <1>1, <2>1, SameBoxes DEF NetTyped, Unadded, Untold
  <2>3. posting.batch \in Seq(Entries) /\ IsFiniteSet(queue)
    BY <1>1 DEF BatcherTyped, PostingType
  <2>4. IsFiniteSet(entries)
    <3>1. IsFiniteSet(Range(posting.batch))
      BY <2>3, BatchFinite
    <3>2. IsFiniteSet(queue \cup Range(posting.batch))
      BY <2>3, <3>1, FS_Union
    <3> QED
      BY <3>2, FS_Subset
  <2>5. toClient' \in [Rounds -> Seq(Messages)] /\ Untold
    BY <1>1, <2>4, TellAllUntold
  <2> QED
    BY <1>1, <2>1, <2>5, SameBoxes DEF NetTyped, Unadded
<1> QED
  <2>1. ExtractBatch \/ TaskCreated \/ ClientBlocks \/ PostingFails \/ RestoreBlocks
          \/ EvictLast \/ Stop => UNCHANGED netVars
    BY DEF ExtractBatch, TaskCreated, ClientBlocks, PostingFails, RestoreBlocks, EvictLast, Stop
  <2> QED
    BY <1>2, <1>3, <1>4, <2>1 DEF BatcherStep

\* Steps of the network.
LEMMA NetworkNet ==
  ASSUME TypeInv, NetworkStep
  PROVE  NetTyped' /\ Unadded /\ Untold
<1>1. NetTyped
  BY DEF TypeInv
<1>2. CASE VerifyBatch
  BY <1>1, <1>2, SameBoxes DEF VerifyBatch, netVars, NetTyped, Unadded, Untold
<1>3. CASE ConnectionLost
  <2>1. PICK r \in Rounds :
          /\ conn' = [conn EXCEPT ![r] = "lost"]
          /\ \E n \in 0..Len(toBatcher[r]) :
               toBatcher' = [toBatcher EXCEPT ![r] = SubSeq(toBatcher[r], 1, n)]
          /\ \E n \in 0..Len(toClient[r]) :
               toClient' = [toClient EXCEPT ![r] = SubSeq(toClient[r], 1, n)]
    BY <1>3 DEF ConnectionLost
  <2>2. PICK n \in 0..Len(toBatcher[r]) :
          toBatcher' = [toBatcher EXCEPT ![r] = SubSeq(toBatcher[r], 1, n)]
    BY <2>1
  <2>3. PICK k \in 0..Len(toClient[r]) :
          toClient' = [toClient EXCEPT ![r] = SubSeq(toClient[r], 1, k)]
    BY <2>1
  <2>4. /\ SubSeq(toBatcher[r], 1, n) \in Seq(Entries)
        /\ Shortened(toBatcher[r], SubSeq(toBatcher[r], 1, n))
    BY <1>1, PrefixShortened DEF NetTyped
  <2>5. /\ SubSeq(toClient[r], 1, k) \in Seq(Messages)
        /\ NoNewInclusion(toClient[r], SubSeq(toClient[r], 1, k))
    BY <1>1, PrefixShortened DEF NetTyped
  <2>6. toBatcher' \in [Rounds -> Seq(Entries)] /\ Unadded
    BY <1>1, <2>2, <2>4, BoxShortened DEF NetTyped, Unadded
  <2>7. toClient' \in [Rounds -> Seq(Messages)] /\ Untold
    BY <1>1, <2>3, <2>5, BoxUntold DEF NetTyped, Untold
  <2> QED
    BY <1>1, <2>1, <2>6, <2>7 DEF NetTyped
<1>4. CASE CloseFrame
  <2> DEFINE x == [kind |-> "close"]
  <2>1. PICK r \in Rounds :
          /\ conn' = [conn EXCEPT ![r] = "lost"]
          /\ toClient' = [toClient EXCEPT ![r] = Append(toClient[r], x)]
    BY <1>4 DEF CloseFrame
  <2>2. x \in Messages /\ x.kind # "inclusion"
    BY DEF Messages
  <2> HIDE DEF x
  <2>3. /\ Append(toClient[r], x) \in Seq(Messages)
        /\ NoNewInclusion(toClient[r], Append(toClient[r], x))
    BY <1>1, <2>2, AppendNoInclusion DEF NetTyped
  <2>4. toClient' \in [Rounds -> Seq(Messages)] /\ Untold
    BY <1>1, <2>1, <2>3, BoxUntold DEF NetTyped, Untold
  <2>5. toBatcher' = toBatcher
    BY <1>4 DEF CloseFrame
  <2> QED
    BY <1>1, <2>1, <2>4, <2>5, SameBoxes DEF NetTyped, Unadded
<1> QED
  BY <1>2, <1>3, <1>4 DEF NetworkStep

\* The client sends its next message.
LEMMA SendNet ==
  ASSUME TypeInv, SendMessage
  PROVE  /\ NetTyped' /\ Untold /\ round \in Rounds
         /\ \E e \in Entries :
              /\ e.nonce = client.base + Len(client.sent) /\ e.round = round
              /\ client'.pending = client.pending \cup {e} /\ client'.base = client.base
              /\ Len(client'.sent) = Len(client.sent) + 1
              /\ toBatcher' = [toBatcher EXCEPT ![round] = Append(toBatcher[round], e)]
<1>1. NetTyped /\ ClientTyped
  BY DEF TypeInv
<1> DEFINE i == Len(client.sent) + 1
           e == [nonce |-> client.base + i - 1, round |-> round, i |-> i]
<1>2. /\ client.pc = "send"
      /\ toBatcher' = [toBatcher EXCEPT ![round] = Append(toBatcher[round], e)]
      /\ client' = [client EXCEPT !.sent = Append(client.sent, e),
                                  !.pending = client.pending \cup {e},
                                  !.pc = IF i = client.size THEN "receive" ELSE "send"]
      /\ conn' = conn /\ toClient' = toClient
  BY DEF SendMessage
<1>3. /\ client \in ClientType /\ Len(client.sent) \in Nat /\ client.size \in 1..MaxBurst
      /\ Len(client.sent) < client.size /\ round \in Rounds /\ client.base \in Nat
      /\ client.sent \in Seq(Entries)
  BY <1>1, <1>2, LenProperties DEF ClientTyped, ClientType
<1>4. i \in 1..MaxBurst /\ client.base + i - 1 \in Nat /\ client.base + i - 1 = client.base + Len(client.sent)
  BY <1>3, BurstAssumption
<1>5. e \in Entries /\ e.nonce = client.base + Len(client.sent) /\ e.round = round
  BY <1>3, <1>4 DEF Entries
<1> HIDE DEF e, i
<1>6. /\ client'.pending = client.pending \cup {e} /\ client'.base = client.base
      /\ client'.sent = Append(client.sent, e)
  BY <1>2, <1>3 DEF ClientType
<1>7. Len(client'.sent) = Len(client.sent) + 1
  BY <1>3, <1>5, <1>6, AppendProperties
<1>8. Append(toBatcher[round], e) \in Seq(Entries)
  BY <1>1, <1>3, <1>5, AppendProperties DEF NetTyped
<1>9. NetTyped'
  BY <1>1, <1>2, <1>8 DEF NetTyped
<1> QED
  BY <1>2, <1>3, <1>5, <1>6, <1>7, <1>9, SameBoxes DEF Untold

\* The batcher sends its next inclusion data, to the client of the proof.
LEMMA ResponseNet ==
  ASSUME TypeInv, SendResponse
  PROVE  /\ NetTyped' /\ Unadded
         /\ posting.pc = "created" /\ posting.unsent \in DOMAIN posting.batch
         /\ posting.unsent \in 1..Len(posting.batch)
         /\ posting.batch[posting.unsent] \in Entries
         /\ InclusionData(posting.batch, posting.unsent) \in Messages
         /\ toClient' = Deliver(toClient, posting.batch[posting.unsent].round,
                                InclusionData(posting.batch, posting.unsent))
<1>1. NetTyped /\ BatcherTyped
  BY DEF TypeInv
<1> DEFINE j == posting.unsent
           e == posting.batch[j]
           m == InclusionData(posting.batch, j)
<1>2. /\ posting.pc = "created" /\ conn' = conn /\ toBatcher' = toBatcher
      /\ toClient' = Deliver(toClient, e.round, m)
  BY DEF SendResponse
<1>3. /\ posting.batch \in Seq(Entries) /\ j \in DOMAIN posting.batch /\ j \in Nat
      /\ j \in 1..Len(posting.batch)
  BY <1>1, <1>2, LenProperties DEF BatcherTyped, PostingType
<1>4. e \in Entries
  BY <1>3, ElementOfSeq
<1>5. m \in Messages
  BY <1>3, <1>4 DEF InclusionData, IndexInBatch, Messages, Entries
<1> HIDE DEF m
<1>6. e.round \in Rounds
  BY <1>4 DEF Entries
<1>7. Append(toClient[e.round], m) \in Seq(Messages)
  BY <1>1, <1>5, <1>6, AppendProperties DEF NetTyped
<1>8. toClient' \in [Rounds -> Seq(Messages)]
  BY <1>1, <1>2, <1>6, <1>7 DEF Deliver, NetTyped
<1> QED
  BY <1>1, <1>2, <1>3, <1>4, <1>5, <1>8, SameBoxes DEF NetTyped, Unadded, m

\* A batch in the order of the queue is a sequence of exactly the entries taken.
LEMMA InQueueOrderIs ==
  ASSUME NEW S \in SUBSET Entries, IsFiniteSet(S), S # {}, NEW b \in InQueueOrder(S)
  PROVE  /\ b \in Seq(Entries) /\ Len(b) \in Nat \ {0} /\ b # <<>> /\ Range(b) \subseteq S
         /\ DOMAIN b = 1..Len(b)
         /\ \A i, j \in DOMAIN b : i < j => Earlier(b[j], b[i])
<1> DEFINE n == Cardinality(S)
<1>1. n \in Nat \ {0}
  BY FS_CardinalityType, FS_EmptySet
<1> HIDE DEF n
<1>2. b \in [1..n -> S] /\ \A i, j \in DOMAIN b : i < j => Earlier(b[j], b[i])
  BY DEF InQueueOrder, n
<1>3. b \in Seq(S) /\ Len(b) = n
  BY <1>1, <1>2, FunctionIsSeq
<1>4. b \in Seq(Entries)
  BY <1>3, SeqMonotonic
<1>5. Range(b) \subseteq S /\ DOMAIN b = 1..Len(b)
  BY <1>3, RangeIs
<1> QED
  BY <1>1, <1>2, <1>3, <1>4, <1>5

\* What a fault counts.
LEMMA FaultTyped ==
  ASSUME faults \in 0..MaxFaults, Fault
  PROVE  faults' \in 0..MaxFaults
BY FaultAssumption DEF Fault

\* The batcher and the chain keep their types.
LEMMA BatcherKept ==
  ASSUME TypeInv, Next
  PROVE  BatcherTyped'
<1> USE DEF TypeInv
<1>0. /\ faults \in 0..MaxFaults /\ posting \in PostingType /\ posting.batch \in Seq(Entries)
      /\ queue \subseteq Entries /\ IsFiniteSet(queue) /\ cached \in Nat \cup {None}
      /\ ethNonce \in Nat /\ Len(posting.batch) \in Nat
  BY LenProperties DEF BatcherTyped, PostingType
<1>1. CASE UNCHANGED <<batcherVars, chainVars>>
  <2>1. faults' \in 0..MaxFaults
    <3>1. CASE faults' = faults
      BY <1>0, <3>1
    <3>2. CASE faults' # faults
      BY <1>0, <3>2, FaultTyped
         DEF Next, ClientStep, BatcherStep, NetworkStep, GetNonce, GetNonceFails, Connect,
             ConnectFails, SendMessage, SendFails, ReceiveInclusion, ReceiveError,
             StreamEnds, Close, AwaitVerified, AwaitTimesOut, AwaitEnds, HandleSubmitProof, AnswerBusy,
             RefuseMessage, RefuseSubmitProof, ExtractBatch, TaskCreated, RevertPasses, SendResponse,
             ClientBlocks, PostingFails, Restore, RestoreBlocks, FlushQueue, Evict, EvictLast,
             Stop, ConnectionLost, CloseFrame, VerifyBatch
    <3> QED
      BY <3>1, <3>2
  <2> QED
    BY <1>1, <2>1 DEF BatcherTyped, batcherVars, chainVars
<1>2. ASSUME NEW r \in Rounds, HandleSubmitProof(r) PROVE BatcherTyped'
  <2> DEFINE e == Head(toBatcher[r])
  <2>1. /\ toBatcher[r] # <<>> /\ posting' = posting /\ stopped' = stopped
        /\ faults' = faults /\ UNCHANGED chainVars
        /\ queue' = queue \/ queue' = queue \cup {e}
        /\ dropped' = dropped \/ dropped' = dropped \cup {e}
        /\ cached' = e.nonce + 1 \/ cached' = Expected
    BY <1>2 DEF HandleSubmitProof
  <2>2. e \in Entries
    BY <1>2, <2>1, TailShortened, RangeIs DEF NetTyped
  <2> HIDE DEF e
  <2>3. queue' \subseteq Entries /\ cached' \in Nat /\ dropped' \subseteq Entries
    BY <1>0, <2>1, <2>2 DEF Expected, Entries, BatcherTyped
  <2>4. IsFiniteSet(queue')
    <3>1. IsFiniteSet(queue) /\ IsFiniteSet(queue \cup {e})
      BY <1>0, FS_AddElement
    <3> QED
      BY <2>1, <3>1
  <2> QED
    BY <2>1, <2>3, <2>4 DEF BatcherTyped, chainVars
<1>3. ASSUME NEW r \in Rounds, RefuseSubmitProof(r) PROVE BatcherTyped'
  <2>1. /\ posting' = posting /\ dropped' = dropped /\ queue' = queue /\ Fault
        /\ stopped' = stopped /\ UNCHANGED chainVars
        /\ cached' = Expected
    BY <1>3 DEF RefuseSubmitProof
  <2>2. cached' \in Nat
    BY <1>0, <2>1 DEF Expected
  <2> QED
    BY <1>0, <2>1, <2>2, FaultTyped DEF BatcherTyped, chainVars
<1>4. CASE ExtractBatch
  <2>1. PICK S \in (SUBSET queue) \ {{}} :
          /\ \E b \in InQueueOrder(S) : posting' = [pc |-> "sent", batch |-> b, unsent |-> Len(b)]
          /\ queue' = queue \ S
    BY <1>4 DEF ExtractBatch
  <2>2. PICK b \in InQueueOrder(S) : posting' = [pc |-> "sent", batch |-> b, unsent |-> Len(b)]
    BY <2>1
  <2>3. IsFiniteSet(S) /\ S \in SUBSET Entries /\ S # {} /\ IsFiniteSet(queue')
    <3>1. S \subseteq queue /\ S # {} /\ queue' \subseteq queue
      BY <2>1
    <3>2. IsFiniteSet(S)
      BY <1>0, <3>1, FS_Subset
    <3>3. IsFiniteSet(queue')
      BY <1>0, <3>1, FS_Subset
    <3> QED
      BY <1>0, <3>1, <3>2, <3>3
  <2>4. b \in Seq(Entries) /\ Len(b) \in Nat \ {0} /\ b # <<>>
    BY <2>3, InQueueOrderIs
  <2>5. /\ cached' = cached /\ dropped' = dropped /\ faults' = faults
        /\ stopped' = stopped /\ UNCHANGED chainVars
    BY <1>4 DEF ExtractBatch
  <2>6. /\ posting' \in PostingType /\ posting'.pc = "sent" /\ posting'.batch = b
        /\ posting'.unsent = Len(b)
    BY <2>2, <2>4 DEF PostingType
  <2> QED
    BY <2>1, <2>3, <2>4, <2>5, <2>6, NoneAssumption DEF BatcherTyped, chainVars
<1>5. ASSUME CreateTask \/ UNCHANGED chainVars
      PROVE  /\ ethNonce' \in Nat /\ created' \subseteq Seq(Entries)
             /\ reverted' \subseteq Seq(Entries) /\ verified' \subseteq created'
  BY <1>0, <1>5 DEF CreateTask, chainVars, BatcherTyped
<1>6. CASE TaskCreated
  <2>1. /\ cached' = cached /\ dropped' = dropped /\ queue' = queue /\ stopped' = stopped
        /\ posting.pc = "sent"
        /\ posting' = [posting EXCEPT !.pc = IF stopped THEN "stuck" ELSE "created"]
        /\ (CreateTask /\ UNCHANGED faults) \/ RevertPasses
    BY <1>6 DEF TaskCreated
  <2>2. /\ posting' \in PostingType /\ posting'.pc \in {"stuck", "created"}
        /\ posting'.batch = posting.batch /\ posting'.unsent = posting.unsent
    BY <1>0, <2>1 DEF PostingType
  <2>3. posting.batch # <<>>
    BY <2>1, NoneAssumption DEF BatcherTyped
  <2>4. Len(posting.batch) > 0
    BY <1>0, <2>3, EmptySeq
  <2>5. posting.unsent = Len(posting.batch)
    BY <2>1 DEF BatcherTyped
  <2>6. faults' \in 0..MaxFaults
    BY <1>0, <2>1, FaultTyped DEF RevertPasses
  <2>7. /\ ethNonce' \in Nat /\ created' \subseteq Seq(Entries)
        /\ reverted' \subseteq Seq(Entries) /\ verified' \subseteq created'
    BY <1>0, <1>5, <2>1 DEF RevertPasses, BatcherTyped
  <2> QED
    BY <2>1, <2>2, <2>3, <2>4, <2>5, <2>6, <2>7, NoneAssumption DEF BatcherTyped
<1>7. /\ NotPosting \in PostingType /\ NotPosting.pc = None /\ NotPosting.batch = <<>>
      /\ NotPosting.unsent = 0 /\ Len(NotPosting.batch) = 0
  BY DEF NotPosting, PostingType
<1>8. CASE SendResponse
  <2>1. /\ cached' = cached /\ dropped' = dropped /\ faults' = faults /\ queue' = queue
        /\ stopped' = stopped /\ UNCHANGED chainVars
        /\ posting.pc = "created"
        /\ posting' = IF posting.unsent = 1 THEN NotPosting
                      ELSE [posting EXCEPT !.unsent = posting.unsent - 1]
    BY <1>8 DEF SendResponse
  <2>2. CASE posting.unsent = 1
    BY <1>7, <2>1, <2>2, NoneAssumption DEF BatcherTyped, chainVars
  <2>3. CASE posting.unsent # 1
    <3>1. posting.unsent \in Nat /\ posting.unsent > 1
      BY <1>0, <2>1, <2>3 DEF BatcherTyped, PostingType
    <3>2. /\ posting' \in PostingType /\ posting'.pc = "created"
          /\ posting'.batch = posting.batch /\ posting'.unsent = posting.unsent - 1
      BY <1>0, <2>1, <2>3, <3>1 DEF PostingType
    <3> QED
      BY <1>0, <2>1, <3>1, <3>2, NoneAssumption DEF BatcherTyped, chainVars
  <2> QED
    BY <2>2, <2>3
<1>9. ASSUME NEW back \in SUBSET Range(posting.batch), NEW evicted \in SUBSET queue,
             Restore(back, evicted), Fault, CreateTask \/ UNCHANGED chainVars,
             cached' = cached, stopped' \in BOOLEAN
      PROVE  BatcherTyped'
  <2>1. /\ queue' \subseteq queue \cup Range(posting.batch) /\ posting' = NotPosting
        /\ dropped' \subseteq dropped \cup queue \cup Range(posting.batch)
    BY <1>9 DEF Restore
  <2>2. IsFiniteSet(Range(posting.batch)) /\ Range(posting.batch) \subseteq Entries
    BY <1>0, BatchFinite
  <2>3. IsFiniteSet(queue')
    <3>1. IsFiniteSet(queue \cup Range(posting.batch))
      BY <1>0, <2>2, FS_Union
    <3> QED
      BY <2>1, <3>1, FS_Subset
  <2>4. dropped' \subseteq Entries /\ queue' \subseteq Entries
    BY <1>0, <2>1, <2>2 DEF BatcherTyped
  <2>5. faults' \in 0..MaxFaults
    BY <1>0, <1>9, FaultTyped
  <2> QED
    BY <1>0, <1>5, <1>7, <1>9, <2>1, <2>3, <2>4, <2>5, NoneAssumption DEF BatcherTyped
<1>10. ASSUME /\ cached' = cached /\ dropped' = dropped /\ queue' = queue /\ stopped' = stopped
              /\ posting.pc \in {"sent", "created"} /\ posting' = [posting EXCEPT !.pc = "stuck"]
              /\ Fault /\ (CreateTask \/ UNCHANGED chainVars)
       PROVE  BatcherTyped'
  <2>1. /\ posting' \in PostingType /\ posting'.pc = "stuck"
        /\ posting'.batch = posting.batch /\ posting'.unsent = posting.unsent
    BY <1>0, <1>10 DEF PostingType
  <2>2. posting.batch # <<>> /\ faults' \in 0..MaxFaults
    BY <1>0, <1>10, FaultTyped, NoneAssumption DEF BatcherTyped
  <2> QED
    BY <1>5, <1>10, <2>1, <2>2, NoneAssumption DEF BatcherTyped
<1>11. CASE PostingFails \/ RestoreBlocks
  <2>1. Fault /\ cached' = cached /\ (CreateTask \/ UNCHANGED chainVars) /\ posting.pc = "sent"
    BY <1>11 DEF PostingFails, RestoreBlocks
  <2>2. \/ \E back \in SUBSET Range(posting.batch), evicted \in SUBSET queue :
             Restore(back, evicted) /\ (stopped' = stopped \/ stopped' = TRUE)
        \/ /\ posting' = [posting EXCEPT !.pc = "stuck"] /\ stopped' = stopped
           /\ queue' = queue /\ dropped' = dropped
    <3>1. {} \in SUBSET queue /\ \A e \in queue : {e} \in SUBSET queue
      OBVIOUS
    <3>2. CASE PostingFails
      BY <3>1, <3>2 DEF PostingFails
    <3>3. CASE RestoreBlocks
      BY <3>1, <3>3 DEF RestoreBlocks
    <3> QED
      BY <1>11, <3>2, <3>3
  <2>3. stopped \in BOOLEAN
    BY DEF BatcherTyped
  <2> QED
    BY <1>9, <1>10, <2>1, <2>2, <2>3
<1>12. CASE ClientBlocks
  BY <1>10, <1>12 DEF ClientBlocks
<1>13. CASE FlushQueue
  <2>1. /\ posting' = posting \/ posting' = NotPosting
        /\ queue' = {} /\ cached' = None /\ dropped' = dropped /\ Fault
        /\ stopped' = stopped /\ UNCHANGED chainVars
    BY <1>13 DEF FlushQueue
  <2> QED
    BY <1>0, <1>7, <2>1, FaultTyped, FS_EmptySet, NoneAssumption DEF BatcherTyped, chainVars
<1>14. CASE Evict \/ EvictLast \/ Stop
  <2>1. /\ posting' = posting /\ Fault /\ UNCHANGED chainVars
        /\ stopped' = stopped \/ stopped' = TRUE
        /\ queue' \subseteq queue /\ dropped' \subseteq dropped \cup queue
    BY <1>14 DEF Evict, EvictLast, Stop
  <2>2. cached' \in Nat \cup {None}
    <3>1. CASE cached' = cached
      BY <1>0, <3>1
    <3>2. CASE cached' # cached
      <4>1. cached # None /\ cached' = IF cached = 0 THEN 0 ELSE cached - 1
        BY <1>14, <3>2 DEF Evict, EvictLast, Stop
      <4> QED
        BY <1>0, <4>1
    <3> QED
      BY <3>1, <3>2
  <2>3. queue' \subseteq Entries /\ IsFiniteSet(queue') /\ dropped' \subseteq Entries
    <3>1. IsFiniteSet(queue')
      BY <1>0, <2>1, FS_Subset
    <3> QED
      BY <1>0, <2>1, <3>1 DEF BatcherTyped
  <2>4. stopped' \in BOOLEAN /\ faults' \in 0..MaxFaults
    BY <1>0, <2>1, FaultTyped DEF BatcherTyped
  <2> QED
    BY <1>0, <2>1, <2>2, <2>3, <2>4 DEF BatcherTyped, chainVars
<1>15. CASE VerifyBatch
  BY <1>15 DEF VerifyBatch, batcherVars, BatcherTyped
<1>16. CASE ClientStep \/ ConnectionLost \/ CloseFrame
  <2>1. UNCHANGED <<batcherVars, chainVars>>
    BY <1>16 DEF ClientStep, GetNonce, GetNonceFails, Connect, ConnectFails, SendMessage,
         SendFails, ReceiveInclusion, ReceiveError, StreamEnds, Close, AwaitVerified,
         AwaitTimesOut, AwaitEnds, ConnectionLost, CloseFrame
  <2> QED
    BY <1>1, <2>1
<1>17. ASSUME NEW r \in Rounds, AnswerBusy(r) \/ RefuseMessage(r) PROVE BatcherTyped'
  <2>1. UNCHANGED <<batcherVars, chainVars>>
    BY <1>17 DEF AnswerBusy, RefuseMessage
  <2> QED
    BY <1>1, <2>1
<1> QED
  BY <1>2, <1>3, <1>4, <1>6, <1>8, <1>11, <1>12, <1>13, <1>14, <1>15, <1>16, <1>17
     DEF Next, BatcherStep, NetworkStep

\* All the variables have their types at the beginning.
LEMMA InitTyped == Init => TypeInv
<1> SUFFICES ASSUME Init PROVE TypeInv
  OBVIOUS
<1>1. ClientTyped
  <2>1. reports \in [Rounds -> [api : Apis \cup {None}, results : Seq(Results)]]
    BY DEF Init
  <2>2. round = 0 /\ client = IdleClient /\ 0 \in 0..Bursts
    BY BurstAssumption DEF Init
  <2> QED
    BY <2>1, <2>2, IdleTyped DEF ClientTyped
<1>2. NetTyped
  BY DEF Init, NetTyped
<1>3. BatcherTyped
  <2>1. posting \in PostingType /\ posting.pc = None /\ posting.batch = <<>>
        /\ posting.unsent = 0 /\ Len(posting.batch) = 0
    BY DEF Init, PostingType
  <2>2. /\ cached = None /\ queue = {} /\ dropped = {} /\ ethNonce = 0
        /\ created = {} /\ reverted = {} /\ verified = {} /\ faults = 0
    BY DEF Init
  <2>3. posting.pc # "sent" /\ posting.pc # "created"
    BY <2>1, NoneAssumption
  <2>4. IsFiniteSet(queue)
    BY <2>2, FS_EmptySet
  <2>5. /\ queue \subseteq Entries /\ dropped \subseteq Entries
        /\ created \subseteq Seq(Entries) /\ reverted \subseteq Seq(Entries)
        /\ verified \subseteq created
    BY <2>2, Zenon
  <2>6. cached \in Nat \cup {None} /\ faults \in 0..MaxFaults /\ ethNonce \in Nat
    BY <2>2, FaultAssumption
  <2>7. stopped \in BOOLEAN
    BY DEF Init
  <2> QED
    BY <2>1, <2>3, <2>4, <2>5, <2>6, <2>7 DEF BatcherTyped
<1> QED
  BY <1>1, <1>2, <1>3 DEF TypeInv

\* Every step keeps the types.
LEMMA NextTyped ==
  ASSUME TypeInv, [Next]_vars
  PROVE  TypeInv'
<1>1. CASE UNCHANGED vars
  BY <1>1 DEF vars, clientVars, netVars, batcherVars, chainVars, TypeInv, ClientTyped,
              NetTyped, BatcherTyped
<1>2. CASE Next
  <2>1. ClientTyped'
    <3>1. CASE ClientStep
      BY <3>1, StartTyped, MessageTyped, EndTyped DEF ClientStep
    <3>2. CASE BatcherStep \/ NetworkStep
      <4>1. UNCHANGED clientVars
        BY <3>2 DEF BatcherStep, NetworkStep, HandleSubmitProof, AnswerBusy, RefuseMessage,
             RefuseSubmitProof, ExtractBatch, TaskCreated, RevertPasses, SendResponse,
             ClientBlocks, PostingFails, Restore, RestoreBlocks, FlushQueue, Evict, EvictLast, Stop, ConnectionLost, CloseFrame, VerifyBatch
      <4> QED
        BY <4>1 DEF clientVars, TypeInv, ClientTyped
    <3> QED
      BY <1>2, <3>1, <3>2 DEF Next
  <2>2. NetTyped'
    BY <1>2, ClientNet, BatcherNet, NetworkNet, SendNet, ResponseNet DEF Next
  <2>3. BatcherTyped'
    BY <1>2, BatcherKept
  <2> QED
    BY <2>1, <2>2, <2>3 DEF TypeInv
<1> QED
  BY <1>1, <1>2

\* The variables of the session have their types, for any number of bursts, proofs in
\* a burst and faults; a batch is kept exactly while it is posted.
THEOREM SessionTypeCorrect == Spec => []TypeOK
<1>1. TypeInv => TypeOK
  <2> SUFFICES ASSUME TypeInv PROVE TypeOK
    OBVIOUS
  <2> USE DEF TypeInv
  <2>1. \A r \in Rounds : Range(toBatcher[r]) \subseteq Entries
    BY RangeIs DEF NetTyped
  <2>2. Range(posting.batch) \subseteq Entries /\ Len(posting.batch) \in Nat
    BY RangeIs DEF BatcherTyped, PostingType
  <2>3. /\ posting.unsent \in 0..Len(posting.batch)
        /\ posting.pc \in {None, "sent", "created", "stuck"}
    BY <2>2 DEF BatcherTyped, PostingType
  <2>4. /\ client.pc \in {"idle", "connect", "send", "receive", "close", "await"}
        /\ client.api \in Apis /\ client.pending \subseteq Entries
        /\ client.size \in 1..MaxBurst
    BY DEF ClientTyped, ClientType
  <2> QED
    BY <2>1, <2>2, <2>3, <2>4 DEF TypeOK, ClientTyped, NetTyped, BatcherTyped
<1> QED
  BY <1>1, InitTyped, NextTyped, PTL DEF Spec

-----------------------------------------------------------------------------
(***************************************************************************)
(* Where the proofs of a burst can be, and what inclusion data says.       *)
(***************************************************************************)
\* Tasks are never taken back.
LEMMA TasksStay ==
  ASSUME Next
  PROVE  created \subseteq created' /\ verified \subseteq verified' /\ Mined \subseteq Mined'
BY DEF Mined, Next, ClientStep, BatcherStep, NetworkStep, GetNonce, GetNonceFails, Connect,
       ConnectFails, SendMessage, SendFails, ReceiveInclusion, ReceiveError, StreamEnds,
       Close, AwaitVerified, AwaitTimesOut, AwaitEnds, HandleSubmitProof, AnswerBusy, RefuseMessage,
       RefuseSubmitProof, ExtractBatch, TaskCreated, RevertPasses, SendResponse, ClientBlocks,
       PostingFails, Restore, RestoreBlocks, FlushQueue, Evict, EvictLast, Stop, ConnectionLost, CloseFrame, VerifyBatch, CreateTask, chainVars

\* Only the client moves the client's state.
LEMMA ClientStays ==
  ASSUME BatcherStep \/ NetworkStep
  PROVE  client' = client /\ round' = round /\ reports' = reports
BY DEF BatcherStep, NetworkStep, HandleSubmitProof, AnswerBusy, RefuseMessage, RefuseSubmitProof,
       ExtractBatch, TaskCreated, RevertPasses, SendResponse, ClientBlocks, PostingFails,
       Restore, RestoreBlocks, FlushQueue, Evict, EvictLast, Stop,
       ConnectionLost, CloseFrame, VerifyBatch, clientVars

\* Only the batcher moves the batcher's state.
LEMMA BatcherStays ==
  ASSUME ClientStep \/ NetworkStep
  PROVE  queue' = queue /\ posting' = posting
BY DEF ClientStep, NetworkStep, GetNonce, GetNonceFails, Connect, ConnectFails,
       SendMessage, SendFails, ReceiveInclusion, ReceiveError, StreamEnds, Close,
       AwaitVerified, AwaitTimesOut, AwaitEnds, ConnectionLost, CloseFrame, VerifyBatch,
       batcherVars

\* A burst that has begun stays so.
LEMMA BegunStays ==
  ASSUME TypeInv, Next, NEW r \in Rounds, NotBegun(r)'
  PROVE  NotBegun(r)
<1>1. round \in Nat /\ r \in Nat /\ client \in ClientType
  BY BurstAssumption DEF TypeInv, ClientTyped, Rounds
<1>2. CASE BatcherStep \/ NetworkStep
  BY <1>2, ClientStays DEF NotBegun
<1>3. ASSUME NEW api \in Calls, NEW n \in 1..MaxBurst, GetNonce(api, n)
      PROVE  NotBegun(r)
  BY <1>1, <1>3 DEF GetNonce, NotBegun
<1>4. CASE GetNonceFails
  BY <1>1, <1>4 DEF GetNonceFails, NotBegun
<1>5. CASE round' = round /\ client'.pc # "connect"
  BY <1>5 DEF NotBegun
<1>6. ASSUME NEW results, Return(results), round' = round
      PROVE  NotBegun(r)
  BY <1>6, <1>5, IdleTyped DEF Return
<1>7. CASE Connect \/ SendMessage \/ SendFails \/ ReceiveInclusion \/ ReceiveError \/ StreamEnds
  <2>1. round' = round /\ client'.pc # "connect"
    BY <1>1, <1>7 DEF Connect, SendMessage, SendFails, ReceiveInclusion, ReceiveError,
                      StreamEnds, AfterError, ClientType
  <2> QED
    BY <1>5, <2>1
<1>8. CASE Close
  <2>1. round' = round /\ (GoOn(client.results) \/ GoOn(<<Error>>))
    BY <1>8 DEF Close
  <2>2. ASSUME NEW results, client' = [client EXCEPT !.pc = "await", !.results = results]
        PROVE  client'.pc # "connect"
    BY <1>1, <2>2 DEF ClientType
  <2> QED
    BY <1>5, <1>6, <2>1, <2>2 DEF GoOn
<1>9. CASE AwaitVerified
  <2>1. PICK j : client' = [client EXCEPT !.checked = j]
    BY <1>9 DEF AwaitVerified
  <2>2. client'.pc # "connect" /\ round' = round
    BY <1>1, <1>9, <2>1 DEF AwaitVerified, ClientType
  <2> QED
    BY <1>5, <2>2
<1> QED
  BY <1>2, <1>3, <1>4, <1>6, <1>7, <1>8, <1>9
     DEF Next, ClientStep, ConnectFails, AwaitTimesOut, AwaitEnds

\* Entries come to the queue and the batch from a connection, or were there.
LEMMA EntriesStay ==
  ASSUME TypeInv, Next, NEW e \in queue' \cup Range(posting'.batch)
  PROVE  e \in queue \cup Range(posting.batch) \/ \E r \in Rounds : e \in Range(toBatcher[r])
<1>1. /\ posting \in PostingType /\ IsFiniteSet(queue) /\ queue \subseteq Entries
      /\ NotPosting.batch = <<>> /\ Range(<<>>) = {}
  BY DEF TypeInv, BatcherTyped, NotPosting, Range
<1>2. CASE ClientStep \/ NetworkStep
  BY <1>2, BatcherStays
<1>3. ASSUME NEW r \in Rounds,
             \/ HandleSubmitProof(r) \/ AnswerBusy(r)
             \/ RefuseMessage(r) \/ RefuseSubmitProof(r)
      PROVE  e \in queue \cup Range(posting.batch) \/ e \in Range(toBatcher[r])
  <2>1. /\ queue' = queue \cup {Head(toBatcher[r])} \/ queue' = queue
        /\ posting' = posting /\ toBatcher[r] # <<>>
    BY <1>3 DEF HandleSubmitProof, AnswerBusy, RefuseMessage, RefuseSubmitProof, batcherVars
  <2>2. Head(toBatcher[r]) \in Range(toBatcher[r])
    BY <1>3, <2>1, TailShortened DEF TypeInv, NetTyped
  <2> QED
    BY <2>1, <2>2
<1>4. CASE ExtractBatch
  <2>1. PICK S \in (SUBSET queue) \ {{}} :
          /\ \E b \in InQueueOrder(S) : posting' = [pc |-> "sent", batch |-> b, unsent |-> Len(b)]
          /\ queue' = queue \ S
    BY <1>4 DEF ExtractBatch
  <2>2. PICK b \in InQueueOrder(S) : posting' = [pc |-> "sent", batch |-> b, unsent |-> Len(b)]
    BY <2>1
  <2>3. IsFiniteSet(S) /\ S \in SUBSET Entries /\ S # {}
    BY <1>1, <2>1, FS_Subset
  <2>4. Range(b) \subseteq S
    BY <2>3, InQueueOrderIs
  <2> QED
    BY <2>1, <2>2, <2>4
<1>5. CASE TaskCreated \/ SendResponse \/ ClientBlocks
  <2>1. queue' = queue /\ (posting'.batch = posting.batch \/ posting'.batch = <<>>)
    BY <1>1, <1>5 DEF TaskCreated, SendResponse, ClientBlocks, PostingType
  <2> QED
    BY <1>1, <2>1
<1>6. CASE PostingFails \/ RestoreBlocks
  <2>1. \/ queue' \subseteq queue \cup Range(posting.batch) /\ posting' = NotPosting
        \/ queue' = queue /\ posting'.batch = posting.batch
    <3>1. CASE PostingFails
      BY <1>1, <3>1 DEF PostingFails, Restore, PostingType
    <3>2. CASE RestoreBlocks
      BY <3>2 DEF RestoreBlocks, Restore
    <3> QED
      BY <1>6, <3>1, <3>2
  <2> QED
    BY <1>1, <2>1
<1>7. CASE FlushQueue \/ Evict \/ EvictLast \/ Stop
  BY <1>1, <1>7 DEF FlushQueue, Evict, EvictLast, Stop
<1> QED
  BY <1>2, <1>3, <1>4, <1>5, <1>6, <1>7 DEF Next, BatcherStep

\* RoundsInv is kept.
LEMMA RoundsKept ==
  ASSUME TypeInv, RoundsInv, Next, TypeInv'
  PROVE  RoundsInv'
<1>1. toBatcher' \in [Rounds -> Seq(Entries)] /\ toBatcher \in [Rounds -> Seq(Entries)]
  BY DEF TypeInv, NetTyped
<1>2. ASSUME NEW r \in Rounds, NEW e \in Range(toBatcher[r])
      PROVE  e.round = r /\ ~NotBegun(r)
  <2>1. toBatcher[r] # <<>>
    BY <1>2 DEF Range
  <2> QED
    BY <1>2, <2>1 DEF RoundsInv
<1>3. ASSUME NEW e \in queue' \cup Range(posting'.batch)
      PROVE  ~NotBegun(e.round)'
  <2>1. e \in Entries
    BY <1>3, RangeIs DEF TypeInv, BatcherTyped, PostingType
  <2>2. ~NotBegun(e.round) /\ e.round \in Rounds
    BY <1>2, <1>3, <2>1, EntriesStay DEF RoundsInv, Entries
  <2> QED
    BY <2>2, BegunStays
<1>4. ASSUME Unadded, NEW r \in Rounds
      PROVE  /\ \A e \in Range(toBatcher'[r]) : e.round = r
             /\ NotBegun(r)' => toBatcher'[r] = <<>>
  <2>1. Range(toBatcher'[r]) \subseteq Range(toBatcher[r])
    BY <1>4 DEF Unadded, Shortened
  <2>2. \A e \in Range(toBatcher'[r]) : e.round = r
    BY <1>2, <2>1
  <2>3. ASSUME NotBegun(r)' PROVE toBatcher'[r] = <<>>
    <3>1. NotBegun(r)
      BY <2>3, BegunStays
    <3>2. Range(toBatcher'[r]) = {}
      BY <3>1, <1>2, <2>1
    <3>3. toBatcher'[r] \in Seq(Entries)
      BY <1>1
    <3>4. toBatcher'[r] # <<>> => Head(toBatcher'[r]) \in Range(toBatcher'[r])
      BY <3>3, TailShortened
    <3> QED
      BY <3>2, <3>4
  <2> QED
    BY <2>2, <2>3
<1>5. ASSUME Untold, NEW r \in Rounds, NotBegun(r)'
      PROVE  \A m \in Range(toClient'[r]) : m.kind # "inclusion"
  BY <1>5, BegunStays DEF Untold, NoNewInclusion, RoundsInv
<1>6. CASE ~SendMessage /\ ~SendResponse
  <2>1. Unadded /\ Untold
    BY <1>6, ClientNet, BatcherNet, NetworkNet DEF Next
  <2> QED
    BY <1>3, <1>4, <1>5, <2>1 DEF RoundsInv
<1>7. CASE SendMessage
  <2>1. PICK e \in Entries :
          /\ e.round = round
          /\ toBatcher' = [toBatcher EXCEPT ![round] = Append(toBatcher[round], e)]
    BY <1>7, SendNet
  <2>2. Untold /\ round \in Rounds
    BY <1>7, SendNet
  <2>3. Range(Append(toBatcher[round], e)) = Range(toBatcher[round]) \cup {e}
    BY <1>1, <2>2, AppendRange
  <2>4. \A r \in Rounds : \A f \in Range(toBatcher'[r]) : f.round = r
    BY <1>1, <1>2, <2>1, <2>2, <2>3
  <2>5. \A r \in Rounds : NotBegun(r)' => r # round /\ NotBegun(r)
    <3>1. client.pc = "send" /\ round \in Nat
      BY <1>7 DEF SendMessage, TypeInv, ClientTyped
    <3>2. ~NotBegun(round)
      BY <3>1 DEF NotBegun
    <3> QED
      BY <3>2, BegunStays
  <2>6. \A r \in Rounds : NotBegun(r)' => toBatcher'[r] = <<>>
    BY <1>1, <2>1, <2>5 DEF RoundsInv
  <2> QED
    BY <1>3, <1>5, <2>2, <2>4, <2>6 DEF RoundsInv
<1>8. CASE SendResponse
  <2> DEFINE e == posting.batch[posting.unsent]
             m == InclusionData(posting.batch, posting.unsent)
  <2>1. /\ Unadded /\ e \in Entries /\ m \in Messages
        /\ posting.unsent \in DOMAIN posting.batch
        /\ toClient' = Deliver(toClient, e.round, m)
    BY <1>8, ResponseNet
  <2>2. ~NotBegun(e.round) /\ e.round \in Rounds
    BY <2>1 DEF RoundsInv, Range, Entries
  <2>3. \A r \in Rounds : NotBegun(r)' => toClient'[r] = toClient[r] /\ NotBegun(r)
    BY <2>1, <2>2, BegunStays DEF Deliver, TypeInv, NetTyped
  <2> QED
    BY <1>3, <1>4, <2>1, <2>3 DEF RoundsInv
<1> QED
  BY <1>6, <1>7, <1>8

\* MessagesInv is kept.
LEMMA MessagesKept ==
  ASSUME TypeInv, MessagesInv, Next
  PROVE  MessagesInv'
<1>1. /\ posting \in PostingType /\ IsFiniteSet(queue) /\ queue \subseteq Entries
      /\ NotPosting.pc = None /\ NotPosting.batch = <<>> /\ None # "created"
  BY NoneAssumption DEF TypeInv, BatcherTyped, NotPosting
<1>2. posting'.pc = "created" => posting'.batch \in Mined'
  <2>1. CASE ClientStep \/ NetworkStep
    BY <2>1, BatcherStays, TasksStay DEF MessagesInv
  <2>2. CASE TaskCreated
    <3>1. posting'.batch = posting.batch
      BY <1>1, <2>2 DEF TaskCreated, PostingType
    <3>2. posting.batch \in Mined'
      <4>1. (CreateTask /\ UNCHANGED faults) \/ RevertPasses
        BY <2>2 DEF TaskCreated
      <4>2. created' = created \cup {posting.batch} \/ reverted' = reverted \cup {posting.batch}
        BY <4>1 DEF CreateTask, RevertPasses
      <4> QED
        BY <4>2 DEF Mined
    <3> QED
      BY <3>1, <3>2
  <2>6. CASE ClientBlocks \/ PostingFails \/ RestoreBlocks
    <3>1. posting'.pc \in {"stuck", None}
      BY <1>1, <2>6 DEF ClientBlocks, PostingFails, RestoreBlocks, Restore, PostingType
    <3> QED
      BY <1>1, <3>1
  <2>3. CASE posting' = posting \/ posting' = NotPosting
    BY <1>1, <2>3, TasksStay DEF MessagesInv
  <2>4. CASE ExtractBatch
    BY <2>4 DEF ExtractBatch
  <2>5. CASE SendResponse
    BY <1>1, <2>5, TasksStay DEF SendResponse, MessagesInv, PostingType
  <2> QED
    BY <2>1, <2>2, <2>3, <2>4, <2>5, <2>6
       DEF Next, BatcherStep, HandleSubmitProof, AnswerBusy, RefuseMessage, RefuseSubmitProof,
           FlushQueue, Evict, EvictLast, Stop, batcherVars
<1>3. \A i, j \in DOMAIN posting'.batch : i < j => Earlier(posting'.batch[j], posting'.batch[i])
  <2>1. CASE ClientStep \/ NetworkStep
    BY <2>1, BatcherStays DEF MessagesInv
  <2>2. CASE posting'.batch = posting.batch \/ posting'.batch = <<>>
    BY <2>2 DEF MessagesInv
  <2>3. CASE TaskCreated \/ SendResponse \/ ClientBlocks
    BY <1>1, <2>2, <2>3 DEF TaskCreated, SendResponse, ClientBlocks, PostingType
  <2>5. CASE PostingFails \/ RestoreBlocks
    BY <1>1, <2>2, <2>5 DEF PostingFails, RestoreBlocks, Restore, PostingType
  <2>4. CASE ExtractBatch
    <3>1. PICK S \in (SUBSET queue) \ {{}} :
            \E b \in InQueueOrder(S) : posting' = [pc |-> "sent", batch |-> b, unsent |-> Len(b)]
      BY <2>4 DEF ExtractBatch
    <3>2. PICK b \in InQueueOrder(S) : posting' = [pc |-> "sent", batch |-> b, unsent |-> Len(b)]
      BY <3>1
    <3> QED
      BY <3>2 DEF InQueueOrder
  <2> QED
    BY <1>1, <2>1, <2>2, <2>3, <2>4, <2>5
       DEF Next, BatcherStep, HandleSubmitProof, AnswerBusy, RefuseMessage, RefuseSubmitProof,
           FlushQueue, Evict, EvictLast, Stop, batcherVars
<1>4. CASE Untold
  <2> SUFFICES ASSUME NEW r \in Rounds, NEW m \in Range(toClient'[r]), m.kind = "inclusion"
               PROVE  /\ m.root \in Mined' /\ m.index \in DOMAIN m.root
                      /\ m.root[m.index].nonce = m.nonce /\ m.root[m.index].round = r
    BY <1>2, <1>3 DEF MessagesInv
  <2>1. m \in Range(toClient[r])
    BY <1>4 DEF Untold, NoNewInclusion
  <2> QED
    BY <2>1, TasksStay DEF MessagesInv
<1>5. CASE SendResponse
  <2> DEFINE j == posting.unsent
             e == posting.batch[j]
             x == InclusionData(posting.batch, j)
  <2>1. /\ e \in Entries /\ x \in Messages /\ j \in DOMAIN posting.batch
        /\ toClient' = Deliver(toClient, e.round, x) /\ posting.pc = "created"
    BY <1>5, ResponseNet
  <2> SUFFICES ASSUME NEW r \in Rounds, NEW m \in Range(toClient'[r]), m.kind = "inclusion"
               PROVE  /\ m.root \in Mined' /\ m.index \in DOMAIN m.root
                      /\ m.root[m.index].nonce = m.nonce /\ m.root[m.index].round = r
    BY <1>2, <1>3 DEF MessagesInv
  <2>2. CASE m \in Range(toClient[r])
    BY <2>2, TasksStay DEF MessagesInv
  <2>3. CASE m \notin Range(toClient[r])
    <3>1. r = e.round /\ toClient'[r] = Append(toClient[r], x)
      BY <2>1, <2>3 DEF Deliver, TypeInv, NetTyped
    <3>2. toClient[r] \in Seq(Messages)
      BY DEF TypeInv, NetTyped
    <3>3. m = x
      <4> HIDE DEF x
      <4>1. Range(Append(toClient[r], x)) = Range(toClient[r]) \cup {x}
        BY <2>1, <3>2, AppendRange
      <4> QED
        BY <2>3, <3>1, <4>1
    <3>4. x.root = posting.batch /\ x.index = j /\ x.nonce = e.nonce
      BY DEF InclusionData, IndexInBatch
    <3> QED
      BY <2>1, <3>1, <3>3, <3>4, TasksStay DEF MessagesInv
  <2> QED
    BY <2>2, <2>3
<1> QED
  BY <1>4, <1>5, ClientNet, BatcherNet, NetworkNet, SendNet DEF Next

-----------------------------------------------------------------------------
(***************************************************************************)
(* The burst that is being submitted.                                      *)
(***************************************************************************)
\* A message from the way to the queue.
LEMMA QueueingInOrder ==
  ASSUME NEW R, NEW C, NEW P, NEW Q, NEW B, InOrder(R, C, P, Q, B),
         NEW b \in B, NEW D \in SUBSET B, Below({b}, D)
  PROVE  InOrder(R, C, P, Q \cup {b}, D)
BY DEF InOrder, Below

\* Proofs from the queue to the batch.
LEMMA ExtractionInOrder ==
  ASSUME NEW R, NEW C, NEW Q, NEW B, InOrder(R, C, {}, Q, B),
         NEW P \in SUBSET Q, NEW S \in SUBSET Q, Below(P, S)
  PROVE  InOrder(R, C, P, S, B)
BY DEF InOrder, Below

\* Proofs from the batch back to the queue.
LEMMA RestoreInOrder ==
  ASSUME NEW R, NEW C, NEW P, NEW Q, NEW B, InOrder(R, C, P, Q, B), NEW S \in SUBSET (Q \cup P)
  PROVE  InOrder(R, C, {}, S, B)
BY DEF InOrder, Below

\* A proof from the batch to its client.
LEMMA ResponseInOrder ==
  ASSUME NEW R, NEW C, NEW P, NEW Q, NEW B, InOrder(R, C, P, Q, B),
         NEW e \in P, NEW S \in SUBSET P, Below({e}, S), NEW D \in SUBSET (C \cup {e})
  PROVE  InOrder(R, D, S, Q, B)
BY DEF InOrder, Below

\* A proof from the client's messages to the results.
LEMMA AnswerInOrder ==
  ASSUME NEW R, NEW C, NEW P, NEW Q, NEW B, InOrder(R, C, P, Q, B),
         NEW e \in C, NEW D \in SUBSET C, Below({e}, D)
  PROVE  InOrder(R \cup {e}, D, P, Q, B) /\ \A f \in D \cup P \cup Q \cup B : e.nonce < f.nonce
BY DEF InOrder, Below

\* Some of it is gone.
LEMMA LessInOrder ==
  ASSUME NEW R, NEW C, NEW P, NEW Q, NEW B, InOrder(R, C, P, Q, B),
         NEW D \in SUBSET C, NEW S \in SUBSET P, NEW T \in SUBSET Q, NEW U \in SUBSET B
  PROVE  InOrder(R, D, S, T, U)
BY DEF InOrder, Below

\* Without new inclusion data, no more was told.
LEMMA ToldLess ==
  ASSUME NEW r \in Rounds, Untold
  PROVE  /\ Told(r)' \subseteq Told(r)
         /\ AscendingInclusions(toClient[r]) => AscendingInclusions(toClient'[r])
BY DEF Untold, NoNewInclusion, Told

\* Without a new message, no more is under way.
LEMMA UnderwayLess ==
  ASSUME NEW r \in Rounds, Unadded
  PROVE  /\ Underway(r)' \subseteq Underway(r)
         /\ Ascending(toBatcher[r]) => Ascending(toBatcher'[r])
BY DEF Unadded, Shortened, Underway

\* A batch that is given up or posted has nothing to be answered.
LEMMA NothingPosted ==
  ASSUME TypeInv, NEW r, posting.pc = None
  PROVE  Posted(r) = {}
<1>1. posting.batch = <<>> /\ posting.unsent \in Nat /\ posting.unsent <= Len(posting.batch)
  BY DEF TypeInv, BatcherTyped, PostingType
<1>2. 1..posting.unsent = {}
  BY <1>1
<1> QED
  BY <1>2 DEF Posted

\* Steps of the network: messages are lost.
LEMMA NetworkPlaces ==
  ASSUME TypeInv, PlacesInv, NetworkStep, round \in Rounds
  PROVE  PlacesInv'
<1>1. client' = client /\ round' = round /\ queue' = queue /\ posting' = posting
  BY ClientStays, BatcherStays
<1>2. Untold /\ Unadded
  BY NetworkNet
<1>3. /\ Posted(round)' = Posted(round) /\ Queued(round)' = Queued(round)
      /\ Told(round)' \subseteq Told(round) /\ Underway(round)' \subseteq Underway(round)
  BY <1>1, <1>2, ToldLess, UnderwayLess DEF Posted, Queued
<1>4. InOrder(Answered(client.results), Told(round)', Posted(round)', Queued(round)', Underway(round)')
  BY <1>3, LessInOrder DEF PlacesInv
<1> QED
  BY <1>1, <1>2, <1>3, <1>4, ToldLess, UnderwayLess DEF PlacesInv

\* The batcher takes a message.
LEMMA HandlePlaces ==
  ASSUME TypeInv, RoundsInv, PlacesInv, round \in Rounds, NEW r \in Rounds,
         HandleSubmitProof(r) \/ AnswerBusy(r) \/ RefuseMessage(r) \/ RefuseSubmitProof(r)
  PROVE  PlacesInv'
<1> DEFINE e == Head(toBatcher[r])
<1>1. /\ client' = client /\ round' = round /\ posting' = posting
      /\ toBatcher[r] # <<>> /\ toBatcher' = [toBatcher EXCEPT ![r] = Tail(toBatcher[r])]
      /\ queue' = queue \/ (queue' = queue \cup {e})
  BY DEF HandleSubmitProof, AnswerBusy, RefuseMessage, RefuseSubmitProof, clientVars, batcherVars
<1>2. Untold /\ Unadded
  <2>1. BatcherStep /\ ~SendResponse
    <3>1. toBatcher' # toBatcher
      <4>1. toBatcher \in [Rounds -> Seq(Entries)]
        BY DEF TypeInv, NetTyped
      <4>2. Len(Tail(toBatcher[r])) # Len(toBatcher[r])
        BY <1>1, <4>1, HeadTailProperties, LenProperties
      <4> QED
        BY <1>1, <4>1, <4>2
    <3> QED
      BY <3>1 DEF BatcherStep, SendResponse
  <2> QED
    BY <2>1, BatcherNet
<1>3. toBatcher[r] \in Seq(Entries)
  BY DEF TypeInv, NetTyped
<1>4. e \in Range(toBatcher[r]) /\ e.round = r
  BY <1>1, <1>3, TailShortened DEF RoundsInv
<1>5. Told(round)' \subseteq Told(round) /\ Posted(round)' = Posted(round)
  BY <1>1, <1>2, ToldLess DEF Posted
<1>6. CASE r = round /\ queue' = queue \cup {e}
  <2>1. Queued(round)' = Queued(round) \cup {e} /\ e \in Underway(round)
    BY <1>1, <1>4, <1>6 DEF Queued, Underway
  <2>2. Underway(round)' = Range(Tail(toBatcher[r]))
    BY <1>1, <1>6 DEF Underway, TypeInv, NetTyped
  <2>3. Below({e}, Underway(round)')
    <3> SUFFICES ASSUME NEW f \in Range(Tail(toBatcher[r])) PROVE e.nonce < f.nonce
      BY <2>2 DEF Below
    <3>1. PICK i \in 1..Len(toBatcher[r]) : 1 < i /\ f = toBatcher[r][i]
      BY <1>1, <1>3, TailShortened
    <3>2. e = toBatcher[r][1] /\ Len(toBatcher[r]) \in Nat
      BY <1>1, <1>3, TailShortened, LenProperties
    <3> QED
      BY <1>6, <3>1, <3>2 DEF PlacesInv, Ascending
  <2>4. Underway(round)' \subseteq Underway(round)
    BY <1>1, <1>2, UnderwayLess
  <2>5. InOrder(Answered(client.results), Told(round), Posted(round), Queued(round)', Underway(round)')
    BY <2>1, <2>3, <2>4, QueueingInOrder DEF PlacesInv
  <2>6. InOrder(Answered(client.results), Told(round)', Posted(round)', Queued(round)', Underway(round)')
    BY <1>5, <2>5, LessInOrder
  <2> QED
    BY <1>1, <1>2, <1>5, <2>1, <2>4, <2>6, ToldLess, UnderwayLess DEF PlacesInv
<1>7. CASE ~(r = round /\ queue' = queue \cup {e})
  <2>1. Queued(round)' = Queued(round)
    BY <1>1, <1>4, <1>7 DEF Queued
  <2>2. Underway(round)' \subseteq Underway(round)
    BY <1>1, <1>2, UnderwayLess
  <2>3. InOrder(Answered(client.results), Told(round)', Posted(round)', Queued(round)', Underway(round)')
    BY <1>5, <2>1, <2>2, LessInOrder DEF PlacesInv
  <2> QED
    BY <1>1, <1>2, <1>5, <2>1, <2>2, <2>3, ToldLess, UnderwayLess DEF PlacesInv
<1> QED
  BY <1>6, <1>7

\* The batcher extracts a batch.
LEMMA ExtractPlaces ==
  ASSUME TypeInv, PlacesInv, round \in Rounds, ExtractBatch
  PROVE  PlacesInv'
<1>1. /\ client' = client /\ round' = round /\ toBatcher' = toBatcher /\ toClient' = toClient
      /\ posting.pc = None
  BY DEF ExtractBatch, clientVars, netVars
<1>2. PICK S \in (SUBSET queue) \ {{}} :
        /\ \A e \in S, f \in queue \ S : Earlier(e, f)
        /\ \E b \in InQueueOrder(S) : posting' = [pc |-> "sent", batch |-> b, unsent |-> Len(b)]
        /\ queue' = queue \ S
  BY DEF ExtractBatch
<1>3. PICK b \in InQueueOrder(S) : posting' = [pc |-> "sent", batch |-> b, unsent |-> Len(b)]
  BY <1>2
<1>4. S \subseteq queue /\ S # {} /\ IsFiniteSet(queue) /\ queue \subseteq Entries
  BY <1>2 DEF TypeInv, BatcherTyped
<1>5. IsFiniteSet(S) /\ S \in SUBSET Entries
  BY <1>4, FS_Subset
<1>6. Range(b) \subseteq S /\ DOMAIN b = 1..Len(b)
  BY <1>4, <1>5, InQueueOrderIs
<1>7. Posted(round)' \subseteq {e \in S : e.round = round}
  BY <1>1, <1>3, <1>6 DEF Posted, Range
<1>8. Queued(round)' = {e \in queue \ S : e.round = round}
  BY <1>1, <1>2 DEF Queued
<1>9. Posted(round)' \subseteq Queued(round) /\ Queued(round)' \subseteq Queued(round)
  BY <1>4, <1>7, <1>8 DEF Queued
<1>10. Below(Posted(round)', Queued(round)')
  BY <1>2, <1>4, <1>5, <1>7, <1>8 DEF Below, Earlier, Entries, Rounds
<1>11. Posted(round) = {}
  BY <1>1, NothingPosted
<1>12. Told(round)' = Told(round) /\ Underway(round)' = Underway(round)
  BY <1>1 DEF Told, Underway
<1>13. InOrder(Answered(client.results), Told(round)', Posted(round)', Queued(round)', Underway(round)')
  BY <1>9, <1>10, <1>11, <1>12, ExtractionInOrder DEF PlacesInv
<1> QED
  BY <1>1, <1>9, <1>12, <1>13 DEF PlacesInv

\* A batch that is answered, given up, or flushed, and proofs that are evicted.
LEMMA PostingPlaces ==
  ASSUME TypeInv, PlacesInv, round \in Rounds,
         \/ TaskCreated \/ ClientBlocks \/ PostingFails \/ RestoreBlocks
         \/ FlushQueue \/ Evict \/ EvictLast \/ Stop
  PROVE  PlacesInv'
<1>1. client' = client /\ round' = round /\ toBatcher' = toBatcher
  BY DEF TaskCreated, ClientBlocks, PostingFails, RestoreBlocks, FlushQueue, Evict, EvictLast,
         Stop, clientVars, netVars
<1>2. Untold
  <2>1. CASE FlushQueue \/ Evict
    <3>1. ~SendResponse
      BY <2>1, FaultAssumption DEF FlushQueue, Evict, Fault, SendResponse, TypeInv, BatcherTyped
    <3> QED
      BY <2>1, <3>1, BatcherNet DEF BatcherStep
  <2>2. CASE TaskCreated \/ ClientBlocks \/ PostingFails \/ RestoreBlocks \/ EvictLast \/ Stop
    <3>1. UNCHANGED netVars
      BY <2>2 DEF TaskCreated, ClientBlocks, PostingFails, RestoreBlocks, EvictLast, Stop
    <3> QED
      BY <3>1, SameBoxes DEF netVars, Untold
  <2> QED
    BY <2>1, <2>2
<1>3. Told(round)' \subseteq Told(round) /\ Underway(round)' = Underway(round)
  BY <1>1, <1>2, ToldLess DEF Underway
<1>4. posting \in PostingType
  BY DEF TypeInv, BatcherTyped
<1>5. CASE Posted(round)' \subseteq Posted(round) /\ Queued(round)' \subseteq Queued(round)
  <2>1. InOrder(Answered(client.results), Told(round)', Posted(round)', Queued(round)', Underway(round)')
    BY <1>3, <1>5, LessInOrder DEF PlacesInv
  <2> QED
    BY <1>1, <1>2, <1>3, <1>5, <2>1, ToldLess DEF PlacesInv
<1>6. NotPosting.unsent = 0
  BY DEF NotPosting
<1>7. posting' = NotPosting => Posted(round)' = {}
  BY <1>6 DEF Posted
<1>8. CASE queue' = queue /\ posting'.batch = posting.batch /\ posting'.unsent = posting.unsent
  BY <1>1, <1>5, <1>8 DEF Posted, Queued
<1>11. CASE TaskCreated \/ ClientBlocks
  BY <1>4, <1>8, <1>11 DEF TaskCreated, ClientBlocks, PostingType
<1>9. CASE FlushQueue \/ Evict \/ EvictLast \/ Stop
  <2>1. queue' \subseteq queue /\ (posting' = posting \/ posting' = NotPosting)
    BY <1>9 DEF FlushQueue, Evict, EvictLast, Stop
  <2>2. Queued(round)' \subseteq Queued(round)
    BY <1>1, <2>1 DEF Queued
  <2>3. posting' = posting => Posted(round)' = Posted(round)
    BY <1>1 DEF Posted
  <2> QED
    BY <1>5, <1>7, <2>1, <2>2, <2>3
<1>10. ASSUME NEW back \in SUBSET Range(posting.batch), NEW evicted, Restore(back, evicted),
              posting.pc = "sent"
       PROVE  PlacesInv'
  <2>1. /\ queue' \subseteq queue \cup Range(posting.batch) /\ posting' = NotPosting
        /\ posting.pc = "sent"
    BY <1>10 DEF Restore
  <2>2. /\ posting.unsent = Len(posting.batch) /\ posting.batch \in Seq(Entries)
    BY <1>4, <2>1 DEF TypeInv, BatcherTyped, PostingType
  <2>3. DOMAIN posting.batch = 1..posting.unsent
    BY <2>2, LenProperties
  <2>4. Queued(round)' \subseteq Queued(round) \cup Posted(round)
    BY <1>1, <2>1, <2>3 DEF Queued, Posted, Range
  <2>5. Posted(round)' = {}
    BY <1>7, <2>1
  <2>6. InOrder(Answered(client.results), Told(round), Posted(round)', Queued(round)', Underway(round)')
    BY <1>3, <2>4, <2>5, RestoreInOrder DEF PlacesInv
  <2>7. InOrder(Answered(client.results), Told(round)', Posted(round)', Queued(round)', Underway(round)')
    BY <1>3, <2>6, LessInOrder
  <2> QED
    BY <1>1, <1>2, <1>3, <2>4, <2>5, <2>7, ToldLess DEF PlacesInv
<1>12. CASE PostingFails
  <2>1. CASE stopped
    BY <1>4, <1>8, <1>12, <2>1 DEF PostingFails, PostingType
  <2>2. CASE ~stopped
    <3>1. posting.pc = "sent" /\ \E back \in SUBSET Range(posting.batch) : Restore(back, {})
      BY <1>12, <2>2 DEF PostingFails
    <3> QED
      BY <1>10, <3>1
  <2> QED
    BY <2>1, <2>2
<1>13. CASE RestoreBlocks
  <2>1. /\ posting.pc = "sent"
        /\ \E back \in SUBSET Range(posting.batch), evicted \in {{}} \cup {{e} : e \in queue} :
             Restore(back, evicted)
    BY <1>13 DEF RestoreBlocks
  <2> QED
    BY <1>10, <2>1
<1> QED
  BY <1>9, <1>11, <1>12, <1>13

\* The batcher answers a client.
LEMMA ResponsePlaces ==
  ASSUME TypeInv, MessagesInv, PlacesInv, round \in Rounds, SendResponse
  PROVE  PlacesInv'
<1> DEFINE j == posting.unsent
           e == posting.batch[j]
           x == InclusionData(posting.batch, j)
<1>1. /\ client' = client /\ round' = round /\ toBatcher' = toBatcher /\ queue' = queue
      /\ posting' = IF j = 1 THEN NotPosting ELSE [posting EXCEPT !.unsent = j - 1]
  BY DEF SendResponse, clientVars
<1>2. /\ e \in Entries /\ x \in Messages /\ j \in DOMAIN posting.batch
      /\ j \in 1..Len(posting.batch) /\ j \in Nat /\ Len(posting.batch) \in Nat
      /\ toClient' = Deliver(toClient, e.round, x)
  BY ResponseNet, LenProperties DEF TypeInv, BatcherTyped, PostingType
<1>3. x.kind = "inclusion" /\ x.nonce = e.nonce /\ x.root[x.index] = e
  BY DEF InclusionData, IndexInBatch
<1> HIDE DEF x
<1>4. /\ Queued(round)' = Queued(round) /\ Underway(round)' = Underway(round)
  BY <1>1 DEF Queued, Underway
<1>5. \A f \in Posted(round)' : \E i \in 1..(j - 1) : f = posting.batch[i] /\ f.round = round
  <2>1. CASE j = 1
    <3>1. posting'.unsent = 0
      BY <1>1, <2>1 DEF NotPosting
    <3> QED
      BY <3>1 DEF Posted
  <2>2. CASE j # 1
    <3>1. posting'.unsent = j - 1 /\ posting'.batch = posting.batch
      BY <1>1, <2>2 DEF TypeInv, BatcherTyped, PostingType
    <3> QED
      BY <1>1, <3>1 DEF Posted
  <2> QED
    BY <2>1, <2>2
<1>6. Posted(round)' \subseteq Posted(round)
  <2>1. \A i \in 1..(j - 1) : i \in 1..j
    BY <1>2
  <2>2. \A i \in 1..j : posting.batch[i].round = round => posting.batch[i] \in Posted(round)
    BY DEF Posted
  <2> QED
    BY <1>5, <2>1, <2>2
<1>7. toClient \in [Rounds -> Seq(Messages)] /\ toClient[round] \in Seq(Messages)
  BY DEF TypeInv, NetTyped
<1>8. CASE toClient'[round] = toClient[round]
  <2>1. Told(round)' = Told(round)
    BY <1>1, <1>8 DEF Told
  <2>2. InOrder(Answered(client.results), Told(round)', Posted(round)', Queued(round)', Underway(round)')
    BY <1>4, <1>6, <2>1, LessInOrder DEF PlacesInv
  <2> QED
    BY <1>1, <1>4, <1>6, <1>8, <2>1, <2>2 DEF PlacesInv
<1>9. CASE toClient'[round] # toClient[round]
  <2>1. e.round = round /\ toClient'[round] = Append(toClient[round], x)
    BY <1>2, <1>7, <1>9 DEF Deliver
  <2>2. e \in Posted(round)
    BY <1>2, <2>1 DEF Posted
  <2>3. Range(toClient'[round]) = Range(toClient[round]) \cup {x}
    <3>1. Range(Append(toClient[round], x)) = Range(toClient[round]) \cup {x}
      BY <1>2, <1>7, AppendRange
    <3> QED
      BY <2>1, <3>1
  <2>4. Told(round)' \subseteq Told(round) \cup {e}
    BY <1>1, <1>3, <2>3 DEF Told
  <2>5. Below({e}, Posted(round)')
    <3> SUFFICES ASSUME NEW f \in Posted(round)' PROVE e.nonce < f.nonce
      BY DEF Below
    <3>1. PICK i \in 1..(j - 1) : f = posting.batch[i] /\ f.round = round
      BY <1>5
    <3>2. i \in DOMAIN posting.batch /\ i < j
      BY <1>2, LenProperties DEF TypeInv, BatcherTyped, PostingType
    <3>3. Earlier(e, f)
      BY <1>2, <3>1, <3>2 DEF MessagesInv
    <3> QED
      BY <2>1, <3>1, <3>3 DEF Earlier, Rounds
  <2>6. InOrder(Answered(client.results), Told(round)', Posted(round)', Queued(round)', Underway(round)')
    BY <1>4, <1>6, <2>2, <2>4, <2>5, ResponseInOrder DEF PlacesInv
  <2>7. AscendingInclusions(toClient'[round])
    <3>1. ASSUME NEW i \in 1..Len(toClient[round]), toClient[round][i].kind = "inclusion"
          PROVE  toClient[round][i].nonce < x.nonce
      <4> DEFINE m == toClient[round][i]
      <4>1. m \in Range(toClient[round])
        BY <1>7, RangeIs
      <4>2. m.root[m.index] \in Told(round) /\ m.root[m.index].nonce = m.nonce
        BY <3>1, <4>1 DEF Told, MessagesInv
      <4> QED
        BY <1>3, <2>2, <4>2 DEF PlacesInv, InOrder, Below
    <3>2. /\ Len(toClient[round]) \in Nat /\ Len(toClient'[round]) = Len(toClient[round]) + 1
          /\ \A i \in 1..Len(toClient[round]) : toClient'[round][i] = toClient[round][i]
          /\ toClient'[round][Len(toClient[round]) + 1] = x
      <4>1. toClient[round] \in Seq(Messages) /\ x \in Messages
        BY <1>2, <1>7
      <4> QED
        BY <2>1, <4>1, AppendRange, LenProperties
    <3>3. AscendingInclusions(toClient[round])
      BY DEF PlacesInv
    <3>4. SUFFICES ASSUME NEW i \in 1..(Len(toClient[round]) + 1),
                          NEW k \in 1..(Len(toClient[round]) + 1), i < k,
                          toClient'[round][i].kind = "inclusion",
                          toClient'[round][k].kind = "inclusion"
                   PROVE  toClient'[round][i].nonce < toClient'[round][k].nonce
      BY <3>2 DEF AscendingInclusions
    <3>5. i \in 1..Len(toClient[round])
      BY <3>2, <3>4
    <3>6. CASE k \in 1..Len(toClient[round])
      BY <3>2, <3>3, <3>4, <3>5, <3>6 DEF AscendingInclusions
    <3>7. CASE k = Len(toClient[round]) + 1
      BY <3>1, <3>2, <3>4, <3>5, <3>7
    <3> QED
      BY <3>2, <3>6, <3>7
  <2> QED
    BY <1>1, <1>4, <1>6, <2>2, <2>4, <2>6, <2>7 DEF PlacesInv
<1> QED
  BY <1>8, <1>9

\* The client sends a message.
LEMMA SendPlaces ==
  ASSUME TypeInv, PendingInv, PlacesInv, SendMessage
  PROVE  PendingInv' /\ PlacesInv'
<1>1. PICK e \in Entries :
        /\ e.nonce = client.base + Len(client.sent) /\ e.round = round
        /\ client'.pending = client.pending \cup {e} /\ client'.base = client.base
        /\ Len(client'.sent) = Len(client.sent) + 1
        /\ toBatcher' = [toBatcher EXCEPT ![round] = Append(toBatcher[round], e)]
  BY SendNet
<1>2. /\ round' = round /\ toClient' = toClient /\ queue' = queue /\ posting' = posting
      /\ client.pc = "send" /\ client.results = <<>> /\ client'.results = client.results
  BY DEF SendMessage, batcherVars, TypeInv, ClientTyped, ClientType
<1>3. /\ client.base \in Nat /\ Len(client.sent) \in Nat /\ round \in Rounds
      /\ client.pending \subseteq Entries
      /\ toBatcher \in [Rounds -> Seq(Entries)] /\ toBatcher[round] \in Seq(Entries)
  BY <1>2, LenProperties DEF TypeInv, ClientTyped, ClientType, NetTyped
<1>4. PendingInv'
  <2>1. \A f \in client'.pending : f.round = round' /\ f.nonce < client'.base + Len(client'.sent)
    <3>1. \A f \in client.pending : f.round = round /\ f.nonce \in Nat
                                   /\ f.nonce < client.base + Len(client.sent)
      BY <1>3 DEF PendingInv, Entries
    <3>2. client'.base + Len(client'.sent) = client.base + Len(client.sent) + 1
      BY <1>1, <1>3
    <3> QED
      BY <1>1, <1>2, <1>3, <3>1, <3>2
  <2>2. \A f \in client.pending : f.nonce < e.nonce
    BY <1>1 DEF PendingInv
  <2>3. \A f, g \in client'.pending : f.nonce = g.nonce => f = g
    BY <1>1, <1>3, <2>2 DEF PendingInv, Entries
  <2>4. \A j \in DOMAIN client'.results : client'.results[j].ok
    BY <1>2
  <2> QED
    BY <2>1, <2>3, <2>4 DEF PendingInv
<1>5. toBatcher'[round] = Append(toBatcher[round], e)
  BY <1>1, <1>3
<1>6. Underway(round)' = Underway(round) \cup {e}
  <2>1. Range(Append(toBatcher[round], e)) = Range(toBatcher[round]) \cup {e}
    BY <1>3, AppendRange
  <2> QED
    BY <1>2, <1>5, <2>1 DEF Underway
<1>7. /\ Told(round)' = Told(round) /\ Posted(round)' = Posted(round)
      /\ Queued(round)' = Queued(round)
  BY <1>2 DEF Told, Posted, Queued
<1>8. \A f \in Told(round) \cup Posted(round) \cup Queued(round) \cup Underway(round) :
        f.nonce < e.nonce
  BY <1>1 DEF PlacesInv, PendingInv
<1>9. Answered(client.results) = {}
  BY <1>2 DEF Answered, Included
<1>10. InOrder(Answered(client'.results), Told(round)', Posted(round)', Queued(round)', Underway(round)')
  BY <1>2, <1>6, <1>7, <1>8, <1>9 DEF PlacesInv, InOrder, Below
<1>11. Ascending(toBatcher'[round])
  <2>1. /\ Len(toBatcher[round]) \in Nat /\ Len(toBatcher'[round]) = Len(toBatcher[round]) + 1
        /\ \A i \in 1..Len(toBatcher[round]) : toBatcher'[round][i] = toBatcher[round][i]
        /\ toBatcher'[round][Len(toBatcher[round]) + 1] = e
    BY <1>3, <1>5, AppendRange, LenProperties
  <2>2. \A i \in 1..Len(toBatcher[round]) : toBatcher[round][i].nonce < e.nonce
    BY <1>3, <1>8, RangeIs DEF Underway
  <2>3. Ascending(toBatcher[round])
    BY DEF PlacesInv
  <2> SUFFICES ASSUME NEW i \in 1..Len(toBatcher'[round]), NEW j \in 1..Len(toBatcher'[round]), i < j
               PROVE  toBatcher'[round][i].nonce < toBatcher'[round][j].nonce
    BY DEF Ascending
  <2>4. i \in 1..Len(toBatcher[round]) /\ toBatcher'[round][i] = toBatcher[round][i]
    BY <2>1
  <2>5. CASE j = Len(toBatcher[round]) + 1
    BY <2>1, <2>2, <2>4, <2>5
  <2>6. CASE j \in 1..Len(toBatcher[round])
    BY <2>1, <2>3, <2>4, <2>6 DEF Ascending
  <2> QED
    BY <2>1, <2>5, <2>6
<1>12. Told(round)' \cup Posted(round)' \cup Queued(round)' \cup Underway(round)'
         \subseteq client'.pending
  BY <1>1, <1>6, <1>7 DEF PlacesInv
<1> QED
  BY <1>2, <1>4, <1>10, <1>11, <1>12 DEF PlacesInv

\* The inclusion data that a client takes is that of one of its proofs.
LEMMA AnswerIs ==
  ASSUME TypeInv, MessagesInv, PendingInv, PlacesInv, round \in Rounds,
         NEW m \in Range(toClient[round]), m.kind = "inclusion"
  PROVE  /\ m.root[m.index] \in client.pending
         /\ Matches(m) = {m.root[m.index]}
         /\ Answer(m) = Ok(m.root[m.index], m.root, m.index)
         /\ m.root[m.index] \in Range(m.root) /\ m.root \in Mined
         /\ m.root[m.index].round = round /\ m.root[m.index].nonce = m.nonce
<1> DEFINE e == m.root[m.index]
<1>1. /\ m.root \in Mined /\ m.index \in DOMAIN m.root /\ e.nonce = m.nonce /\ e.round = round
  BY DEF MessagesInv
<1>2. e \in Told(round)
  BY DEF Told
<1>3. e \in client.pending
  BY <1>2 DEF PlacesInv
<1>4. Matches(m) = {e}
  BY <1>1, <1>3 DEF Matches, PendingInv
<1>5. ProofIsIncluded(e, m)
  BY <1>1 DEF ProofIsIncluded
<1>6. (CHOOSE f \in Matches(m) : TRUE) = e
  BY <1>4
<1>7. Answer(m) = Ok(e, m.root, m.index)
  BY <1>4, <1>5, <1>6 DEF Answer
<1> QED
  BY <1>1, <1>3, <1>4, <1>7 DEF Range

\* The client takes inclusion data.
LEMMA ReceivePlaces ==
  ASSUME TypeInv, MessagesInv, PendingInv, PlacesInv, ReceiveInclusion
  PROVE  PendingInv' /\ PlacesInv'
<1> DEFINE m == Head(toClient[round])
           e == m.root[m.index]
<1>1. /\ client.pc = "receive" /\ toClient[round] # <<>> /\ m.kind = "inclusion"
      /\ round' = round /\ toBatcher' = toBatcher /\ queue' = queue /\ posting' = posting
      /\ toClient' = [toClient EXCEPT ![round] = Tail(toClient[round])]
  BY DEF ReceiveInclusion, batcherVars
<1>2. /\ client \in ClientType /\ round \in Rounds /\ client.results \in Seq(Results)
      /\ toClient \in [Rounds -> Seq(Messages)] /\ toClient[round] \in Seq(Messages)
  BY <1>1 DEF TypeInv, ClientTyped, ClientType, NetTyped
<1>3. /\ m \in Range(toClient[round]) /\ m = toClient[round][1]
      /\ \A x \in Range(Tail(toClient[round])) :
           \E i \in 1..Len(toClient[round]) : 1 < i /\ x = toClient[round][i]
      /\ NoNewInclusion(toClient[round], Tail(toClient[round]))
      /\ Len(toClient[round]) \in Nat /\ Len(toClient[round]) > 0
  BY <1>1, <1>2, TailShortened, EmptySeq, LenProperties
<1>4. /\ e \in client.pending /\ Matches(m) = {e} /\ Answer(m) = Ok(e, m.root, m.index)
      /\ e.nonce = m.nonce
  BY <1>1, <1>2, <1>3, AnswerIs
<1>5. /\ client'.pending = client.pending \ {e} /\ client'.sent = client.sent
      /\ client'.base = client.base
      /\ client'.results = Append(client.results, Answer(m))
  BY <1>2, <1>4 DEF ReceiveInclusion, ClientType
<1> HIDE DEF m
<1>6. Answer(m) \in Results /\ Answer(m).ok /\ Answer(m).proof = e
  <2>1. m \in Messages
    BY <1>2, <1>3, RangeIs
  <2>2. \A f, root, index : Ok(f, root, index).ok /\ Ok(f, root, index).proof = f
    BY DEF Ok
  <2>3. Answer(m) \in Results
    BY <1>1, <1>2, <2>1, AnswerTyped
  <2> QED
    BY <1>4, <2>2, <2>3
<1>7. /\ Len(client'.results) = Len(client.results) + 1 /\ client'.results \in Seq(Results)
      /\ \A i \in 1..Len(client.results) : client'.results[i] = client.results[i]
      /\ client'.results[Len(client.results) + 1] = Answer(m)
      /\ Len(client.results) \in Nat
      /\ DOMAIN client'.results = 1..Len(client'.results)
      /\ DOMAIN client.results = 1..Len(client.results)
  BY <1>2, <1>5, <1>6, AppendProperties, LenProperties
<1>8. PendingInv'
  <2>1. \A i \in DOMAIN client'.results : client'.results[i].ok
    <3>1. \A i \in 1..Len(client.results) : client.results[i].ok
      BY <1>1, <1>7 DEF PendingInv
    <3>2. \A i \in 1..(Len(client.results) + 1) :
            i \in 1..Len(client.results) \/ i = Len(client.results) + 1
      BY <1>7
    <3> QED
      BY <1>6, <1>7, <3>1, <3>2
  <2> QED
    BY <1>1, <1>5, <2>1 DEF PendingInv
<1>9. Answered(client'.results) \subseteq Answered(client.results) \cup {e}
  BY <1>6, <1>7 DEF Answered, Included
<1>10. toClient'[round] = Tail(toClient[round])
  BY <1>1, <1>2
<1>11. Told(round)' \subseteq Told(round) /\ e \in Told(round)
  BY <1>1, <1>3, <1>10 DEF Told, NoNewInclusion
<1>12. Below({e}, Told(round)')
  <2> SUFFICES ASSUME NEW x \in Range(Tail(toClient[round])), x.kind = "inclusion"
               PROVE  e.nonce < x.root[x.index].nonce
    BY <1>1, <1>10 DEF Below, Told
  <2>1. PICK i \in 1..Len(toClient[round]) : 1 < i /\ x = toClient[round][i]
    BY <1>3
  <2>2. m.nonce < x.nonce
    BY <1>1, <1>3, <2>1 DEF PlacesInv, AscendingInclusions
  <2>3. x \in Range(toClient[round])
    BY <1>3 DEF NoNewInclusion
  <2>4. x.root[x.index].nonce = x.nonce
    BY <1>2, <2>3 DEF MessagesInv
  <2> QED
    BY <1>4, <2>2, <2>4
<1>13. /\ Posted(round)' = Posted(round) /\ Queued(round)' = Queued(round)
       /\ Underway(round)' = Underway(round)
  BY <1>1 DEF Posted, Queued, Underway
<1>14. /\ InOrder(Answered(client.results) \cup {e}, Told(round)', Posted(round)', Queued(round)',
                  Underway(round)')
       /\ \A f \in Told(round)' \cup Posted(round)' \cup Queued(round)' \cup Underway(round)' :
            e.nonce < f.nonce
  <2> HIDE DEF e
  <2>1. InOrder(Answered(client.results), Told(round), Posted(round)', Queued(round)', Underway(round)')
    BY <1>13 DEF PlacesInv
  <2> QED
    BY <1>11, <1>12, <2>1, AnswerInOrder
<1>15. InOrder(Answered(client'.results), Told(round)', Posted(round)', Queued(round)',
               Underway(round)')
  BY <1>9, <1>14 DEF InOrder, Below
<1>16. e \notin Told(round)' \cup Posted(round)' \cup Queued(round)' \cup Underway(round)'
  <2>1. ~(e.nonce < e.nonce)
    BY <1>2, <1>4 DEF ClientType, Entries
  <2> QED
    BY <1>14, <2>1
<1>17. Told(round)' \cup Posted(round)' \cup Queued(round)' \cup Underway(round)'
         \subseteq client'.pending
  BY <1>5, <1>11, <1>13, <1>16 DEF PlacesInv
<1>18. Ascending(toBatcher'[round]) /\ AscendingInclusions(toClient'[round])
  BY <1>1, <1>3, <1>10 DEF PlacesInv, NoNewInclusion
<1> QED
  BY <1>1, <1>8, <1>15, <1>17, <1>18 DEF PlacesInv

\* A connection is opened: nothing of the burst is anywhere yet.
LEMMA ConnectPlaces ==
  ASSUME TypeInv, RoundsInv, PendingInv, Connect
  PROVE  PendingInv' /\ PlacesInv'
<1>1. /\ client.pc = "connect" /\ round' = round /\ toBatcher' = toBatcher
      /\ toClient' = toClient /\ queue' = queue /\ posting' = posting
      /\ client' = [client EXCEPT !.pc = "send"]
  BY DEF Connect, batcherVars
<1>2. /\ client \in ClientType /\ round \in Rounds /\ client.results = <<>>
      /\ client.pending = {} /\ posting.batch \in Seq(Entries) /\ posting.unsent \in Nat
      /\ posting.unsent <= Len(posting.batch)
  BY <1>1 DEF TypeInv, ClientTyped, BatcherTyped, PostingType
<1>3. /\ client'.pending = {} /\ client'.results = <<>> /\ client'.pc = "send"
      /\ client'.base = client.base /\ client'.sent = client.sent
  BY <1>1, <1>2 DEF ClientType
<1>4. NotBegun(round)
  BY <1>1 DEF NotBegun
<1>5. Told(round)' = {} /\ Underway(round)' = {} /\ toBatcher[round] = <<>>
  BY <1>1, <1>2, <1>4 DEF RoundsInv, Told, Underway, Range
<1>6. Queued(round)' = {}
  BY <1>1, <1>4 DEF RoundsInv, Queued
<1>7. Posted(round)' = {}
  <2>1. \A j \in 1..posting.unsent : posting.batch[j] \in Range(posting.batch)
    BY <1>2, RangeIs
  <2> QED
    BY <1>1, <1>4, <2>1 DEF RoundsInv, Posted
<1>8. Ascending(<<>>)
  BY DEF Ascending
<1>9. AscendingInclusions(toClient[round])
  <2>1. toClient[round] \in Seq(Messages)
    BY <1>2 DEF TypeInv, NetTyped
  <2>2. \A i \in 1..Len(toClient[round]) : toClient[round][i].kind # "inclusion"
    BY <1>2, <1>4, <2>1, RangeIs DEF RoundsInv
  <2> QED
    BY <2>2 DEF AscendingInclusions
<1>10. PendingInv'
  BY <1>3 DEF PendingInv
<1> QED
  BY <1>1, <1>5, <1>6, <1>7, <1>8, <1>9, <1>10 DEF PlacesInv, InOrder, Below

\* The invariant of the burst is kept.
LEMMA SessionKept ==
  ASSUME TypeInv, RoundsInv, MessagesInv, SessionInv, Next
  PROVE  SessionInv'
<1>1. PendingInv /\ (client.pc \in {"send", "receive"} => PlacesInv) /\ client \in ClientType
  BY DEF SessionInv, TypeInv, ClientTyped
<1>2. client.pc \in {"send", "receive"} => round \in Rounds
  BY DEF TypeInv, ClientTyped
<1>3. CASE BatcherStep \/ NetworkStep
  <2>1. client' = client /\ round' = round
    BY <1>3, ClientStays
  <2>2. client.pc \in {"send", "receive"} => PlacesInv'
    BY <1>1, <1>2, <1>3, NetworkPlaces, HandlePlaces, ExtractPlaces, PostingPlaces,
       ResponsePlaces DEF BatcherStep
  <2>3. PendingInv'
    BY <1>1, <2>1 DEF PendingInv
  <2> QED
    BY <2>1, <2>2, <2>3 DEF SessionInv
<1>4. CASE PendingInv' /\ (client'.pc \in {"send", "receive"} => PlacesInv')
  BY <1>4 DEF SessionInv
<1>5. CASE Connect \/ SendMessage \/ ReceiveInclusion
  BY <1>1, <1>4, <1>5, ConnectPlaces, SendPlaces, ReceivePlaces DEF SendMessage, ReceiveInclusion
<1>6. CASE SendFails
  <2>1. /\ client' = [client EXCEPT !.pc = "receive"] /\ client.pc = "send"
        /\ UNCHANGED <<round, netVars, batcherVars>>
    BY <1>6 DEF SendFails
  <2>2. /\ client'.pending = client.pending /\ client'.results = client.results
        /\ client'.base = client.base /\ client'.sent = client.sent
        /\ client.results = <<>>
    BY <1>1, <2>1 DEF ClientType, TypeInv, ClientTyped
  <2>3. PendingInv'
    BY <1>1, <2>1, <2>2 DEF PendingInv
  <2>4. PlacesInv'
    BY <1>1, <2>1, <2>2 DEF PlacesInv, Told, Posted, Queued, Underway, netVars, batcherVars
  <2> QED
    BY <1>4, <2>3, <2>4
<1>7. CASE client'.pending = {} /\ client'.pc \notin {"send", "receive"}
  BY <1>4, <1>7 DEF PendingInv
<1>8. ASSUME NEW results, Return(results) PROVE SessionInv'
  BY <1>7, <1>8, IdleTyped DEF Return
<1>9. ASSUME client'.pending = client.pending, client'.base = client.base,
             client'.sent = client.sent, round' = round, client'.pc \in {"close", "await"}
      PROVE  SessionInv'
  <2>1. PendingInv'
    BY <1>1, <1>9 DEF PendingInv
  <2> QED
    BY <1>4, <1>9, <2>1
<1>10. CASE ReceiveError \/ StreamEnds
  BY <1>1, <1>9, <1>10 DEF ReceiveError, StreamEnds, AfterError, ClientType
<1>11. CASE Close
  <2>1. round' = round /\ (GoOn(client.results) \/ GoOn(<<Error>>))
    BY <1>11 DEF Close
  <2>2. ASSUME NEW results, client' = [client EXCEPT !.pc = "await", !.results = results]
        PROVE  SessionInv'
    BY <1>1, <1>9, <2>1, <2>2 DEF ClientType
  <2> QED
    BY <1>8, <2>1, <2>2 DEF GoOn
<1>12. CASE AwaitVerified
  <2>1. PICK j : client' = [client EXCEPT !.checked = j]
    BY <1>12 DEF AwaitVerified
  <2>2. round' = round /\ client.pc = "await"
    BY <1>12 DEF AwaitVerified
  <2> QED
    BY <1>1, <1>9, <2>1, <2>2 DEF ClientType
<1>13. ASSUME NEW api \in Calls, NEW n \in 1..MaxBurst, GetNonce(api, n) PROVE SessionInv'
  BY <1>7, <1>13 DEF GetNonce, IdleClient
<1>14. CASE GetNonceFails
  <2>1. client' = client /\ client.pc = "idle" /\ client.pending = {}
    BY <1>14 DEF GetNonceFails, TypeInv, ClientTyped
  <2> QED
    BY <1>7, <2>1
<1> QED
  BY <1>3, <1>5, <1>6, <1>8, <1>10, <1>11, <1>12, <1>13, <1>14
     DEF Next, ClientStep, ConnectFails, AwaitTimesOut, AwaitEnds

-----------------------------------------------------------------------------
(***************************************************************************)
(* Results.                                                                *)
(***************************************************************************)
\* TrueResults, position by position.
Truthful(s, r, tasks) ==
    /\ \A j, k \in 1..Len(s) : j < k /\ s[k].ok => s[j].ok /\ s[j].proof.nonce < s[k].proof.nonce
    /\ \A j \in 1..Len(s) : s[j].ok =>
         s[j].proof.round = r /\ s[j].root \in tasks /\ s[j].proof \in Range(s[j].root)

\* What the CLI saves follows from the order of the results.
LEMMA TrueIsTruthful ==
  ASSUME NEW s \in Seq(Results), NEW r, NEW tasks
  PROVE  TrueResults(s, r, tasks) <=> Truthful(s, r, tasks)
<1>1. DOMAIN s = 1..Len(s) /\ Len(s) \in Nat
  BY LenProperties
<1>2. ASSUME Truthful(s, r, tasks) PROVE SavedResponses(s) = Included(s)
  <2>1. ASSUME NEW k \in 1..Len(s), s[k].ok PROVE \A l \in 1..k : s[l].ok
    BY <1>1, <1>2, <2>1 DEF Truthful
  <2>2. ASSUME NEW k \in 1..Len(s), \A l \in 1..k : s[l].ok PROVE s[k].ok
    BY <2>2
  <2>3. {k \in DOMAIN s : \A l \in 1..k : s[l].ok} = {k \in DOMAIN s : s[k].ok}
    BY <1>1, <2>1, <2>2
  <2> QED
    BY <2>3 DEF SavedResponses, Included
<1>3. (\A x \in Included(s) : x.proof.round = r /\ x.root \in tasks /\ x.proof \in Range(x.root))
        <=> \A j \in 1..Len(s) : s[j].ok =>
              s[j].proof.round = r /\ s[j].root \in tasks /\ s[j].proof \in Range(s[j].root)
  BY <1>1 DEF Included
<1> QED
  BY <1>1, <1>2, <1>3 DEF TrueResults, Truthful

\* Nothing, and an error alone.
LEMMA ShortResultsTrue ==
  ASSUME NEW r, NEW tasks
  PROVE  TrueResults(<<>>, r, tasks) /\ TrueResults(<<Error>>, r, tasks)
<1>1. Truthful(<<>>, r, tasks)
  BY DEF Truthful
<1>2. Truthful(<<Error>>, r, tasks)
  <2>1. Len(<<Error>>) = 1 /\ <<Error>>[1] = Error /\ ~Error.ok
    BY DEF Error
  <2> QED
    BY <2>1 DEF Truthful
<1> QED
  BY <1>1, <1>2, ErrorTyped, TrueIsTruthful

\* One more result: an error, or the inclusion of a later proof.
LEMMA MoreResultsTrue ==
  ASSUME NEW s \in Seq(Results), NEW x \in Results, NEW r, NEW tasks, TrueResults(s, r, tasks),
         x.ok => /\ \A j \in 1..Len(s) : s[j].ok /\ s[j].proof.nonce < x.proof.nonce
                 /\ x.proof.round = r /\ x.root \in tasks /\ x.proof \in Range(x.root)
  PROVE  TrueResults(Append(s, x), r, tasks)
<1> DEFINE t == Append(s, x)
<1>1. /\ t \in Seq(Results) /\ Len(t) = Len(s) + 1 /\ t[Len(s) + 1] = x /\ Len(s) \in Nat
      /\ \A j \in 1..Len(s) : t[j] = s[j]
  BY AppendProperties, LenProperties
<1> HIDE DEF t
<1>2. Truthful(s, r, tasks)
  BY TrueIsTruthful
<1>3. ASSUME NEW j \in 1..Len(t), NEW k \in 1..Len(t), j < k, t[k].ok
      PROVE  t[j].ok /\ t[j].proof.nonce < t[k].proof.nonce
  <2>1. j \in 1..Len(s) /\ t[j] = s[j]
    BY <1>1, <1>3
  <2>2. CASE k \in 1..Len(s)
    BY <1>1, <1>2, <1>3, <2>1, <2>2 DEF Truthful
  <2>3. CASE k = Len(s) + 1
    BY <1>1, <1>3, <2>1, <2>3
  <2> QED
    BY <1>1, <2>2, <2>3
<1>4. ASSUME NEW j \in 1..Len(t), t[j].ok
      PROVE  t[j].proof.round = r /\ t[j].root \in tasks /\ t[j].proof \in Range(t[j].root)
  <2>1. CASE j \in 1..Len(s)
    BY <1>1, <1>2, <1>4, <2>1 DEF Truthful
  <2>2. CASE j = Len(s) + 1
    BY <1>1, <1>4, <2>2
  <2> QED
    BY <1>1, <2>1, <2>2
<1>5. Truthful(t, r, tasks)
  BY <1>3, <1>4 DEF Truthful
<1> QED
  BY <1>1, <1>5, TrueIsTruthful DEF t

\* Later there are more tasks.
LEMMA MoreTasksTrue ==
  ASSUME NEW s \in Seq(Results), NEW r, NEW tasks, NEW more, tasks \subseteq more,
         TrueResults(s, r, tasks)
  PROVE  TrueResults(s, r, more)
<1>1. Truthful(s, r, tasks)
  BY TrueIsTruthful
<1>2. Truthful(s, r, more)
  BY <1>1 DEF Truthful
<1> QED
  BY <1>2, TrueIsTruthful

\* What a call returns of true results is true.
LEMMA ReturnedTrue ==
  ASSUME NEW s \in Seq(Results), NEW api, NEW r, NEW tasks, TrueResults(s, r, tasks)
  PROVE  TrueResults(Returned(api, s), r, tasks)
<1>1. CASE ~Single(api)
  BY <1>1 DEF Returned
<1>2. CASE Single(api) /\ s = <<>>
  BY <1>2, ShortResultsTrue DEF Returned
<1>3. CASE Single(api) /\ s # <<>>
  <2>1. Len(s) \in Nat /\ Len(s) > 0 /\ s[1] \in Results
    BY <1>3, EmptySeq, ElementOfSeq
  <2> DEFINE x == s[1]
             t == <<x>>
  <2>2. Truthful(s, r, tasks)
    BY TrueIsTruthful
  <2>3. x.ok => x.proof.round = r /\ x.root \in tasks /\ x.proof \in Range(x.root)
    BY <2>1, <2>2 DEF Truthful
  <2>4. x \in Results
    BY <2>1
  <2> HIDE DEF x
  <2>5. t \in Seq(Results) /\ Len(t) = 1 /\ t[1] = x
    BY <2>4
  <2> HIDE DEF t
  <2>6. Truthful(t, r, tasks)
    BY <2>3, <2>5 DEF Truthful
  <2>7. TrueResults(t, r, tasks)
    BY <2>5, <2>6, TrueIsTruthful
  <2>8. Returned(api, s) = t
    BY <1>3 DEF Returned, t, x
  <2> QED
    BY <2>7, <2>8
<1> QED
  BY <1>1, <1>2, <1>3

\* A call returns true results.
LEMMA ReturnTrue ==
  ASSUME TypeInv, ResultsAreTrue, Next, round \in Rounds, round' = round,
         NEW s \in Seq(Results), TrueResults(s, round, Mined), Return(s)
  PROVE  ResultsAreTrue'
<1>1. /\ reports' = [reports EXCEPT ![round] =
                       [api |-> client.api, results |-> Returned(client.api, s)]]
      /\ client' = IdleClient
  BY DEF Return
<1>2. Mined \subseteq Mined'
  BY TasksStay
<1>3. TrueResults(Returned(client.api, s), round, Mined')
  BY <1>2, ReturnedTrue, ReturnedTyped, MoreTasksTrue
<1>4. reports \in [Rounds -> [api : Apis \cup {None}, results : Seq(Results)]]
  BY DEF TypeInv, ClientTyped
<1>5. ASSUME NEW r \in Rounds PROVE TrueResults(reports'[r].results, r, Mined')
  <2>1. CASE r = round
    <3>1. reports'[r].results = Returned(client.api, s)
      BY <1>1, <1>4, <2>1
    <3> QED
      BY <1>3, <2>1, <3>1
  <2>2. CASE r # round
    <3>1. reports'[r] = reports[r] /\ reports[r].results \in Seq(Results)
      BY <1>1, <1>4, <1>5, <2>2
    <3> QED
      BY <1>2, <1>5, <3>1, MoreTasksTrue DEF ResultsAreTrue
  <2> QED
    BY <2>1, <2>2
<1>6. TrueResults(client'.results, round', Mined')
  BY <1>1, IdleTyped, ShortResultsTrue
<1> QED
  BY <1>5, <1>6 DEF ResultsAreTrue

\* ResultsAreTrue is kept.
LEMMA ResultsKept ==
  ASSUME TypeInv, MessagesInv, SessionInv, ResultsAreTrue, Next
  PROVE  ResultsAreTrue'
<1>1. /\ client \in ClientType /\ client.results \in Seq(Results) /\ round \in Nat
      /\ reports \in [Rounds -> [api : Apis \cup {None}, results : Seq(Results)]]
      /\ client.pc # "idle" => round \in Rounds
      /\ round \in Rounds => round > 0
  BY BurstAssumption DEF TypeInv, ClientTyped, ClientType, Rounds
<1>2. Mined \subseteq Mined'
  BY TasksStay
<1>3. ASSUME reports' = reports PROVE \A r \in Rounds : TrueResults(reports'[r].results, r, Mined')
  <2> SUFFICES ASSUME NEW r \in Rounds PROVE TrueResults(reports[r].results, r, Mined')
    BY <1>3
  <2>1. reports[r].results \in Seq(Results) /\ TrueResults(reports[r].results, r, Mined)
    BY <1>1 DEF ResultsAreTrue
  <2> QED
    BY <1>2, <2>1, MoreTasksTrue
<1>4. round > 0 => TrueResults(client.results, round, Mined')
  BY <1>1, <1>2, MoreTasksTrue DEF ResultsAreTrue
<1>5. ASSUME reports' = reports, client'.results = client.results, round' = round
      PROVE  ResultsAreTrue'
  BY <1>3, <1>4, <1>5 DEF ResultsAreTrue
<1>6. CASE BatcherStep \/ NetworkStep
  BY <1>5, <1>6, ClientStays
<1>7. CASE Connect \/ SendMessage \/ SendFails \/ StreamEnds
  BY <1>1, <1>5, <1>7 DEF Connect, SendMessage, SendFails, StreamEnds, ClientType
<1>8. CASE AwaitVerified
  <2>1. PICK j : client' = [client EXCEPT !.checked = j]
    BY <1>8 DEF AwaitVerified
  <2>2. reports' = reports /\ round' = round
    BY <1>8 DEF AwaitVerified
  <2> QED
    BY <1>1, <1>5, <2>1, <2>2 DEF ClientType
<1>9. ASSUME NEW api \in Calls, NEW n \in 1..MaxBurst, GetNonce(api, n) PROVE ResultsAreTrue'
  <2>1. reports' = reports /\ client'.results = <<>>
    BY <1>9 DEF GetNonce, IdleClient
  <2> QED
    BY <1>3, <2>1, ShortResultsTrue DEF ResultsAreTrue
<1>10. CASE GetNonceFails
  <2>1. /\ round' = round + 1 /\ round < Bursts /\ client' = client /\ client.pc = "idle"
        /\ reports' = [reports EXCEPT ![round'].results = <<Error>>]
    BY <1>10 DEF GetNonceFails
  <2>2. round' \in Rounds /\ client.results = <<>>
    BY <1>1, <2>1, BurstAssumption DEF TypeInv, ClientTyped, Rounds
  <2>3. ASSUME NEW r \in Rounds PROVE TrueResults(reports'[r].results, r, Mined')
    <3>1. CASE r = round'
      <4>1. reports'[r].results = <<Error>>
        BY <1>1, <2>1, <2>2, <3>1
      <4> QED
        BY <4>1, ShortResultsTrue
    <3>2. CASE r # round'
      <4>1. reports'[r] = reports[r] /\ reports[r].results \in Seq(Results)
        BY <1>1, <2>1, <2>3, <3>2
      <4> QED
        BY <1>2, <2>3, <4>1, MoreTasksTrue DEF ResultsAreTrue
    <3> QED
      BY <3>1, <3>2
  <2> QED
    BY <2>1, <2>2, <2>3, ShortResultsTrue DEF ResultsAreTrue
<1>11. CASE ReceiveError
  <2>1. /\ client.pc = "receive" /\ reports' = reports /\ round' = round
        /\ client'.results = Append(client.results, Error)
    BY <1>1, <1>11 DEF ReceiveError, ClientType
  <2>2. ~Error.ok
    BY DEF Error
  <2>3. TrueResults(Append(client.results, Error), round, Mined')
    BY <1>1, <1>4, <2>1, <2>2, ErrorTyped, MoreResultsTrue
  <2> QED
    BY <1>3, <2>1, <2>3 DEF ResultsAreTrue
<1>12. CASE ReceiveInclusion
  <2> DEFINE m == Head(toClient[round])
             e == m.root[m.index]
             x == Answer(m)
  <2>1. /\ client.pc = "receive" /\ reports' = reports /\ round' = round
        /\ toClient[round] # <<>> /\ m.kind = "inclusion"
        /\ client'.results = Append(client.results, x)
    BY <1>1, <1>12 DEF ReceiveInclusion, ClientType
  <2>2. round \in Rounds /\ PendingInv /\ PlacesInv /\ toClient[round] \in Seq(Messages)
    BY <1>1, <2>1 DEF SessionInv, TypeInv, NetTyped
  <2>3. m \in Range(toClient[round]) /\ m \in Messages
    BY <2>1, <2>2, TailShortened, RangeIs
  <2> HIDE DEF m
  <2>4. /\ x = Ok(e, m.root, m.index) /\ x \in Results
        /\ e \in Range(m.root) /\ m.root \in Mined /\ e.round = round
    BY <1>1, <2>1, <2>2, <2>3, AnswerIs, AnswerTyped
  <2>5. e \in Told(round)
    BY <2>1, <2>3 DEF Told
  <2> HIDE DEF e
  <2>6. x.proof = e /\ x.root = m.root
    BY <2>4 DEF Ok
  <2> HIDE DEF x
  <2>7. ASSUME NEW j \in 1..Len(client.results)
        PROVE  client.results[j].ok /\ client.results[j].proof.nonce < x.proof.nonce
    <3>1. DOMAIN client.results = 1..Len(client.results)
      BY <1>1, LenProperties
    <3>2. client.results[j].ok
      BY <2>1, <2>2, <3>1 DEF PendingInv
    <3>3. client.results[j].proof \in Answered(client.results)
      BY <3>1, <3>2 DEF Answered, Included
    <3> QED
      BY <2>2, <2>5, <2>6, <3>2, <3>3 DEF PlacesInv, InOrder, Below
  <2>8. TrueResults(Append(client.results, x), round, Mined')
    BY <1>1, <1>2, <1>4, <2>2, <2>4, <2>6, <2>7, MoreResultsTrue
  <2> QED
    BY <1>3, <2>1, <2>8 DEF ResultsAreTrue
<1>13. ASSUME NEW s \in Seq(Results), TrueResults(s, round, Mined), GoOn(s),
              client.pc = "close", round' = round
       PROVE  ResultsAreTrue'
  <2>1. CASE client' = [client EXCEPT !.pc = "await", !.results = s] /\ reports' = reports
    <3>1. client'.results = s
      BY <1>1, <2>1 DEF ClientType
    <3> QED
      BY <1>2, <1>3, <1>13, <2>1, <3>1, MoreTasksTrue DEF ResultsAreTrue
  <2>2. CASE Return(s)
    BY <1>1, <1>13, <2>2, ReturnTrue
  <2> QED
    BY <1>13, <2>1, <2>2 DEF GoOn
<1>14. CASE Close
  <2>1. client.pc = "close" /\ round' = round /\ (GoOn(client.results) \/ GoOn(<<Error>>))
    BY <1>14 DEF Close
  <2> QED
    BY <1>1, <1>13, <2>1, ErrorTyped, ShortResultsTrue DEF ResultsAreTrue
<1>15. CASE ConnectFails
  BY <1>1, <1>15, ReturnTrue, ErrorTyped, ShortResultsTrue DEF ConnectFails
<1>16. CASE AwaitTimesOut
  <2>1. /\ Return(Append(client.results, Error)) /\ round' = round /\ round \in Rounds
    BY <1>1, <1>16 DEF AwaitTimesOut, WithTimeout
  <2>2. ~Error.ok
    BY DEF Error
  <2>3. Append(client.results, Error) \in Seq(Results)
    BY <1>1, ErrorTyped, AppendProperties
  <2>4. TrueResults(Append(client.results, Error), round, Mined)
    BY <1>1, <2>1, <2>2, ErrorTyped, MoreResultsTrue DEF ResultsAreTrue
  <2> QED
    BY <2>1, <2>3, <2>4, ReturnTrue
<1>17. CASE AwaitEnds
  <2>1. /\ Return(client.results) /\ round' = round /\ round \in Rounds
    BY <1>1, <1>17 DEF AwaitEnds
  <2> QED
    BY <1>1, <2>1, ReturnTrue DEF ResultsAreTrue
<1> QED
  BY <1>6, <1>7, <1>8, <1>9, <1>10, <1>11, <1>12, <1>14, <1>15, <1>16, <1>17
     DEF Next, ClientStep

-----------------------------------------------------------------------------
(***************************************************************************)
(* The wait for verification.                                              *)
(***************************************************************************)
\* A batch that is verified stays so.
LEMMA VerifiedStays ==
  ASSUME Next, NEW x, IsProofVerified(x)
  PROVE  IsProofVerified(x)'
BY TasksStay DEF IsProofVerified, ProofIsIncluded

\* A call returns an error, or waited for all it returns.
LEMMA ReturnWaited ==
  ASSUME TypeInv, WaitedForVerification, Next, round \in Rounds, NEW s \in Seq(Results), Return(s),
         \/ client.api # "submit_multiple_and_wait"
         \/ \E j \in 1..Len(s) : ~s[j].ok
         \/ \A j \in 1..Len(s) : IsProofVerified(s[j])
  PROVE  WaitedForVerification'
<1>1. reports' = [reports EXCEPT ![round] =
                    [api |-> client.api, results |-> Returned(client.api, s)]]
  BY DEF Return
<1>2. reports \in [Rounds -> [api : Apis \cup {None}, results : Seq(Results)]]
  BY DEF TypeInv, ClientTyped
<1> SUFFICES ASSUME NEW r \in Rounds, reports'[r].api = "submit_multiple_and_wait",
                    \A x \in Range(reports'[r].results) : x.ok,
                    NEW x \in Range(reports'[r].results)
             PROVE  IsProofVerified(x)'
  BY DEF WaitedForVerification
<1>3. CASE r # round
  <2>1. reports'[r] = reports[r]
    BY <1>1, <1>2, <1>3
  <2> QED
    BY <2>1, VerifiedStays DEF WaitedForVerification
<1>4. CASE r = round
  <2>1. client.api = "submit_multiple_and_wait" /\ reports'[r].results = Returned(client.api, s)
    BY <1>1, <1>2, <1>4
  <2>2. Returned(client.api, s) = s
    BY <2>1 DEF Returned, Single
  <2>3. PICK j \in 1..Len(s) : x = s[j]
    BY <2>1, <2>2, RangeIs
  <2>4. \A k \in 1..Len(s) : s[k].ok
    BY <2>1, <2>2, RangeIs
  <2> QED
    BY <2>1, <2>3, <2>4, VerifiedStays
<1> QED
  BY <1>3, <1>4

\* The two invariants of the wait are kept.
LEMMA WaitKept ==
  ASSUME TypeInv, CheckedInv, WaitedForVerification, Next
  PROVE  CheckedInv' /\ WaitedForVerification'
<1>1. /\ client \in ClientType /\ client.results \in Seq(Results) /\ client.checked \in Nat
      /\ reports \in [Rounds -> [api : Apis \cup {None}, results : Seq(Results)]]
      /\ client.pc # "idle" => round \in Rounds
      /\ client.pc # "await" => client.checked = 0
      /\ DOMAIN client.results = 1..Len(client.results) /\ Len(client.results) \in Nat
  BY LenProperties DEF TypeInv, ClientTyped, ClientType
<1>2. ASSUME reports' = reports PROVE WaitedForVerification'
  BY <1>2, VerifiedStays DEF WaitedForVerification
<1>3. ASSUME client'.checked = client.checked, client'.results = client.results
      PROVE  CheckedInv'
  BY <1>3, VerifiedStays DEF CheckedInv
<1>4. ASSUME client'.checked = 0, client'.results \in Seq(Results) PROVE CheckedInv'
  <2>1. \A j \in DOMAIN client'.results : ~(j <= client'.checked)
    BY <1>4, LenProperties
  <2> QED
    BY <2>1 DEF CheckedInv
<1>5. ASSUME NEW s, Return(s) PROVE CheckedInv'
  BY <1>4, <1>5, IdleTyped, ErrorTyped DEF Return
<1>6. CASE BatcherStep \/ NetworkStep
  BY <1>2, <1>3, <1>6, ClientStays
<1>7. CASE Connect \/ SendMessage \/ SendFails \/ StreamEnds
  BY <1>1, <1>2, <1>3, <1>7 DEF Connect, SendMessage, SendFails, StreamEnds, ClientType
<1>8. ASSUME NEW api \in Calls, NEW n \in 1..MaxBurst, GetNonce(api, n)
      PROVE  CheckedInv' /\ WaitedForVerification'
  <2>1. reports' = reports /\ client'.checked = 0 /\ client'.results = <<>>
    BY <1>8 DEF GetNonce, IdleClient
  <2> QED
    BY <1>2, <1>4, <2>1, ErrorTyped
<1>9. CASE GetNonceFails
  <2>1. client' = client /\ reports' = [reports EXCEPT ![round'].results = <<Error>>]
    BY <1>9 DEF GetNonceFails
  <2>2. round' \in Rounds
    BY <1>9, BurstAssumption DEF GetNonceFails, TypeInv, ClientTyped, Rounds
  <2> SUFFICES ASSUME NEW r \in Rounds, reports'[r].api = "submit_multiple_and_wait",
                      \A x \in Range(reports'[r].results) : x.ok,
                      NEW x \in Range(reports'[r].results)
               PROVE  IsProofVerified(x)'
    BY <1>3, <2>1 DEF WaitedForVerification
  <2>3. r # round'
    <3>1. Error \in Range(<<Error>>) /\ ~Error.ok
      <4>1. DOMAIN <<Error>> = {1} /\ <<Error>>[1] = Error
        OBVIOUS
      <4> QED
        BY <4>1 DEF Range, Error
    <3>2. r = round' => reports'[r].results = <<Error>>
      BY <1>1, <2>1, <2>2
    <3> QED
      BY <3>1, <3>2
  <2>4. reports'[r] = reports[r]
    BY <1>1, <2>1, <2>3
  <2> QED
    BY <2>4, VerifiedStays DEF WaitedForVerification
<1>10. CASE ReceiveError
  <2>1. /\ client'.checked = 0 /\ reports' = reports
        /\ client'.results = Append(client.results, Error)
    BY <1>1, <1>10 DEF ReceiveError, ClientType
  <2> QED
    BY <1>1, <1>2, <1>4, <2>1, ErrorTyped, AppendProperties
<1>11. CASE ReceiveInclusion
  <2>1. client'.checked = 0 /\ reports' = reports
    BY <1>1, <1>11 DEF ReceiveInclusion, ClientType
  <2>2. client'.results \in Seq(Results)
    <3>1. ClientTyped'
      BY <1>11, MessageTyped
    <3> QED
      BY <3>1 DEF ClientTyped, ClientType
  <2> QED
    BY <1>2, <1>4, <2>1, <2>2
<1>12. \E j \in 1..Len(<<Error>>) : ~(<<Error>>[j]).ok
  BY DEF Error
<1>13. CASE Close
  <2>1. client.pc = "close" /\ round' = round /\ (GoOn(client.results) \/ GoOn(<<Error>>))
    BY <1>13 DEF Close
  <2>2. ASSUME NEW s \in Seq(Results), GoOn(s)
        PROVE  CheckedInv' /\ WaitedForVerification'
    <3>1. CASE client' = [client EXCEPT !.pc = "await", !.results = s] /\ reports' = reports
      <4>1. client'.checked = 0 /\ client'.results = s
        BY <1>1, <2>1, <3>1 DEF ClientType
      <4> QED
        BY <1>2, <1>4, <2>2, <3>1, <4>1
    <3>2. CASE ~Waits(client.api) /\ Return(s)
      <4>1. client.api # "submit_multiple_and_wait"
        BY <3>2 DEF Waits
      <4> QED
        BY <1>1, <1>5, <2>1, <2>2, <3>2, <4>1, ReturnWaited
    <3> QED
      BY <2>2, <3>1, <3>2 DEF GoOn
  <2> QED
    BY <1>1, <2>1, <2>2, ErrorTyped
<1>14. CASE ConnectFails
  <2>1. Return(<<Error>>) /\ round \in Rounds
    BY <1>1, <1>14 DEF ConnectFails
  <2> QED
    BY <1>5, <1>12, <2>1, ErrorTyped, ReturnWaited
<1>15. CASE AwaitVerified
  <2>1. PICK j \in Unchecked :
          /\ \A k \in Unchecked : j <= k
          /\ IsProofVerified(client.results[j])
          /\ client' = [client EXCEPT !.checked = j]
    BY <1>15 DEF AwaitVerified
  <2>2. client'.results = client.results /\ client'.checked = j /\ reports' = reports
    BY <1>1, <1>15, <2>1 DEF AwaitVerified, ClientType
  <2>3. ASSUME NEW k \in DOMAIN client.results, k <= j, client.results[k].ok
        PROVE  IsProofVerified(client.results[k])
    <3>1. CASE k <= client.checked
      BY <2>3, <3>1 DEF CheckedInv
    <3>2. CASE client.checked < k
      <4>1. k \in Unchecked
        BY <2>3, <3>2 DEF Unchecked
      <4>2. k = j
        BY <1>1, <2>1, <2>3, <4>1 DEF Unchecked
      <4> QED
        BY <2>1, <4>2
    <3> QED
      BY <1>1, <3>1, <3>2
  <2>4. CheckedInv'
    BY <2>2, <2>3, VerifiedStays DEF CheckedInv
  <2> QED
    BY <1>2, <2>2, <2>4
<1>16. CASE AwaitTimesOut
  <2> DEFINE s == Append(client.results, Error)
  <2>1. Return(s) /\ round \in Rounds
    BY <1>1, <1>16 DEF AwaitTimesOut, WithTimeout
  <2>2. s \in Seq(Results) /\ Len(s) = Len(client.results) + 1 /\ s[Len(client.results) + 1] = Error
    BY <1>1, ErrorTyped, AppendProperties
  <2> HIDE DEF s
  <2>3. ~Error.ok
    BY DEF Error
  <2>4. \E j \in 1..Len(s) : ~s[j].ok
    BY <1>1, <2>2, <2>3
  <2> QED
    BY <1>5, <2>1, <2>2, <2>4, ReturnWaited
<1>17. CASE AwaitEnds
  <2>1. Return(client.results) /\ round \in Rounds /\ Unchecked = {}
    BY <1>1, <1>17 DEF AwaitEnds
  <2>2. ASSUME NEW j \in 1..Len(client.results), client.results[j].ok
        PROVE  IsProofVerified(client.results[j])
    <3>1. ~(client.checked < j)
      BY <1>1, <2>1, <2>2 DEF Unchecked
    <3> QED
      BY <1>1, <2>2, <3>1 DEF CheckedInv
  <2>3. \/ \E j \in 1..Len(client.results) : ~client.results[j].ok
        \/ \A j \in 1..Len(client.results) : IsProofVerified(client.results[j])
    BY <2>2
  <2> QED
    BY <1>1, <1>5, <2>1, <2>3, ReturnWaited
<1> QED
  BY <1>6, <1>7, <1>8, <1>9, <1>10, <1>11, <1>13, <1>14, <1>15, <1>16, <1>17
     DEF Next, ClientStep

-----------------------------------------------------------------------------
(***************************************************************************)
(* The theorems.                                                           *)
(***************************************************************************)
\* The invariant holds at the beginning.
LEMMA InitInv == Init => Inv
<1> SUFFICES ASSUME Init PROVE Inv
  OBVIOUS
<1>1. TypeInv
  BY InitTyped
<1>2. /\ queue = {} /\ posting.batch = <<>> /\ posting.pc = None
      /\ \A r \in Rounds : toBatcher[r] = <<>> /\ toClient[r] = <<>> /\ reports[r].results = <<>>
      /\ Range(<<>>) = {} /\ round = 0
  BY DEF Init, Range
<1>3. /\ client.pc = "idle" /\ client.pending = {} /\ client.results = <<>>
  BY IdleTyped DEF Init
<1>4. RoundsInv
  BY <1>2 DEF RoundsInv
<1>5. MessagesInv
  BY <1>2, NoneAssumption DEF MessagesInv
<1>6. SessionInv
  BY <1>3 DEF SessionInv, PendingInv
<1>7. ResultsAreTrue
  BY <1>2, <1>3, ShortResultsTrue DEF ResultsAreTrue
<1>8. CheckedInv
  BY <1>3 DEF CheckedInv
<1>9. WaitedForVerification
  BY <1>2 DEF WaitedForVerification
<1> QED
  BY <1>1, <1>4, <1>5, <1>6, <1>7, <1>8, <1>9 DEF Inv

\* Every step keeps the invariant.
LEMMA NextInv == Inv /\ [Next]_vars => Inv'
<1> SUFFICES ASSUME Inv, [Next]_vars PROVE Inv'
  OBVIOUS
<1>1. CASE UNCHANGED vars
  <2>1. TypeInv'
    BY <1>1, NextTyped DEF Inv
  <2>2. UNCHANGED <<round, client, reports, conn, toBatcher, toClient, queue, posting,
                    created, reverted, verified>>
    BY <1>1 DEF vars, clientVars, netVars, batcherVars, chainVars
  <2>3. RoundsInv' /\ MessagesInv'
    BY <2>2 DEF Inv, RoundsInv, MessagesInv, NotBegun, Mined
  <2>4. SessionInv'
    BY <2>2 DEF Inv, SessionInv, PendingInv, PlacesInv, Told, Posted, Queued, Underway
  <2>5. ResultsAreTrue' /\ CheckedInv' /\ WaitedForVerification'
    BY <2>2 DEF Inv, ResultsAreTrue, Mined, CheckedInv, WaitedForVerification, IsProofVerified
  <2> QED
    BY <2>1, <2>3, <2>4, <2>5 DEF Inv
<1>2. CASE Next
  <2>1. TypeInv'
    BY NextTyped DEF Inv
  <2>2. RoundsInv' /\ MessagesInv'
    BY <1>2, <2>1, RoundsKept, MessagesKept DEF Inv
  <2>3. SessionInv' /\ ResultsAreTrue'
    BY <1>2, SessionKept, ResultsKept DEF Inv
  <2>4. CheckedInv' /\ WaitedForVerification'
    BY <1>2, WaitKept DEF Inv
  <2> QED
    BY <2>1, <2>2, <2>3, <2>4 DEF Inv
<1> QED
  BY <1>1, <1>2

\* What the calls of the SDK report is true, however connections break and whatever
\* the batcher refuses, flushes, evicts, restores or loses: inclusions come first, in
\* nonce order, each of a proof of that burst in a batch whose createNewTask has a
\* receipt: its task was created, unless the transaction reverted.
THEOREM ReportsAreTrue == Spec => []ResultsAreTrue
<1>1. Inv => ResultsAreTrue
  BY DEF Inv
<1> QED
  BY <1>1, InitInv, NextInv, PTL DEF Spec

\* The inclusion data the batcher sends always passes the client's check.
THEOREM InclusionsPassTheCheck == Spec => []NoInvalidInclusion
<1>1. Inv => NoInvalidInclusion
  <2> SUFFICES ASSUME Inv, client.pc = "receive", NEW m \in Range(toClient[round]),
                      m.kind = "inclusion"
               PROVE  Answer(m).ok
    BY DEF NoInvalidInclusion
  <2>1. round \in Rounds /\ TypeInv /\ MessagesInv
    BY DEF Inv, TypeInv, ClientTyped
  <2>2. PendingInv /\ PlacesInv
    BY DEF Inv, SessionInv
  <2>3. Answer(m) = Ok(m.root[m.index], m.root, m.index)
    BY <2>1, <2>2, AnswerIs
  <2> QED
    BY <2>3 DEF Ok
<1> QED
  BY <1>1, InitInv, NextInv, PTL DEF Spec

\* What submit_multiple_and_wait_verification returns without an error was verified.
THEOREM VerificationAwaited == Spec => []WaitedForVerification
<1>1. Inv => WaitedForVerification
  BY DEF Inv
<1> QED
  BY <1>1, InitInv, NextInv, PTL DEF Spec
=============================================================================
