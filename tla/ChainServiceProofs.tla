--------------------------- MODULE ChainServiceProofs ---------------------------
(***************************************************************************)
(* For any transactions, lookups, failures and restarts: the retrieval     *)
(* queue stays in order, and a transaction stored as pending is followed.  *)
(* The argument: whatever stops following a transaction (a lookup that     *)
(* ends, a hash that leaves the queue, a save that is written) either      *)
(* settles it or hands it to something else that follows it; and the one   *)
(* save that follows nothing, the broadcast's, is the first to be written  *)
(* and was made together with an entry of the queue.                       *)
(*                                                                         *)
(* The last part puts the tracking and the nonces (NonceAllocationProofs)  *)
(* together: each leaves the other alone.                                  *)
(***************************************************************************)
EXTENDS MCChainService, FiniteSetTheorems, WellFoundedInduction, TLAPS

Ordered(q) ==
    \A i, j \in DOMAIN q : i < j =>
        /\ q[i].hash # q[j].hash
        /\ q[i].priority >= q[j].priority

InQueue(h) == Queued(queue, Network, h)

OnLookup(s, h) == lookup[s] # Idle /\ lookup[s].hash = h

\* Stages of which one is left with nothing done when a request fails.
Careless == {"block", "receipt"}

\* A save that gives the transaction a status.
Settling(h) ==
    \E i \in DOMAIN saves : saves[i].hash = h /\ saves[i].status \in Final

\* What still looks at the transaction, or settles it.
FollowedWell(h) ==
    \/ InQueue(h)
    \/ \E s \in Slots : OnLookup(s, h) /\ lookup[s].stage \notin Careless
    \/ \E i \in DOMAIN saves : saves[i].hash = h /\
          (saves[i].status \in Final \/ saves[i].next # "end")
    \/ booting

Followings == \A h \in StoredPending : FollowedWell(h)

\* Before its broadcast nobody knows of a transaction.
UnsentUnknown ==
    \A h \in Sent : sending[h] = "ready" =>
        /\ node[h] = "unknown"
        /\ record[h] = Absent
        /\ ~InQueue(h)
        /\ \A i \in DOMAIN saves : saves[i].hash # h
        /\ \A s \in Slots : ~OnLookup(s, h)

\* The broadcast's own save comes before every other one of its transaction and
\* before every lookup, and the transaction is queued or being settled.
LocalSaveFirst ==
    \A i \in DOMAIN saves :
        saves[i].status = "open" /\ saves[i].next = "end" =>
            /\ \A j \in DOMAIN saves : j < i => saves[j].hash # saves[i].hash
            /\ \A s \in Slots : ~OnLookup(s, saves[i].hash)
            /\ InQueue(saves[i].hash) \/ Settling(saves[i].hash)

\* A lookup waits for at most one save, which says what the lookup found.
LookupsAwaitSaves ==
    \A i \in DOMAIN saves : saves[i].next \in Slots =>
        /\ OnLookup(saves[i].next, saves[i].hash)
        /\ lookup[saves[i].next].stage =
              IF saves[i].block THEN "savingMined" ELSE "savingPending"
        /\ saves[i].status = "open"
        /\ \A j \in DOMAIN saves : saves[j].next = saves[i].next => j = i

SavesOK == UnsentUnknown /\ LocalSaveFirst /\ LookupsAwaitSaves

IInv == TypeOK /\ SavesOK /\ Followings

-----------------------------------------------------------------------------
(* The queue: lining up and removing.                                      *)

LEMMA Minimum ==
    ASSUME NEW S \in SUBSET Nat, S # {}
    PROVE  Min(S) \in S /\ \A m \in S : Min(S) <= m
<1>1. IsWellFoundedOn(OpToRel(<, Nat), Nat)
  BY NatLessThanWellFounded, Zenon
<1>2. PICK n \in S : \A m \in S : ~ (<<m, n>> \in OpToRel(<, Nat))
  BY <1>1, WFMin, Zenon
<1>3. \A m \in S : ~ (<<m, n>> \in {ss \in Nat \X Nat : ss[1] < ss[2]})
  BY <1>2, Zenon DEF OpToRel
<1>4. ASSUME NEW m \in S PROVE n <= m
  <2>1. <<m, n>> \in Nat \X Nat /\ <<m, n>>[1] = m /\ <<m, n>>[2] = n
    OBVIOUS
  <2>2. ~ (m < n) BY <1>3, <2>1
  <2> QED BY <2>1, <2>2
<1>5. \E x \in S : \A y \in S : x =< y BY <1>4
<1> QED BY <1>5 DEF Min

\* Entries come to stand behind those of their priority or more, and in front
\* of the others.
LEMMA LineUpPlace ==
    ASSUME NEW q \in Seq(Entries), NEW es \in Seq(Entries), NEW p \in {0, 1}
    PROVE  \E b \in 1..(Len(q) + 1) :
              /\ \A i \in 1..(b - 1) : q[i].priority >= p
              /\ b <= Len(q) => q[b].priority < p
              /\ LineUp(q, es, p) =
                    SubSeq(q, 1, b - 1) \o es \o SubSeq(q, b, Len(q))
<1> DEFINE I == {i \in 1..Len(q) : p > q[i].priority}
           behind == IF I # {} THEN Min(I) ELSE 0
<1>1. LineUp(q, es, p) = IF behind = 0 THEN q \o es
          ELSE SubSeq(q, 1, behind - 1) \o es \o SubSeq(q, behind, Len(q))
  BY DEF LineUp, SelectInSeq
<1>2. Len(q) \in Nat /\ \A i \in 1..Len(q) : q[i].priority \in {0, 1}
  <2>1. \A i \in 1..Len(q) : q[i] \in Entries OBVIOUS
  <2>2. \A e \in Entries : e.priority \in {0, 1} BY DEF Entries
  <2> QED BY <2>1, <2>2
<1>3. CASE I = {}
  <2>1. /\ SubSeq(q, 1, (Len(q) + 1) - 1) = q
        /\ SubSeq(q, Len(q) + 1, Len(q)) = <<>>
    OBVIOUS
  <2>2. q \o es = SubSeq(q, 1, (Len(q) + 1) - 1) \o es
                     \o SubSeq(q, Len(q) + 1, Len(q))
    BY <2>1
  <2>3. \A i \in 1..Len(q) : q[i].priority >= p
    BY <1>2, <1>3
  <2>4. behind = 0 BY <1>3
  <2>5. LineUp(q, es, p) = SubSeq(q, 1, (Len(q) + 1) - 1) \o es
                              \o SubSeq(q, Len(q) + 1, Len(q))
    BY <1>1, <2>2, <2>4
  <2> HIDE DEF I, behind
  <2>6. Len(q) + 1 \in 1..(Len(q) + 1) /\ ~(Len(q) + 1 <= Len(q))
    BY <1>2
  <2>7. \A i \in 1..((Len(q) + 1) - 1) : q[i].priority >= p
    BY <1>2, <2>3
  <2> QED BY <2>5, <2>6, <2>7
<1>4. CASE I # {}
  <2>0. I \in SUBSET Nat OBVIOUS
  <2>1. Min(I) \in I /\ \A m \in I : Min(I) <= m
    <3> HIDE DEF I
    <3> QED BY <1>4, <2>0, Minimum
  <2>2. behind \in 1..Len(q) /\ behind # 0 /\ p > q[behind].priority
    <3>1. behind = Min(I) BY <1>4
    <3>2. behind \in I BY <2>1, <3>1
    <3> HIDE DEF behind
    <3> QED BY <3>2
  <2>3. \A i \in 1..(behind - 1) : q[i].priority >= p
    <3>1. \A m \in I : behind <= m BY <1>4, <2>1
    <3>2. \A i \in 1..Len(q) : ~(p > q[i].priority) => q[i].priority >= p
      BY <1>2
    <3>3. \A i \in 1..(behind - 1) : i \in 1..Len(q) /\ ~(behind <= i)
      <4> HIDE DEF behind
      <4> QED BY <1>2, <2>2
    <3>4. \A i \in 1..(behind - 1) : i \notin I
      BY <3>1, <3>3
    <3>5. \A i \in 1..(behind - 1) : ~(p > q[i].priority)
      BY <3>3, <3>4
    <3> HIDE DEF behind, I
    <3> QED BY <3>2, <3>3, <3>5
  <2> HIDE DEF behind, I
  <2>4. LineUp(q, es, p) = SubSeq(q, 1, behind - 1) \o es \o SubSeq(q, behind, Len(q))
    BY <1>1, <2>2
  <2>5. q[behind].priority < p BY <1>2, <2>2
  <2>6. behind \in 1..(Len(q) + 1) BY <1>2, <2>2
  <2> QED BY <2>3, <2>4, <2>5, <2>6
<1> QED BY <1>3, <1>4

\* The elements of a sequence with others put in at b.
LEMMA Inserted ==
    ASSUME NEW S, NEW q \in Seq(S), NEW es \in Seq(S), NEW b \in 1..(Len(q) + 1)
    PROVE  LET r == SubSeq(q, 1, b - 1) \o es \o SubSeq(q, b, Len(q))
           IN  /\ r \in Seq(S) /\ Len(r) = Len(q) + Len(es)
               /\ \A i \in 1..(b - 1) : r[i] = q[i]
               /\ \A i \in 1..Len(es) : r[b - 1 + i] = es[i]
               /\ \A i \in b..Len(q) : r[i + Len(es)] = q[i]
<1>1. SubSeq(q, 1, b - 1) \in Seq(S) /\ SubSeq(q, b, Len(q)) \in Seq(S)
  OBVIOUS
<1>2. PICK x \in Seq(S) : x = SubSeq(q, 1, b - 1) BY <1>1, Zenon
<1>3. PICK z \in Seq(S) : z = SubSeq(q, b, Len(q)) BY <1>1, Zenon
<1>4. Len(x) = b - 1 /\ \A i \in 1..(b - 1) : x[i] = q[i]
  BY <1>2
<1>5. Len(z) = Len(q) - b + 1 /\ \A i \in 1..(Len(q) - b + 1) : z[i] = q[b + i - 1]
  BY <1>3
<1>6. Len(es) \in Nat /\ Len(q) \in Nat OBVIOUS
<1> DEFINE r == x \o es \o z
<1>7. /\ r \in Seq(S) /\ Len(r) = Len(x) + Len(es) + Len(z)
      /\ \A i \in 1..Len(x) : r[i] = x[i]
      /\ \A i \in 1..Len(es) : r[Len(x) + i] = es[i]
      /\ \A i \in 1..Len(z) : r[Len(x) + Len(es) + i] = z[i]
  OBVIOUS
<1> HIDE DEF r
<1>8. Len(r) = Len(q) + Len(es)
  BY <1>4, <1>5, <1>6, <1>7
<1>9. \A i \in 1..(b - 1) : r[i] = q[i]
  BY <1>4, <1>7
<1>10. \A i \in 1..Len(es) : r[b - 1 + i] = es[i]
  BY <1>4, <1>7
<1>11. \A i \in b..Len(q) : r[i + Len(es)] = q[i]
  <2> TAKE i \in b..Len(q)
  <2>1. i - b + 1 \in 1..Len(z) /\ i - b + 1 \in 1..(Len(q) - b + 1)
    BY <1>5, <1>6
  <2>2. r[Len(x) + Len(es) + (i - b + 1)] = z[i - b + 1]
    BY <1>7, <2>1
  <2>3. z[i - b + 1] = q[b + (i - b + 1) - 1]
    BY <1>5, <2>1
  <2>4. b + (i - b + 1) - 1 = i /\ Len(x) + Len(es) + (i - b + 1) = i + Len(es)
    BY <1>4, <1>6
  <2> QED BY <2>2, <2>3, <2>4
<1>12. r = SubSeq(q, 1, b - 1) \o es \o SubSeq(q, b, Len(q))
  BY <1>2, <1>3, Zenon DEF r
<1> QED BY <1>7, <1>8, <1>9, <1>10, <1>11, <1>12, Zenon

\* The elements of a sequence without the one at b.
LEMMA Removed ==
    ASSUME NEW S, NEW q \in Seq(S), NEW b \in 1..Len(q)
    PROVE  LET r == RemoveAt(q, b)
           IN  /\ r \in Seq(S) /\ Len(r) = Len(q) - 1
               /\ \A i \in 1..(b - 1) : r[i] = q[i]
               /\ \A i \in b..(Len(q) - 1) : r[i] = q[i + 1]
<1>1. SubSeq(q, 1, b - 1) \in Seq(S) /\ SubSeq(q, b + 1, Len(q)) \in Seq(S)
  OBVIOUS
<1>2. PICK x \in Seq(S) : x = SubSeq(q, 1, b - 1) BY <1>1, Zenon
<1>3. PICK z \in Seq(S) : z = SubSeq(q, b + 1, Len(q)) BY <1>1, Zenon
<1>4. Len(x) = b - 1 /\ \A i \in 1..(b - 1) : x[i] = q[i]
  BY <1>2
<1>5. Len(z) = Len(q) - b /\ \A i \in 1..(Len(q) - b) : z[i] = q[b + i]
  BY <1>3
<1>6. Len(q) \in Nat OBVIOUS
<1> DEFINE r == x \o z
<1>7. /\ r \in Seq(S) /\ Len(r) = Len(x) + Len(z)
      /\ \A i \in 1..Len(x) : r[i] = x[i]
      /\ \A i \in 1..Len(z) : r[Len(x) + i] = z[i]
  OBVIOUS
<1> HIDE DEF r
<1>8. Len(r) = Len(q) - 1
  BY <1>4, <1>5, <1>6, <1>7
<1>9. \A i \in 1..(b - 1) : r[i] = q[i]
  BY <1>4, <1>7
<1>10. \A i \in b..(Len(q) - 1) : r[i] = q[i + 1]
  <2> TAKE i \in b..(Len(q) - 1)
  <2>1. i - b + 1 \in 1..Len(z) /\ i - b + 1 \in 1..(Len(q) - b)
    BY <1>5, <1>6
  <2>2. r[Len(x) + (i - b + 1)] = z[i - b + 1]
    BY <1>7, <2>1
  <2>3. z[i - b + 1] = q[b + (i - b + 1)]
    BY <1>5, <2>1
  <2>4. b + (i - b + 1) = i + 1 /\ Len(x) + (i - b + 1) = i
    BY <1>4, <1>6
  <2> QED BY <2>2, <2>3, <2>4
<1>11. r = RemoveAt(q, b)
  BY <1>2, <1>3, Zenon DEF r, RemoveAt
<1> QED BY <1>7, <1>8, <1>9, <1>10, <1>11, Zenon

-----------------------------------------------------------------------------
(* The queue: what is queued afterwards, and in which order.               *)

LEMMA EntryFacts ==
    ASSUME NEW e \in Entries
    PROVE  e.network = Network /\ e.hash \in Hashes /\ e.priority \in {0, 1}
BY DEF Entries

\* Whether a hash is queued, said of a sequence of entries.
LEMMA QueuedIn ==
    ASSUME NEW q \in Seq(Entries), NEW h
    PROVE  Queued(q, Network, h) <=> \E i \in 1..Len(q) : q[i].hash = h
<1>1. \A i \in 1..Len(q) : q[i] \in Entries OBVIOUS
<1>2. DOMAIN q = 1..Len(q) OBVIOUS
<1>3. \A i \in 1..Len(q) : q[i].network = Network
  BY <1>1, EntryFacts
<1> QED BY <1>2, <1>3 DEF Queued

\* Lining up adds the hashes of the new entries, and keeps the order when they
\* are new and of one priority.
LEMMA LineUpFacts ==
    ASSUME NEW q \in Seq(Entries), NEW es \in Seq(Entries), NEW p \in {0, 1}
    PROVE  /\ LineUp(q, es, p) \in Seq(Entries)
           /\ \A h : Queued(LineUp(q, es, p), Network, h) <=>
                        Queued(q, Network, h) \/ Queued(es, Network, h)
           /\ /\ Ordered(q) /\ Ordered(es)
              /\ \A i \in 1..Len(es) : es[i].priority = p
              /\ \A i \in 1..Len(q), j \in 1..Len(es) : q[i].hash # es[j].hash
              => Ordered(LineUp(q, es, p))
<1>1. PICK b \in 1..(Len(q) + 1) :
         /\ \A i \in 1..(b - 1) : q[i].priority >= p
         /\ b <= Len(q) => q[b].priority < p
         /\ LineUp(q, es, p) = SubSeq(q, 1, b - 1) \o es \o SubSeq(q, b, Len(q))
  BY LineUpPlace, Zenon
<1> DEFINE r == LineUp(q, es, p)
<1>2. /\ r \in Seq(Entries) /\ Len(r) = Len(q) + Len(es)
      /\ \A i \in 1..(b - 1) : r[i] = q[i]
      /\ \A i \in 1..Len(es) : r[b - 1 + i] = es[i]
      /\ \A i \in b..Len(q) : r[i + Len(es)] = q[i]
  <2> DEFINE t == SubSeq(q, 1, b - 1) \o es \o SubSeq(q, b, Len(q))
  <2>1. /\ t \in Seq(Entries) /\ Len(t) = Len(q) + Len(es)
        /\ \A i \in 1..(b - 1) : t[i] = q[i]
        /\ \A i \in 1..Len(es) : t[b - 1 + i] = es[i]
        /\ \A i \in b..Len(q) : t[i + Len(es)] = q[i]
    BY Inserted, Zenon
  <2>2. r = t BY <1>1, Zenon
  <2> HIDE DEF t, r
  <2> QED BY <2>1, <2>2
<1> HIDE DEF r
<1>3. Len(q) \in Nat /\ Len(es) \in Nat OBVIOUS
\* Every place of r is one of q or one of es.
<1>4. ASSUME NEW i \in 1..Len(r)
      PROVE  \/ i \in 1..(b - 1) /\ r[i] = q[i] /\ i \in 1..Len(q)
             \/ /\ i \in b..(b - 1 + Len(es))
                /\ i - b + 1 \in 1..Len(es) /\ r[i] = es[i - b + 1]
             \/ /\ i \in (b + Len(es))..(Len(q) + Len(es))
                /\ i - Len(es) \in b..Len(q) /\ r[i] = q[i - Len(es)]
  <2>1. CASE i < b
    BY <1>2, <1>3, <2>1
  <2>2. CASE b <= i /\ i < b + Len(es)
    <3>1. i - b + 1 \in 1..Len(es) /\ b - 1 + (i - b + 1) = i
      BY <1>3, <2>2
    <3>2. r[b - 1 + (i - b + 1)] = es[i - b + 1] BY <1>2, <3>1
    <3> QED BY <1>3, <2>2, <3>1, <3>2
  <2>3. CASE b + Len(es) <= i
    <3>1. i - Len(es) \in b..Len(q) /\ (i - Len(es)) + Len(es) = i
      BY <1>2, <1>3, <2>3
    <3>2. r[(i - Len(es)) + Len(es)] = q[i - Len(es)] BY <1>2, <3>1
    <3> QED BY <1>2, <1>3, <2>3, <3>1, <3>2
  <2> QED BY <1>3, <2>1, <2>2, <2>3
<1>5. ASSUME NEW h
      PROVE  Queued(r, Network, h) <=> Queued(q, Network, h) \/ Queued(es, Network, h)
  <2>1. ASSUME NEW i \in 1..Len(r), r[i].hash = h
        PROVE  (\E k \in 1..Len(q) : q[k].hash = h) \/ (\E k \in 1..Len(es) : es[k].hash = h)
    <3>1. \A k \in b..Len(q) : k \in 1..Len(q) BY <1>3
    <3> QED BY <1>4, <2>1, <3>1
  <2>2. ASSUME NEW i \in 1..Len(q), q[i].hash = h
        PROVE  \E k \in 1..Len(r) : r[k].hash = h
    <3>1. CASE i < b
      <4>1. i \in 1..(b - 1) /\ i \in 1..Len(r) BY <1>2, <1>3, <3>1
      <4> QED BY <1>2, <2>2, <4>1
    <3>2. CASE b <= i
      <4>1. i \in b..Len(q) /\ i + Len(es) \in 1..Len(r) BY <1>2, <1>3, <3>2
      <4> QED BY <1>2, <2>2, <4>1
    <3> QED BY <1>3, <3>1, <3>2
  <2>3. ASSUME NEW i \in 1..Len(es), es[i].hash = h
        PROVE  \E k \in 1..Len(r) : r[k].hash = h
    <3>1. b - 1 + i \in 1..Len(r) BY <1>2, <1>3
    <3> QED BY <1>2, <2>3, <3>1
  <2>4. r \in Seq(Entries) BY <1>2
  <2>5. Queued(r, Network, h) <=> \E i \in 1..Len(r) : r[i].hash = h
    BY <2>4, QueuedIn
  <2>6. Queued(q, Network, h) <=> \E i \in 1..Len(q) : q[i].hash = h
    BY QueuedIn
  <2>7. Queued(es, Network, h) <=> \E i \in 1..Len(es) : es[i].hash = h
    BY QueuedIn
  <2> QED BY <2>1, <2>2, <2>3, <2>5, <2>6, <2>7
<1>6. ASSUME Ordered(q), Ordered(es),
             \A i \in 1..Len(es) : es[i].priority = p,
             \A i \in 1..Len(q), j \in 1..Len(es) : q[i].hash # es[j].hash
      PROVE  Ordered(r)
  <2>1. /\ \A i, j \in 1..Len(q) : i < j =>
              q[i].hash # q[j].hash /\ q[i].priority >= q[j].priority
        /\ \A i, j \in 1..Len(es) : i < j => es[i].hash # es[j].hash
    BY <1>6 DEF Ordered
  <2>2. \A i \in 1..Len(q) : q[i].priority \in {0, 1}
    <3>1. \A i \in 1..Len(q) : q[i] \in Entries OBVIOUS
    <3> QED BY <3>1, EntryFacts
  <2>3. ASSUME NEW i \in b..Len(q) PROVE q[i].priority < p
    <3>1. i \in 1..Len(q) /\ b \in 1..Len(q) /\ (b < i \/ b = i) BY <1>3
    <3>2. q[b].priority < p BY <1>1, <1>3
    <3>3. b < i => q[b].priority >= q[i].priority BY <2>1, <3>1
    <3>4. /\ q[i].priority \in {0, 1} /\ q[b].priority \in {0, 1}
      BY <2>2, <3>1
    <3> QED BY <3>1, <3>2, <3>3, <3>4
  <2>4. ASSUME NEW i \in 1..Len(r), NEW j \in 1..Len(r), i < j
        PROVE  r[i].hash # r[j].hash /\ r[i].priority >= r[j].priority
    <3>1. CASE i \in 1..(b - 1) /\ r[i] = q[i] /\ i \in 1..Len(q)
      <4>1. CASE j \in 1..(b - 1) /\ r[j] = q[j] /\ j \in 1..Len(q)
        BY <2>1, <2>4, <3>1, <4>1
      <4>2. CASE /\ j \in b..(b - 1 + Len(es))
                 /\ j - b + 1 \in 1..Len(es) /\ r[j] = es[j - b + 1]
        <5>1. q[i].priority >= p BY <1>1, <3>1
        <5> QED BY <1>6, <3>1, <4>2, <5>1
      <4>3. CASE /\ j \in (b + Len(es))..(Len(q) + Len(es))
                 /\ j - Len(es) \in b..Len(q) /\ r[j] = q[j - Len(es)]
        <5>1. j - Len(es) \in 1..Len(q) /\ i < j - Len(es) BY <1>3, <3>1, <4>3
        <5> QED BY <2>1, <3>1, <4>3, <5>1
      <4> QED BY <1>4, <4>1, <4>2, <4>3
    <3>2. CASE /\ i \in b..(b - 1 + Len(es))
               /\ i - b + 1 \in 1..Len(es) /\ r[i] = es[i - b + 1]
      <4>1. CASE /\ j \in b..(b - 1 + Len(es))
                 /\ j - b + 1 \in 1..Len(es) /\ r[j] = es[j - b + 1]
        <5>1. i - b + 1 < j - b + 1 BY <1>3, <2>4, <3>2, <4>1
        <5>2. r[i].priority = p /\ r[j].priority = p BY <1>6, <3>2, <4>1
        <5>3. es[i - b + 1].hash # es[j - b + 1].hash BY <2>1, <3>2, <4>1, <5>1
        <5>4. p >= p BY <1>1
        <5> QED BY <3>2, <4>1, <5>2, <5>3, <5>4
      <4>2. CASE /\ j \in (b + Len(es))..(Len(q) + Len(es))
                 /\ j - Len(es) \in b..Len(q) /\ r[j] = q[j - Len(es)]
        <5>1. j - Len(es) \in 1..Len(q) BY <1>3, <4>2
        <5>2. q[j - Len(es)].priority < p /\ q[j - Len(es)].priority \in {0, 1}
          BY <2>2, <2>3, <4>2, <5>1
        <5>3. r[i].priority = p BY <1>6, <3>2
        <5>4. r[j].hash # r[i].hash BY <1>6, <3>2, <4>2, <5>1
        <5> QED BY <4>2, <5>2, <5>3, <5>4
      <4>3. ~(j \in 1..(b - 1)) BY <1>3, <2>4, <3>2
      <4> QED BY <1>4, <4>1, <4>2, <4>3
    <3>3. CASE /\ i \in (b + Len(es))..(Len(q) + Len(es))
               /\ i - Len(es) \in b..Len(q) /\ r[i] = q[i - Len(es)]
      <4>1. CASE /\ j \in (b + Len(es))..(Len(q) + Len(es))
                 /\ j - Len(es) \in b..Len(q) /\ r[j] = q[j - Len(es)]
        <5>1. /\ i - Len(es) \in 1..Len(q) /\ j - Len(es) \in 1..Len(q)
              /\ i - Len(es) < j - Len(es)
          BY <1>3, <2>4, <3>3, <4>1
        <5> QED BY <2>1, <3>3, <4>1, <5>1
      <4>2. ~(j \in 1..(b - 1)) /\ ~(j \in b..(b - 1 + Len(es)))
        BY <1>3, <2>4, <3>3
      <4> QED BY <1>4, <4>1, <4>2
    <3> QED BY <1>4, <3>1, <3>2, <3>3
  <2>5. DOMAIN r = 1..Len(r) BY <1>2
  <2> QED BY <2>4, <2>5 DEF Ordered
<1> QED BY <1>2, <1>5, <1>6 DEF r

\* Of the entries of one call, and what they add.
LEMMA EnqueueFacts ==
    ASSUME NEW q \in Seq(Entries), NEW e \in Entries
    PROVE  /\ Enqueue(q, e) \in Seq(Entries)
           /\ \A h : Queued(Enqueue(q, e), Network, h) <=>
                        Queued(q, Network, h) \/ h = e.hash
           /\ Ordered(q) => Ordered(Enqueue(q, e))
<1>1. e.network = Network /\ e.hash \in Hashes /\ e.priority \in {0, 1}
  BY EntryFacts
<1>2. CASE Queued(q, Network, e.hash)
  <2>1. Enqueue(q, e) = q BY <1>1, <1>2 DEF Enqueue
  <2> QED BY <1>2, <2>1
<1>3. CASE ~Queued(q, Network, e.hash)
  <2> DEFINE es == <<e>>
  <2>1. Enqueue(q, e) = LineUp(q, es, e.priority) BY <1>1, <1>3 DEF Enqueue
  <2>2. es \in Seq(Entries) /\ Len(es) = 1 /\ es[1] = e OBVIOUS
  <2> HIDE DEF es
  <2>3. \A h : Queued(es, Network, h) <=> h = e.hash
    <3> TAKE h
    <3>1. Queued(es, Network, h) <=> \E i \in 1..Len(es) : es[i].hash = h
      BY <2>2, QueuedIn
    <3> QED BY <2>2, <3>1
  <2>4. /\ \A i \in 1..Len(es) : es[i].priority = e.priority
        /\ Ordered(es)
    BY <2>2 DEF Ordered
  <2>5. \A i \in 1..Len(q), j \in 1..Len(es) : q[i].hash # es[j].hash
    <3>1. \A i \in 1..Len(q) : q[i].hash # e.hash BY <1>3, QueuedIn
    <3> QED BY <2>2, <3>1
  <2>6. /\ LineUp(q, es, e.priority) \in Seq(Entries)
        /\ \A h : Queued(LineUp(q, es, e.priority), Network, h) <=>
                     Queued(q, Network, h) \/ Queued(es, Network, h)
        /\ /\ Ordered(q) /\ Ordered(es)
           /\ \A i \in 1..Len(es) : es[i].priority = e.priority
           /\ \A i \in 1..Len(q), j \in 1..Len(es) : q[i].hash # es[j].hash
           => Ordered(LineUp(q, es, e.priority))
    BY <1>1, <2>2, LineUpFacts
  <2> QED BY <2>1, <2>3, <2>4, <2>5, <2>6
<1> QED BY <1>2, <1>3

\* The members of a finite set in a row, each once.
LEMMA SetInARow ==
    ASSUME NEW S, IsFiniteSet(S)
    PROVE  /\ SetToSeq(S) \in Seq(S)
           /\ \A i, j \in 1..Len(SetToSeq(S)) :
                 SetToSeq(S)[i] = SetToSeq(S)[j] => i = j
           /\ \A x \in S : \E i \in 1..Len(SetToSeq(S)) : SetToSeq(S)[i] = x
<1> DEFINE n == Cardinality(S)
           f == SetToSeq(S)
<1>1. n \in Nat /\ \E g : g \in Bijection(1..n, S)
  BY FS_CardinalityType, Zenon DEF ExistsBijection
<1>2. \E g \in [1..n -> S] : IsInjective(g)
  BY <1>1, Zenon DEF Bijection, Injection
<1>3. f \in [1..n -> S] /\ IsInjective(f)
  <2> HIDE DEF n
  <2> QED BY <1>2, Zenon DEF SetToSeq, n
<1> HIDE DEF f, n
<1>4. f \in Injection(1..n, S) BY <1>3, Zenon DEF Injection
<1>5. Cardinality(1..n) = n
  BY <1>1, FS_Interval
<1>6. f \in Surjection(1..n, S)
  BY <1>4, <1>5, FS_Injection, Zenon DEF n
<1>7. f \in Seq(S) /\ Len(f) = n /\ DOMAIN f = 1..n
  BY <1>1, <1>3
<1>8. \A i, j \in 1..n : f[i] = f[j] => i = j
  BY <1>3, <1>7, Zenon DEF IsInjective
<1>9. \A x \in S : \E i \in 1..n : f[i] = x
  BY <1>6, Zenon DEF Surjection
<1> QED BY <1>7, <1>8, <1>9, Zenon DEF f

LEMMA EnqueueAllFacts ==
    ASSUME NEW q \in Seq(Entries), NEW hs \in SUBSET Hashes, NEW p \in {0, 1},
           NEW old, \A h \in hs : old[h] \in BOOLEAN
    PROVE  LET r == EnqueueAll(q, Network, hs, old, p)
           IN  /\ r \in Seq(Entries)
               /\ \A h : Queued(r, Network, h) <=> Queued(q, Network, h) \/ h \in hs
               /\ Ordered(q) => Ordered(r)
<1> DEFINE fresh == {h \in hs : ~Queued(q, Network, h)}
           new   == SetToSeq(fresh)
           es    == [i \in 1..Len(new) |-> Entry(Network, new[i], old[new[i]], p)]
<1>1. EnqueueAll(q, Network, hs, old, p) = LineUp(q, es, p)
  BY DEF EnqueueAll
<1>2. fresh \in SUBSET Hashes /\ IsFiniteSet(fresh)
  <2>1. fresh \in SUBSET Hashes OBVIOUS
  <2>2. IsFiniteSet(Hashes) BY TrackingAssumption, Zenon DEF Hashes
  <2> HIDE DEF fresh
  <2> QED BY <2>1, <2>2, FS_Subset, Zenon
<1> HIDE DEF fresh
<1>3. /\ new \in Seq(fresh)
      /\ \A i, j \in 1..Len(new) : new[i] = new[j] => i = j
      /\ \A x \in fresh : \E i \in 1..Len(new) : new[i] = x
  BY <1>2, SetInARow, Zenon
<1> HIDE DEF new
<1>4. Len(new) \in Nat /\ \A i \in 1..Len(new) : new[i] \in fresh
  BY <1>3
<1>5. /\ Len(es) = Len(new)
      /\ \A i \in 1..Len(es) :
            es[i] = Entry(Network, new[i], old[new[i]], p)
  BY <1>4
<1>6. \A i \in 1..Len(es) :
         es[i] \in Entries /\ es[i].hash = new[i] /\ es[i].priority = p
  <2> TAKE i \in 1..Len(es)
  <2>1. new[i] \in hs /\ new[i] \in Hashes
    BY <1>2, <1>4, <1>5 DEF fresh
  <2>2. es[i] = Entry(Network, new[i], old[new[i]], p) BY <1>5
  <2> HIDE DEF es
  <2> QED BY <2>1, <2>2 DEF Entry, Entries
<1>7. es \in Seq(Entries)
  <2>1. es = [i \in 1..Len(new) |-> es[i]] OBVIOUS
  <2>2. \A i \in 1..Len(new) : es[i] \in Entries BY <1>5, <1>6
  <2> HIDE DEF es
  <2> QED BY <1>4, <2>1, <2>2
<1> HIDE DEF es
<1>8. \A h : Queued(es, Network, h) <=> h \in fresh
  <2> TAKE h
  <2>1. Queued(es, Network, h) <=> \E i \in 1..Len(es) : es[i].hash = h
    BY <1>7, QueuedIn
  <2> QED BY <1>3, <1>4, <1>5, <1>6, <2>1
<1>9. Ordered(es)
  <2>1. DOMAIN es = 1..Len(es) BY <1>7
  <2>2. ASSUME NEW i \in 1..Len(es), NEW j \in 1..Len(es), i < j
        PROVE  es[i].hash # es[j].hash /\ es[i].priority >= es[j].priority
    <3>1. es[i].priority = p /\ es[j].priority = p /\ p >= p BY <1>6
    <3>2. i # j BY <1>4, <1>5, <2>2
    <3> QED BY <1>3, <1>5, <1>6, <3>1, <3>2
  <2> QED BY <2>1, <2>2 DEF Ordered
<1>10. \A i \in 1..Len(q), j \in 1..Len(es) : q[i].hash # es[j].hash
  <2> TAKE i \in 1..Len(q), j \in 1..Len(es)
  <2>1. ~Queued(q, Network, es[j].hash) BY <1>4, <1>5, <1>6 DEF fresh
  <2> QED BY <2>1, QueuedIn
<1>11. /\ LineUp(q, es, p) \in Seq(Entries)
       /\ \A h : Queued(LineUp(q, es, p), Network, h) <=>
                    Queued(q, Network, h) \/ Queued(es, Network, h)
       /\ /\ Ordered(q) /\ Ordered(es)
          /\ \A i \in 1..Len(es) : es[i].priority = p
          /\ \A i \in 1..Len(q), j \in 1..Len(es) : q[i].hash # es[j].hash
          => Ordered(LineUp(q, es, p))
  BY <1>7, LineUpFacts, Zenon
<1>12. \A h : Queued(LineUp(q, es, p), Network, h) <=>
                 Queued(q, Network, h) \/ h \in hs
  BY <1>8, <1>11 DEF fresh
<1> QED BY <1>1, <1>6, <1>9, <1>10, <1>11, <1>12, Zenon

\* A hash leaves the queue, the others stay; once the queue holds it once, it
\* is gone.
LEMMA DequeueFacts ==
    ASSUME NEW q \in Seq(Entries), NEW h
    PROVE  /\ Dequeue(q, Network, h) \in Seq(Entries)
           /\ \A g : Queued(Dequeue(q, Network, h), Network, g) => Queued(q, Network, g)
           /\ \A g : g # h /\ Queued(q, Network, g) =>
                        Queued(Dequeue(q, Network, h), Network, g)
           /\ Ordered(q) => Ordered(Dequeue(q, Network, h))
<1>1. CASE ~Queued(q, Network, h)
  BY <1>1 DEF Dequeue
<1>2. CASE Queued(q, Network, h)
  <2> DEFINE I == {i \in 1..Len(q) : q[i].hash = h}
             b == Min(I)
             r == RemoveAt(q, b)
  <2>1. I # {} /\ I \in SUBSET Nat BY <1>2, QueuedIn
  <2>2. Dequeue(q, Network, h) = r
    <3>1. \E i \in 1..Len(q) : q[i].hash = h BY <2>1
    <3>2. Dequeue(q, Network, h) = RemoveFirstMatch(q, LAMBDA x : x.hash = h)
      BY <1>2 DEF Dequeue
    <3>3. RemoveFirstMatch(q, LAMBDA x : x.hash = h)
             = RemoveAt(q, SelectInSeq(q, LAMBDA x : x.hash = h))
      BY <3>1 DEF RemoveFirstMatch
    <3>4. SelectInSeq(q, LAMBDA x : x.hash = h) = b
      BY <2>1 DEF SelectInSeq
    <3> QED BY <3>2, <3>3, <3>4
  <2>3. b \in I
    <3> HIDE DEF I
    <3> QED BY <2>1, Minimum
  <2>4. b \in 1..Len(q) /\ q[b].hash = h
    <3> HIDE DEF b
    <3> QED BY <2>3
  <2> HIDE DEF b
  <2>5. /\ r \in Seq(Entries) /\ Len(r) = Len(q) - 1
        /\ \A i \in 1..(b - 1) : r[i] = q[i]
        /\ \A i \in b..(Len(q) - 1) : r[i] = q[i + 1]
    BY <2>4, Removed, Zenon
  <2> HIDE DEF r
  <2>6. Len(q) \in Nat OBVIOUS
  <2>7. ASSUME NEW i \in 1..Len(r)
        PROVE  \/ i < b /\ i \in 1..Len(q) /\ r[i] = q[i]
               \/ b <= i /\ i + 1 \in 1..Len(q) /\ r[i] = q[i + 1]
    BY <2>4, <2>5, <2>6
  <2>8. \A g : /\ Queued(r, Network, g) <=> \E i \in 1..Len(r) : r[i].hash = g
               /\ Queued(q, Network, g) <=> \E i \in 1..Len(q) : q[i].hash = g
    BY <2>5, QueuedIn
  <2>9. \A g : Queued(r, Network, g) => Queued(q, Network, g)
    BY <2>7, <2>8
  <2>10. ASSUME NEW g, g # h, Queued(q, Network, g) PROVE Queued(r, Network, g)
    <3>1. PICK i \in 1..Len(q) : q[i].hash = g BY <2>8, <2>10
    <3>2. CASE i < b
      <4>1. i \in 1..(b - 1) /\ i \in 1..Len(r) BY <2>4, <2>5, <2>6, <3>2
      <4> QED BY <2>5, <2>8, <3>1, <4>1
    <3>3. CASE b < i
      <4>1. i - 1 \in b..(Len(q) - 1) /\ i - 1 \in 1..Len(r) /\ (i - 1) + 1 = i
        BY <2>4, <2>5, <2>6, <3>3
      <4>2. r[i - 1] = q[(i - 1) + 1] BY <2>5, <4>1
      <4> QED BY <2>8, <3>1, <4>1, <4>2
    <3>4. i # b BY <2>4, <2>10, <3>1
    <3> QED BY <2>4, <3>2, <3>3, <3>4
  <2>11. ASSUME Ordered(q) PROVE Ordered(r)
    <3>1. \A i, j \in 1..Len(q) : i < j =>
             q[i].hash # q[j].hash /\ q[i].priority >= q[j].priority
      BY <2>11 DEF Ordered
    <3>2. ASSUME NEW i \in 1..Len(r), NEW j \in 1..Len(r), i < j
          PROVE  r[i].hash # r[j].hash /\ r[i].priority >= r[j].priority
      <4>1. CASE i < b /\ i \in 1..Len(q) /\ r[i] = q[i]
        <5>1. CASE j < b /\ j \in 1..Len(q) /\ r[j] = q[j]
          BY <3>1, <3>2, <4>1, <5>1
        <5>2. CASE b <= j /\ j + 1 \in 1..Len(q) /\ r[j] = q[j + 1]
          <6>1. i < j + 1 BY <3>2
          <6> QED BY <3>1, <4>1, <5>2, <6>1
        <5> QED BY <2>7, <5>1, <5>2
      <4>2. CASE b <= i /\ i + 1 \in 1..Len(q) /\ r[i] = q[i + 1]
        <5>1. b <= j /\ i + 1 < j + 1 BY <2>4, <3>2, <4>2
        <5>2. j + 1 \in 1..Len(q) /\ r[j] = q[j + 1] BY <2>4, <2>7, <5>1
        <5> QED BY <3>1, <4>2, <5>1, <5>2
      <4> QED BY <2>7, <4>1, <4>2
    <3>3. DOMAIN r = 1..Len(r) BY <2>5
    <3> QED BY <3>2, <3>3 DEF Ordered
  <2> QED BY <2>2, <2>5, <2>9, <2>10, <2>11
<1> QED BY <1>1, <1>2

-----------------------------------------------------------------------------
(* Types.                                                                  *)

LEMMA FreshEntryFacts ==
    ASSUME NEW h \in Hashes
    PROVE  FreshEntry(h) \in Entries /\ FreshEntry(h).hash = h
BY DEF FreshEntry, Entry, Entries

\* Subscribing queues the transaction and nothing else.
LEMMA SubscribeFacts ==
    ASSUME TypeOK, NEW h \in Hashes, Subscribe(h)
    PROVE  /\ queue' \in Seq(Entries) /\ listeners' \subseteq Hashes
           /\ \A g : Queued(queue', Network, g) <=> InQueue(g) \/ g = h
           /\ QueueOrdered => QueueOrdered'
<1>1. queue \in Seq(Entries) /\ listeners \subseteq Hashes BY DEF TypeOK
<1>2. queue' = Enqueue(queue, FreshEntry(h)) /\ listeners' = listeners \cup {h}
  BY DEF Subscribe
<1>3. FreshEntry(h) \in Entries /\ FreshEntry(h).hash = h BY FreshEntryFacts
<1>4. /\ Enqueue(queue, FreshEntry(h)) \in Seq(Entries)
      /\ \A g : Queued(Enqueue(queue, FreshEntry(h)), Network, g) <=>
                   Queued(queue, Network, g) \/ g = FreshEntry(h).hash
      /\ Ordered(queue) => Ordered(Enqueue(queue, FreshEntry(h)))
  BY <1>1, <1>3, EnqueueFacts, Zenon
<1>5. Ordered(queue) <=> QueueOrdered BY Zenon DEF Ordered, QueueOrdered
<1>6. Ordered(queue') <=> QueueOrdered' BY Zenon DEF Ordered, QueueOrdered
<1>7. queue' \in Seq(Entries) BY <1>2, <1>4, Zenon
<1>8. \A g : Queued(queue', Network, g) <=> InQueue(g) \/ g = h
  BY <1>2, <1>3, <1>4, Zenon DEF InQueue
<1>9. QueueOrdered => QueueOrdered' BY <1>2, <1>4, <1>5, <1>6, Zenon
<1> QED BY <1>1, <1>2, <1>7, <1>8, <1>9

\* A new save comes last.
LEMMA SavingFacts ==
    ASSUME TypeOK, NEW h \in Hashes, NEW status \in Statuses \ {"absent"},
           NEW block \in BOOLEAN, NEW next \in {"end", "watch"} \cup Slots,
           Saving(h, status, block, next)
    PROVE  /\ saves' \in Seq(Save) /\ Len(saves') = Len(saves) + 1
           /\ \A i \in 1..Len(saves) : saves'[i] = saves[i]
           /\ saves'[Len(saves) + 1] = NewSave(h, status, block, next)
<1>1. NewSave(h, status, block, next) \in Save
  BY DEF NewSave, Save
<1>2. saves \in Seq(Save) /\ saves' = Append(saves, NewSave(h, status, block, next))
  BY DEF TypeOK, Saving
<1> QED BY <1>1, <1>2

LEMMA InitType == ASSUME Init PROVE TypeOK
<1>1. 0 \in 0..MaxFailures /\ 0 \in 0..MaxRestarts BY TrackingAssumption
<1>2. node \in [Hashes -> {"unknown", "pool", "mined", "gone"}] BY DEF Init
<1>3. record \in [Hashes -> Record] BY DEF Init, Record, Absent, Statuses
<1>4. lookup \in [Slots -> Lookup] BY DEF Init, Lookup
<1>5. saves \in Seq(Save) /\ queue \in Seq(Entries) BY DEF Init
<1>6. sending \in [Sent -> {"ready", "inFlight", "answered", "rejected"}] BY DEF Init
<1> QED BY <1>1, <1>2, <1>3, <1>4, <1>5, <1>6 DEF Init, TypeOK

\* Lookups of a stage, and what a step may turn one into.
LEMMA LookupFacts ==
    ASSUME TypeOK, NEW s \in Slots
    PROVE  /\ lookup[s] = Idle \/ lookup[s] \in [stage : Stages, hash : Hashes, old : BOOLEAN]
           /\ lookup[s] # Idle =>
                 /\ lookup[s].hash \in Hashes /\ lookup[s].old \in BOOLEAN
                 /\ \A stage \in Stages : [lookup[s] EXCEPT !.stage = stage] \in Lookup
           /\ Idle \in Lookup
<1>1. lookup[s] \in Lookup BY DEF TypeOK
<1> QED BY <1>1 DEF Lookup

LEMMA NextStage ==
    ASSUME TypeOK, NEW s \in Slots, lookup[s] # Idle, NEW stage \in Stages
    PROVE  [lookup EXCEPT ![s].stage = stage] \in [Slots -> Lookup]
<1>1. [lookup[s] EXCEPT !.stage = stage] \in Lookup BY LookupFacts
<1> QED BY <1>1 DEF TypeOK

LEMMA NoLookup ==
    ASSUME TypeOK, NEW s \in Slots
    PROVE  [lookup EXCEPT ![s] = Idle] \in [Slots -> Lookup]
BY LookupFacts DEF TypeOK

LEMMA BroadcastType ==
    ASSUME TypeOK, NEW h \in Sent, Broadcast(h) PROVE TypeOK'
<1>1. h \in Hashes BY DEF Hashes
<1>2. queue' \in Seq(Entries) /\ listeners' \subseteq Hashes
  BY <1>1, SubscribeFacts DEF Broadcast
<1>3. saves' \in Seq(Save)
  BY <1>1, SavingFacts DEF Broadcast, Statuses
<1>4. sending' \in [Sent -> {"ready", "inFlight", "answered", "rejected"}]
  BY DEF Broadcast, TypeOK
<1> QED BY <1>2, <1>3, <1>4 DEF Broadcast, TypeOK

LEMMA SendAnsweredType ==
    ASSUME TypeOK, NEW h \in Sent, SendAnswered(h) PROVE TypeOK'
BY DEF SendAnswered, TypeOK, local

LEMMA SendRejectedType ==
    ASSUME TypeOK, NEW h \in Sent, SendRejected(h) PROVE TypeOK'
<1>1. h \in Hashes BY DEF Hashes
<1>2. saves' \in Seq(Save)
  BY <1>1, SavingFacts DEF SendRejected, Statuses, Final
<1>3. failures' \in 0..MaxFailures
  BY TrackingAssumption DEF SendRejected, TypeOK
<1>4. sending' \in [Sent -> {"ready", "inFlight", "answered", "rejected"}]
  BY DEF SendRejected, TypeOK
<1> QED BY <1>2, <1>3, <1>4 DEF SendRejected, TypeOK

LEMMA MoveType ==
    ASSUME TypeOK, NEW h \in Hashes, NEW from,
           NEW to \in {"unknown", "pool", "mined", "gone"}, Move(h, from, to)
    PROVE  TypeOK'
<1>1. node' \in [Hashes -> {"unknown", "pool", "mined", "gone"}]
  BY DEF Move, TypeOK
<1> QED BY <1>1 DEF Move, TypeOK, local

LEMMA ReadExistingType == ASSUME TypeOK, ReadExisting PROVE TypeOK'
<1>1. PICK i \in DOMAIN saves : saves' = [saves EXCEPT ![i].base = record[saves[i].hash]]
  BY DEF ReadExisting
<1>2. saves \in Seq(Save) /\ saves[i] \in Save /\ record \in [Hashes -> Record]
  BY DEF TypeOK
<1>3. record[saves[i].hash] \in Record BY <1>2 DEF Save
<1>4. [saves[i] EXCEPT !.base = record[saves[i].hash]] \in Save
  BY <1>2, <1>3 DEF Save
<1>5. saves' \in Seq(Save) BY <1>1, <1>2, <1>4
<1> QED BY <1>5 DEF ReadExisting, TypeOK

\* What the first save leaves.
LEMMA HeadFacts ==
    ASSUME TypeOK, PutRecord
    PROVE  /\ Len(saves) \in Nat /\ Len(saves) > 0 /\ Head(saves) = saves[1]
           /\ saves[1] \in Save /\ saves[1].base \in Record
           /\ saves' \in Seq(Save) /\ Len(saves') = Len(saves) - 1
           /\ \A i \in 1..(Len(saves) - 1) : saves'[i] = saves[i + 1]
<1>1. saves \in Seq(Save) /\ saves # <<>> /\ saves' = Tail(saves)
  BY DEF TypeOK, PutRecord
<1>2. Head(saves) = saves[1] /\ saves[1] \in Save /\ Len(saves) \in Nat /\ Len(saves) > 0
  BY <1>1
<1>3. saves[1].base \in Record BY <1>2 DEF PutRecord, Save
<1>4. /\ saves' \in Seq(Save) /\ Len(saves') = Len(saves) - 1
      /\ \A i \in 1..(Len(saves) - 1) : saves'[i] = saves[i + 1]
  BY <1>1, <1>2
<1> QED BY <1>2, <1>3, <1>4

LEMMA PutRecordType == ASSUME TypeOK, PutRecord PROVE TypeOK'
<1> DEFINE s == saves[1]
<1>1. /\ s \in Save /\ s.base \in Record /\ saves' \in Seq(Save) /\ s = Head(saves)
  BY HeadFacts
<1>2. s.hash \in Hashes /\ s.status \in Statuses /\ s.block \in BOOLEAN
      /\ s.next \in {"end", "watch"} \cup Slots
  BY <1>1 DEF Save
<1>3. Merge(s.base, s) \in Record
  BY <1>1, <1>2 DEF Merge, Record
<1> HIDE DEF s
<1>4. record' = [record EXCEPT ![s.hash] = Merge(s.base, s)]
  BY <1>1 DEF PutRecord
<1>5. record' \in [Hashes -> Record]
  BY <1>3, <1>4 DEF TypeOK
<1>6. /\ lookup' \in [Slots -> Lookup] /\ queue' \in Seq(Entries)
      /\ listeners' \subseteq Hashes
  <2>1. CASE s.next = "end" /\ UNCHANGED <<lookup, listeners, queue>>
    BY <2>1 DEF TypeOK
  <2>2. CASE s.next = "watch" /\ Subscribe(s.hash) /\ UNCHANGED lookup
    BY <1>2, <2>2, SubscribeFacts DEF TypeOK
  <2>3. CASE /\ s.next \in Slots /\ lookup[s.next].stage = "savingPending"
             /\ lookup' = [lookup EXCEPT ![s.next] = Idle] /\ Subscribe(s.hash)
    BY <1>2, <2>3, SubscribeFacts, NoLookup
  <2>4. CASE /\ s.next \in Slots /\ lookup[s.next].stage = "savingMined"
             /\ lookup' = [lookup EXCEPT ![s.next].stage = "block"]
             /\ UNCHANGED <<listeners, queue>>
    <3>1. lookup[s.next] # Idle BY <2>4 DEF Idle
    <3>2. lookup' \in [Slots -> Lookup] BY <2>4, <3>1, NextStage DEF Stages
    <3> QED BY <2>4, <3>2 DEF TypeOK
  <2> QED BY <1>1, <2>1, <2>2, <2>3, <2>4 DEF PutRecord
<1> QED BY <1>1, <1>5, <1>6 DEF PutRecord, TypeOK

LEMMA TimerType ==
    ASSUME TypeOK, Alarm \/ StopTimer PROVE TypeOK'
BY DEF Alarm, StopTimer, TypeOK

\* What a tick takes off the queue.
LEMMA TickFacts ==
    ASSUME TypeOK, NEW s \in Slots, Tick(s)
    PROVE  /\ Head(queue) \in Entries /\ Head(queue).network = Network
           /\ Head(queue).hash \in Hashes /\ Head(queue).old \in BOOLEAN
           /\ queue' = Dequeue(queue, Network, Head(queue).hash)
           /\ lookup' = [lookup EXCEPT ![s] =
                 [stage |-> "asked", hash |-> Head(queue).hash, old |-> Head(queue).old]]
           /\ \A i \in DOMAIN saves : saves[i].hash # Head(queue).hash
<1>1. queue \in Seq(Entries) /\ queue # <<>> BY DEF Tick, TypeOK
<1>2. Head(queue) \in Entries BY <1>1
<1> QED BY <1>2 DEF Tick, Entries

LEMMA TickType == ASSUME TypeOK, NEW s \in Slots, Tick(s) PROVE TypeOK'
<1>1. queue \in Seq(Entries) BY DEF TypeOK
<1>2. queue' \in Seq(Entries) BY <1>1, TickFacts, DequeueFacts, Zenon
<1>3. [stage |-> "asked", hash |-> Head(queue).hash, old |-> Head(queue).old] \in Lookup
  BY TickFacts DEF Lookup, Stages
<1>4. lookup' \in [Slots -> Lookup] BY <1>3, TickFacts DEF TypeOK
<1> QED BY <1>2, <1>4 DEF Tick, TypeOK

LEMMA AnswerLookupType ==
    ASSUME TypeOK, NEW s \in Slots, AnswerLookup(s) PROVE TypeOK'
<1>1. Found(lookup[s].hash) \in Stages BY DEF Found, Stages
<1>2. lookup[s] # Idle BY DEF AnswerLookup, At
<1>3. lookup' \in [Slots -> Lookup] BY <1>1, <1>2, NextStage DEF AnswerLookup
<1> QED BY <1>3 DEF AnswerLookup, TypeOK

LEMMA HandleNullType ==
    ASSUME TypeOK, NEW s \in Slots, HandleNull(s) PROVE TypeOK'
<1>1. queue \in Seq(Entries) BY DEF TypeOK
<1>2. queue' \in Seq(Entries) BY <1>1, DequeueFacts, Zenon DEF HandleNull
<1>3. lookup[s] # Idle BY DEF HandleNull, At
<1>4. lookup' \in [Slots -> Lookup] BY <1>3, NextStage DEF HandleNull, Stages
<1> QED BY <1>2, <1>4 DEF HandleNull, TypeOK

LEMMA CancelLookupType ==
    ASSUME TypeOK, NEW s \in Slots, CancelLookup(s) PROVE TypeOK'
<1>1. lookup[s].hash \in Hashes BY LookupFacts DEF CancelLookup, At
<1>2. saves' \in Seq(Save)
  BY <1>1, SavingFacts DEF CancelLookup, Statuses, Final, TypeOK
<1>3. lookup' \in [Slots -> Lookup] BY NoLookup DEF CancelLookup
<1> QED BY <1>2, <1>3 DEF CancelLookup, TypeOK

LEMMA HandleFoundType ==
    ASSUME TypeOK, NEW s \in Slots, HandleFound(s) PROVE TypeOK'
<1>1. lookup[s] # Idle /\ lookup[s].hash \in Hashes
  BY LookupFacts DEF HandleFound, At
<1>2. saves' \in Seq(Save)
  BY <1>1, SavingFacts DEF HandleFound, Statuses
<1>3. lookup' \in [Slots -> Lookup]
  <2>1. "savingPending" \in Stages /\ "savingMined" \in Stages BY DEF Stages
  <2>2. CASE lookup' = [lookup EXCEPT ![s].stage = "savingPending"]
    BY <1>1, <2>1, <2>2, NextStage
  <2>3. CASE lookup' = [lookup EXCEPT ![s].stage = "savingMined"]
    BY <1>1, <2>1, <2>3, NextStage
  <2> QED BY <2>2, <2>3 DEF HandleFound
<1> QED BY <1>2, <1>3 DEF HandleFound, TypeOK

LEMMA AnswerBlockType ==
    ASSUME TypeOK, NEW s \in Slots, AnswerBlock(s) PROVE TypeOK'
<1>1. lookup' \in [Slots -> Lookup] BY NextStage DEF AnswerBlock, At, Stages
<1> QED BY <1>1 DEF AnswerBlock, TypeOK

LEMMA AnswerReceiptType ==
    ASSUME TypeOK, NEW s \in Slots, AnswerReceipt(s) PROVE TypeOK'
<1>1. lookup[s].hash \in Hashes BY LookupFacts DEF AnswerReceipt, At
<1>2. saves' \in Seq(Save)
  BY <1>1, SavingFacts DEF AnswerReceipt, Statuses, Final, TypeOK
<1>3. lookup' \in [Slots -> Lookup] BY NoLookup DEF AnswerReceipt
<1>4. failures' \in 0..MaxFailures
  <2>1. failures \in 0..MaxFailures /\ MaxFailures \in Nat
    BY TrackingAssumption DEF TypeOK
  <2>2. \/ failures' = failures
        \/ failures < MaxFailures /\ failures' = failures + 1
    BY Zenon DEF AnswerReceipt
  <2> QED BY <2>1, <2>2
<1> QED BY <1>2, <1>3, <1>4 DEF AnswerReceipt, TypeOK

LEMMA FailLookupType ==
    ASSUME TypeOK, NEW s \in Slots, FailLookup(s) PROVE TypeOK'
<1>1. lookup[s] # Idle /\ lookup[s].hash \in Hashes
  BY LookupFacts DEF FailLookup, At
<1>2. queue \in Seq(Entries) BY DEF TypeOK
<1>3. lookup' \in [Slots -> Lookup] /\ queue' \in Seq(Entries)
  <2>1. CASE lookup[s].old
    <3>1. lookup' = [lookup EXCEPT ![s].stage = "expire"] /\ queue' = queue
      BY <2>1, Zenon DEF FailLookup
    <3>2. "expire" \in Stages BY DEF Stages
    <3>3. [lookup EXCEPT ![s].stage = "expire"] \in [Slots -> Lookup]
      BY <1>1, <3>2, NextStage
    <3> QED BY <1>2, <3>1, <3>3
  <2>2. CASE ~lookup[s].old
    BY <1>1, <1>2, <2>2, NoLookup, EnqueueFacts, FreshEntryFacts DEF FailLookup
  <2> QED BY <2>1, <2>2
<1>4. failures' \in 0..MaxFailures BY TrackingAssumption DEF FailLookup, TypeOK
<1> QED BY <1>3, <1>4 DEF FailLookup, TypeOK

LEMMA ExpireLookupType ==
    ASSUME TypeOK, NEW s \in Slots, ExpireLookup(s) PROVE TypeOK'
<1>1. lookup[s].hash \in Hashes BY LookupFacts DEF ExpireLookup, At
<1>2. record[lookup[s].hash] \in Record BY <1>1 DEF TypeOK
<1>3. saves' \in Seq(Save)
  <2>1. CASE record[lookup[s].hash].status = "absent"
    BY <2>1 DEF ExpireLookup, TypeOK
  <2>2. CASE record[lookup[s].hash].status = "open"
    BY <1>1, <1>2, <2>2, SavingFacts DEF ExpireLookup, Record, Statuses, Final
  <2>3. CASE record[lookup[s].hash].status \in Final
    BY <1>1, <1>2, <2>3, SavingFacts DEF ExpireLookup, Record, Statuses, Final
  <2> QED BY <1>2, <2>1, <2>2, <2>3 DEF Record, Statuses
<1>4. lookup' \in [Slots -> Lookup] BY NoLookup DEF ExpireLookup
<1> QED BY <1>3, <1>4 DEF ExpireLookup, TypeOK

\* Time changes no hash and no priority.
LEMMA GrowOldFacts ==
    ASSUME TypeOK, GrowOld
    PROVE  /\ queue' \in Seq(Entries) /\ DOMAIN queue' = DOMAIN queue
           /\ \A i \in DOMAIN queue : /\ queue'[i].hash = queue[i].hash
                                      /\ queue'[i].network = queue[i].network
                                      /\ queue'[i].priority = queue[i].priority
           /\ lookup' \in [Slots -> Lookup]
           /\ \A s \in Slots : /\ lookup'[s] = Idle <=> lookup[s] = Idle
                               /\ lookup[s] # Idle =>
                                     /\ lookup'[s].hash = lookup[s].hash
                                     /\ lookup'[s].stage = lookup[s].stage
<1>1. queue \in Seq(Entries) BY DEF TypeOK
<1>2. /\ Len(queue) \in Nat /\ DOMAIN queue = 1..Len(queue)
      /\ \A i \in 1..Len(queue) : queue[i] \in Entries
  BY <1>1
<1>3. queue' = [i \in 1..Len(queue) |-> [queue[i] EXCEPT !.old = TRUE]]
  BY <1>2 DEF GrowOld
<1>4. ASSUME NEW i \in 1..Len(queue)
      PROVE  /\ queue'[i] \in Entries
             /\ queue'[i].hash = queue[i].hash
             /\ queue'[i].network = queue[i].network
             /\ queue'[i].priority = queue[i].priority
  <2>1. queue[i] \in Entries /\ queue'[i] = [queue[i] EXCEPT !.old = TRUE]
    BY <1>2, <1>3
  <2> QED BY <2>1 DEF Entries
<1>5. queue' \in Seq(Entries) /\ DOMAIN queue' = 1..Len(queue)
  <2>1. [i \in 1..Len(queue) |-> [queue[i] EXCEPT !.old = TRUE]]
            \in [1..Len(queue) -> Entries]
    BY <1>3, <1>4
  <2>2. queue' \in [1..Len(queue) -> Entries] BY <1>3, <2>1
  <2> QED BY <1>2, <2>2
<1>6. ASSUME NEW s \in Slots
      PROVE  /\ lookup'[s] \in Lookup
             /\ lookup'[s] = Idle <=> lookup[s] = Idle
             /\ lookup[s] # Idle => /\ lookup'[s].hash = lookup[s].hash
                                    /\ lookup'[s].stage = lookup[s].stage
  <2>1. lookup'[s] = IF lookup[s] = Idle THEN Idle ELSE [lookup[s] EXCEPT !.old = TRUE]
    BY DEF GrowOld
  <2>2. CASE lookup[s] = Idle BY <2>1, <2>2, LookupFacts
  <2>3. CASE lookup[s] # Idle
    <3>1. lookup[s] \in [stage : Stages, hash : Hashes, old : BOOLEAN]
      BY <2>3, LookupFacts
    <3>2. lookup'[s] = [lookup[s] EXCEPT !.old = TRUE] BY <2>1, <2>3
    <3>3. /\ lookup'[s] \in [stage : Stages, hash : Hashes, old : BOOLEAN]
          /\ lookup'[s].hash = lookup[s].hash /\ lookup'[s].stage = lookup[s].stage
      BY <3>1, <3>2
    <3>4. lookup'[s].stage \in Stages BY <3>3
    <3>5. lookup'[s] # Idle BY <3>4 DEF Idle, Stages
    <3> QED BY <2>3, <3>3, <3>5 DEF Lookup
  <2> QED BY <2>2, <2>3
<1>7. lookup' \in [Slots -> Lookup]
  <2>1. DOMAIN lookup' = Slots /\ lookup' = [s \in Slots |-> lookup'[s]]
    BY DEF GrowOld
  <2> QED BY <1>6, <2>1
<1> QED BY <1>2, <1>4, <1>5, <1>6, <1>7

LEMMA GrowOldType == ASSUME TypeOK, GrowOld PROVE TypeOK'
BY GrowOldFacts DEF GrowOld, TypeOK

LEMMA ReceiptEventType ==
    ASSUME TypeOK, NEW h \in Hashes, ReceiptEvent(h) PROVE TypeOK'
<1>1. queue \in Seq(Entries) BY DEF TypeOK
<1>2. queue' \in Seq(Entries) BY <1>1, DequeueFacts, Zenon DEF ReceiptEvent
<1>3. saves' \in Seq(Save) BY SavingFacts DEF ReceiptEvent, Statuses, Final
<1> QED BY <1>2, <1>3 DEF ReceiptEvent, TypeOK

LEMMA PendingEventType ==
    ASSUME TypeOK, NEW h \in Hashes, PendingEvent(h) PROVE TypeOK'
<1>1. saves' \in Seq(Save) BY SavingFacts DEF PendingEvent, Statuses
<1> QED BY <1>1 DEF PendingEvent, TypeOK

\* Transfers and the stored transactions are queued with one priority each.
LEMMA LoadTransfersFacts ==
    ASSUME TypeOK, LoadTransfers
    PROVE  /\ queue' \in Seq(Entries)
           /\ \A g : Queued(queue', Network, g) <=>
                 InQueue(g) \/ g \in {h \in Hashes : node[h] = "mined" /\ record[h].status = "absent"}
           /\ Ordered(queue) => Ordered(queue')
<1>1. queue \in Seq(Entries) BY DEF TypeOK
<1> DEFINE unsaved == {h \in Hashes : node[h] = "mined" /\ record[h].status = "absent"}
           old == [h \in Hashes |-> FALSE]
<1>2. PICK p \in {0, 1} : queue' = EnqueueAll(queue, Network, unsaved, old, p)
  BY DEF LoadTransfers
<1>3. unsaved \in SUBSET Hashes /\ \A h \in unsaved : old[h] \in BOOLEAN OBVIOUS
<1> HIDE DEF unsaved, old
<1> DEFINE r == EnqueueAll(queue, Network, unsaved, old, p)
<1>4. /\ r \in Seq(Entries)
      /\ \A h : Queued(r, Network, h) <=> Queued(queue, Network, h) \/ h \in unsaved
      /\ Ordered(queue) => Ordered(r)
  BY <1>1, <1>3, EnqueueAllFacts, Zenon
<1> QED BY <1>2, <1>4, Zenon DEF unsaved, InQueue

LEMMA QueueStoredFacts ==
    ASSUME TypeOK, QueueStored
    PROVE  /\ queue' \in Seq(Entries)
           /\ \A g : Queued(queue', Network, g) <=> InQueue(g) \/ g \in StoredPending
           /\ Ordered(queue) => Ordered(queue')
<1>1. queue \in Seq(Entries) BY DEF TypeOK
<1>2. PICK old \in [StoredPending -> BOOLEAN] :
         queue' = EnqueueAll(queue, Network, StoredPending, old, 0)
  BY DEF QueueStored
<1>3. /\ StoredPending \in SUBSET Hashes /\ \A h \in StoredPending : old[h] \in BOOLEAN
      /\ 0 \in {0, 1}
  BY DEF StoredPending
<1> DEFINE r == EnqueueAll(queue, Network, StoredPending, old, 0)
<1>4. /\ r \in Seq(Entries)
      /\ \A h : Queued(r, Network, h) <=> Queued(queue, Network, h) \/ h \in StoredPending
      /\ Ordered(queue) => Ordered(r)
  BY <1>1, <1>3, EnqueueAllFacts, Zenon
<1> QED BY <1>2, <1>4, Zenon DEF InQueue

LEMMA RestartType == ASSUME TypeOK, Restart PROVE TypeOK'
<1>1. restarts' \in 0..MaxRestarts BY TrackingAssumption DEF Restart, TypeOK
<1>2. lookup' \in [Slots -> Lookup] BY DEF Restart, Lookup
<1>3. saves' \in Seq(Save) /\ queue' \in Seq(Entries) BY DEF Restart
<1> QED BY <1>1, <1>2, <1>3 DEF Restart, TypeOK

LEMMA TypeStep == ASSUME TypeOK, [Next]_vars PROVE TypeOK'
<1>1. ASSUME NEW h \in Sent,
             Broadcast(h) \/ SendAnswered(h) \/ SendRejected(h) \/ Accept(h)
      PROVE  TypeOK'
  <2>1. CASE Accept(h)
    BY <2>1, MoveType DEF Accept, Hashes
  <2> QED BY <1>1, <2>1, BroadcastType, SendAnsweredType, SendRejectedType
<1>2. ASSUME NEW s \in Slots, SlotStep(s) \/ FailLookup(s) \/ Tick(s) PROVE TypeOK'
  BY <1>2, AnswerLookupType, HandleNullType, CancelLookupType, HandleFoundType,
     AnswerBlockType, AnswerReceiptType, ExpireLookupType, FailLookupType, TickType
     DEF SlotStep
<1>3. ASSUME NEW h \in Hashes,
             ReceiptEvent(h) \/ PendingEvent(h) \/ Mine(h) \/ Evict(h)
      PROVE  TypeOK'
  <2>1. CASE Mine(h) \/ Evict(h) BY <2>1, MoveType DEF Mine, Evict
  <2> QED BY <1>3, <2>1, ReceiptEventType, PendingEventType
<1>4. CASE LoadTransfers BY <1>4, LoadTransfersFacts DEF LoadTransfers, TypeOK
<1>5. CASE QueueStored BY <1>5, QueueStoredFacts DEF QueueStored, TypeOK
<1>6. CASE UNCHANGED vars BY <1>6 DEF vars, local, TypeOK
<1> QED BY <1>1, <1>2, <1>3, <1>4, <1>5, <1>6, TimerType, ReadExistingType,
           PutRecordType, GrowOldType, RestartType DEF Next, Timing

-----------------------------------------------------------------------------
(* The order of the queue.                                                 *)

LEMMA OrderNow == QueueOrdered <=> Ordered(queue)
BY Zenon DEF QueueOrdered, Ordered

LEMMA OrderNext == QueueOrdered' <=> Ordered(queue')
BY Zenon DEF QueueOrdered, Ordered

LEMMA DequeueOrder ==
    ASSUME TypeOK, Ordered(queue), NEW h, queue' = Dequeue(queue, Network, h)
    PROVE  Ordered(queue')
<1>1. queue \in Seq(Entries) BY DEF TypeOK
<1> QED BY <1>1, DequeueFacts, Zenon

LEMMA EnqueueOrder ==
    ASSUME TypeOK, Ordered(queue), NEW h \in Hashes, queue' = Enqueue(queue, FreshEntry(h))
    PROVE  Ordered(queue')
<1>1. queue \in Seq(Entries) BY DEF TypeOK
<1>2. FreshEntry(h) \in Entries BY FreshEntryFacts
<1> QED BY <1>1, <1>2, EnqueueFacts, Zenon

LEMMA OrderStep == ASSUME TypeOK, QueueOrdered, [Next]_vars PROVE QueueOrdered'
<1> SUFFICES Ordered(queue') BY OrderNext
<1>0. Ordered(queue) BY OrderNow
<1>1. UNCHANGED queue => Ordered(queue') BY <1>0
<1>2. ASSUME NEW h \in Sent,
             Broadcast(h) \/ SendAnswered(h) \/ SendRejected(h) \/ Accept(h)
      PROVE  Ordered(queue')
  <2>1. CASE Broadcast(h)
    <3>1. h \in Hashes /\ queue' = Enqueue(queue, FreshEntry(h))
      BY <2>1 DEF Broadcast, Subscribe, Hashes
    <3> QED BY <1>0, <3>1, EnqueueOrder
  <2>2. CASE SendAnswered(h) \/ SendRejected(h) \/ Accept(h)
    BY <1>1, <2>2 DEF SendAnswered, SendRejected, Accept, Move, local
  <2> QED BY <1>2, <2>1, <2>2
<1>3. CASE ReadExisting BY <1>1, <1>3 DEF ReadExisting
<1>4. CASE PutRecord
  <2>1. UNCHANGED queue \/ Subscribe(Head(saves).hash) BY <1>4 DEF PutRecord
  <2>2. CASE Subscribe(Head(saves).hash)
    <3>1. Head(saves).hash \in Hashes BY <1>4, HeadFacts DEF Save
    <3>2. queue' = Enqueue(queue, FreshEntry(Head(saves).hash))
      BY <2>2 DEF Subscribe
    <3> QED BY <1>0, <3>1, <3>2, EnqueueOrder
  <2> QED BY <1>1, <2>1, <2>2
<1>5. CASE Alarm \/ StopTimer BY <1>1, <1>5 DEF Alarm, StopTimer
<1>6. ASSUME NEW s \in Slots, SlotStep(s) \/ FailLookup(s) \/ Tick(s)
      PROVE  Ordered(queue')
  <2>1. CASE Tick(s) BY <1>0, <2>1, TickFacts, DequeueOrder
  <2>2. CASE HandleNull(s) BY <1>0, <2>2, DequeueOrder DEF HandleNull
  <2>3. CASE FailLookup(s)
    <3>1. lookup[s].hash \in Hashes BY <2>3, LookupFacts DEF FailLookup, At
    <3>2. UNCHANGED queue \/ queue' = Enqueue(queue, FreshEntry(lookup[s].hash))
      BY <2>3 DEF FailLookup
    <3> QED BY <1>0, <1>1, <3>1, <3>2, EnqueueOrder
  <2>4. CASE AnswerLookup(s) \/ CancelLookup(s) \/ HandleFound(s) \/ AnswerBlock(s)
                \/ AnswerReceipt(s) \/ ExpireLookup(s)
    BY <1>1, <2>4 DEF AnswerLookup, CancelLookup, HandleFound, AnswerBlock,
       AnswerReceipt, ExpireLookup
  <2> QED BY <1>6, <2>1, <2>2, <2>3, <2>4 DEF SlotStep
<1>7. ASSUME NEW h \in Hashes,
             ReceiptEvent(h) \/ PendingEvent(h) \/ Mine(h) \/ Evict(h)
      PROVE  Ordered(queue')
  <2>1. CASE ReceiptEvent(h) BY <1>0, <2>1, DequeueOrder DEF ReceiptEvent
  <2>2. CASE PendingEvent(h) \/ Mine(h) \/ Evict(h)
    BY <1>1, <2>2 DEF PendingEvent, Mine, Evict, Move, local
  <2> QED BY <1>7, <2>1, <2>2
<1>8. CASE LoadTransfers BY <1>0, <1>8, LoadTransfersFacts
<1>9. CASE GrowOld
  <2>1. /\ DOMAIN queue' = DOMAIN queue
        /\ \A i \in DOMAIN queue : /\ queue'[i].hash = queue[i].hash
                                   /\ queue'[i].priority = queue[i].priority
    BY <1>9, GrowOldFacts
  <2> QED BY <1>0, <2>1 DEF Ordered
<1>10. CASE Restart
  <2>1. DOMAIN queue' = {} BY <1>10 DEF Restart
  <2> QED BY <2>1 DEF Ordered
<1>11. CASE QueueStored BY <1>0, <1>11, QueueStoredFacts
<1>12. CASE UNCHANGED vars BY <1>1, <1>12 DEF vars, local
<1> QED BY <1>2, <1>3, <1>4, <1>5, <1>6, <1>7, <1>8, <1>9, <1>10, <1>11, <1>12,
           OrderNext DEF Next, Timing

\* The state is of its type, whatever the number of transactions and lookups
\* (ChainService's queue, records and listeners).
THEOREM TypesHold == Spec => []TypeOK
<1>1. Init => TypeOK BY InitType
<1>2. TypeOK /\ [Next]_vars => TypeOK' BY TypeStep
<1> QED BY <1>1, <1>2, PTL DEF Spec

\* The retrieval queue holds a hash once, and entries of higher priority first
\* (queueTransactionHashToRetrieve).
THEOREM QueueInOrder == Spec => []QueueOrdered
<1>1. Init => TypeOK /\ QueueOrdered
  <2>1. ASSUME Init PROVE QueueOrdered
    <3>1. DOMAIN queue = {} BY <2>1 DEF Init
    <3> QED BY <3>1 DEF QueueOrdered
  <2> QED BY <2>1, InitType
<1>2. TypeOK /\ QueueOrdered /\ [Next]_vars => TypeOK' /\ QueueOrdered'
  BY TypeStep, OrderStep
<1> QED BY <1>1, <1>2, PTL DEF Spec

-----------------------------------------------------------------------------
(* Steps that leave the records alone.                                     *)

\* The transaction was broadcast, or is not the wallet's.
Known(h) == h \in Sent => sending[h] # "ready"

Unsaved(h) == \A i \in DOMAIN saves : saves[i].hash # h

Awaited(s) == \E i \in DOMAIN saves : saves[i].next = s

Watching(s, h) == OnLookup(s, h) /\ lookup[s].stage \notin Careless

\* The same of the next state.
OnLookupNext(s, h) == lookup'[s] # Idle /\ lookup'[s].hash = h
InQueueNext(h)     == Queued(queue', Network, h)
SettlingNext(h) ==
    \E i \in DOMAIN saves' : saves'[i].hash = h /\ saves'[i].status \in Final
WatchingNext(s, h) == OnLookupNext(s, h) /\ lookup'[s].stage \notin Careless

\* A step hands over: what it stops following is followed by something else,
\* what it starts to follow is known, lookups that wait for a save stay.
HandsOver ==
    /\ UNCHANGED <<record, booting>>
    /\ \A h \in Sent :
          sending'[h] = "ready" => sending[h] = "ready" /\ node'[h] = node[h]
    /\ \A h \in Hashes : InQueueNext(h) => InQueue(h) \/ Known(h)
    /\ \A h \in Hashes : InQueue(h) =>
          \/ InQueueNext(h) \/ SettlingNext(h)
          \/ \E s \in Slots : WatchingNext(s, h) /\ (OnLookup(s, h) \/ Unsaved(h))
    /\ \A s \in Slots, h \in Hashes :
          OnLookupNext(s, h) => OnLookup(s, h) \/ (Known(h) /\ Unsaved(h))
    /\ \A s \in Slots, h \in Hashes : Awaited(s) /\ OnLookup(s, h) =>
          OnLookupNext(s, h) /\ lookup'[s].stage = lookup[s].stage
    /\ \A s \in Slots, h \in StoredPending : Watching(s, h) =>
          WatchingNext(s, h) \/ InQueueNext(h) \/ SettlingNext(h)

\* A save it makes is not a broadcast's, and says what its lookup found.
SavesWell ==
    \/ UNCHANGED saves
    \/ \E h \in Hashes, status \in Statuses \ {"absent"}, block \in BOOLEAN,
          next \in {"end", "watch"} \cup Slots :
          /\ Saving(h, status, block, next)
          /\ Known(h)
          /\ status = "open" => next # "end"
          /\ next \in Slots =>
                /\ OnLookupNext(next, h) /\ ~Awaited(next) /\ status = "open"
                /\ lookup'[next].stage = IF block THEN "savingMined" ELSE "savingPending"

\* Saves that were made stay, and one may come last.
LEMMA SavesGrow ==
    ASSUME TypeOK, SavesWell
    PROVE  /\ saves \in Seq(Save) /\ saves' \in Seq(Save) /\ Len(saves) \in Nat
           /\ DOMAIN saves = 1..Len(saves) /\ DOMAIN saves' = 1..Len(saves')
           /\ \A i \in DOMAIN saves : i \in DOMAIN saves' /\ saves'[i] = saves[i]
           /\ \A i \in DOMAIN saves' : i \notin DOMAIN saves =>
                 /\ \A j \in DOMAIN saves : j < i
                 /\ \A j \in DOMAIN saves' : j \notin DOMAIN saves => j = i
                 /\ Known(saves'[i].hash) /\ saves'[i].hash \in Hashes
                 /\ saves'[i].status = "open" => saves'[i].next # "end"
                 /\ saves'[i].next \in Slots =>
                       /\ OnLookupNext(saves'[i].next, saves'[i].hash)
                       /\ ~Awaited(saves'[i].next) /\ saves'[i].status = "open"
                       /\ lookup'[saves'[i].next].stage =
                             IF saves'[i].block THEN "savingMined" ELSE "savingPending"
<1>1. saves \in Seq(Save) /\ Len(saves) \in Nat /\ DOMAIN saves = 1..Len(saves)
  BY DEF TypeOK
<1>2. CASE UNCHANGED saves BY <1>1, <1>2
<1>3. CASE ~UNCHANGED saves
  <2>1. PICK h \in Hashes, status \in Statuses \ {"absent"}, block \in BOOLEAN,
             next \in {"end", "watch"} \cup Slots :
          /\ Saving(h, status, block, next)
          /\ Known(h)
          /\ status = "open" => next # "end"
          /\ next \in Slots =>
                /\ OnLookupNext(next, h) /\ ~Awaited(next) /\ status = "open"
                /\ lookup'[next].stage = IF block THEN "savingMined" ELSE "savingPending"
    BY <1>3 DEF SavesWell
  <2>2. /\ saves' \in Seq(Save) /\ Len(saves') = Len(saves) + 1
        /\ \A i \in 1..Len(saves) : saves'[i] = saves[i]
        /\ saves'[Len(saves) + 1] = NewSave(h, status, block, next)
    BY <2>1, SavingFacts
  <2>3. DOMAIN saves' = 1..(Len(saves) + 1) BY <2>2
  <2>4. \A i \in DOMAIN saves' : i \notin DOMAIN saves => i = Len(saves) + 1
    BY <1>1, <2>3
  <2> DEFINE n == Len(saves) + 1
  <2>5. /\ saves'[n].hash = h /\ saves'[n].status = status
        /\ saves'[n].block = block /\ saves'[n].next = next
    BY <2>2 DEF NewSave
  <2>6. \A j \in DOMAIN saves : j < n BY <1>1
  <2> HIDE DEF n
  <2>7. \A i \in DOMAIN saves' : i \notin DOMAIN saves => i = n
    BY <2>4 DEF n
  <2>8. /\ Known(saves'[n].hash) /\ saves'[n].hash \in Hashes
        /\ saves'[n].status = "open" => saves'[n].next # "end"
        /\ saves'[n].next \in Slots =>
              /\ OnLookupNext(saves'[n].next, saves'[n].hash)
              /\ ~Awaited(saves'[n].next) /\ saves'[n].status = "open"
              /\ lookup'[saves'[n].next].stage =
                    IF saves'[n].block THEN "savingMined" ELSE "savingPending"
    BY <2>1, <2>5
  <2>9. \A i \in DOMAIN saves : i \in DOMAIN saves' /\ saves'[i] = saves[i]
    BY <1>1, <2>2, <2>3
  <2>10. DOMAIN saves' = 1..Len(saves') BY <2>2
  <2> QED BY <1>1, <2>2, <2>6, <2>7, <2>8, <2>9, <2>10
<1> QED BY <1>2, <1>3

LEMMA SaveFacts ==
    ASSUME TypeOK, NEW i \in DOMAIN saves
    PROVE  /\ saves[i] \in Save /\ saves[i].hash \in Hashes
           /\ saves[i].status \in Statuses \ {"absent"} /\ saves[i].block \in BOOLEAN
           /\ saves[i].next \in {"end", "watch"} \cup Slots
<1>1. saves[i] \in Save BY DEF TypeOK
<1> QED BY <1>1 DEF Save

LEMMA HandedOver ==
    ASSUME IInv, TypeOK', HandsOver, SavesWell
    PROVE  IInv'
<1> USE DEF IInv, SavesOK
<1>1. UnsentUnknown'
  <2> SUFFICES ASSUME NEW h \in Sent, sending'[h] = "ready"
               PROVE  /\ node'[h] = "unknown" /\ record'[h] = Absent
                      /\ ~InQueueNext(h)
                      /\ \A i \in DOMAIN saves' : saves'[i].hash # h
                      /\ \A s \in Slots : ~OnLookupNext(s, h)
    BY DEF UnsentUnknown, InQueue, InQueueNext, OnLookup, OnLookupNext
  <2>1. h \in Hashes /\ sending[h] = "ready" /\ node'[h] = node[h] /\ ~Known(h)
    BY DEF Hashes, HandsOver, Known
  <2>2. /\ node[h] = "unknown" /\ record[h] = Absent /\ ~InQueue(h)
        /\ \A i \in DOMAIN saves : saves[i].hash # h
        /\ \A s \in Slots : ~OnLookup(s, h)
    BY <2>1 DEF UnsentUnknown
  <2>3. \A i \in DOMAIN saves' : saves'[i].hash # h
    BY <2>1, <2>2, SavesGrow
  <2> QED BY <2>1, <2>2, <2>3 DEF HandsOver
<1>2. \A h \in Hashes : Settling(h) => SettlingNext(h)
  BY SavesGrow DEF Settling, SettlingNext
<1>3. LocalSaveFirst'
  <2> SUFFICES ASSUME NEW i \in DOMAIN saves',
                      saves'[i].status = "open", saves'[i].next = "end"
               PROVE  /\ \A j \in DOMAIN saves' : j < i => saves'[j].hash # saves'[i].hash
                      /\ \A s \in Slots : ~OnLookupNext(s, saves'[i].hash)
                      /\ InQueueNext(saves'[i].hash) \/ SettlingNext(saves'[i].hash)
    BY DEF LocalSaveFirst, InQueue, InQueueNext, Settling, SettlingNext,
       OnLookup, OnLookupNext
  <2>1. i \in DOMAIN saves /\ saves'[i] = saves[i] BY SavesGrow
  <2> DEFINE h == saves[i].hash
  <2>2. h \in Hashes BY <2>1, SaveFacts
  <2>3. /\ \A j \in DOMAIN saves : j < i => saves[j].hash # h
        /\ \A s \in Slots : ~OnLookup(s, h)
        /\ InQueue(h) \/ Settling(h)
    BY <2>1 DEF LocalSaveFirst
  <2>4. ~Unsaved(h) BY <2>1 DEF Unsaved
  <2>5. \A j \in DOMAIN saves' : j < i => j \in DOMAIN saves /\ saves'[j] = saves[j]
    <3>1. /\ Len(saves) \in Nat /\ DOMAIN saves = 1..Len(saves)
          /\ DOMAIN saves' = 1..Len(saves') /\ Len(saves') \in Nat
          /\ \A j \in DOMAIN saves : saves'[j] = saves[j]
      BY SavesGrow
    <3> QED BY <2>1, <3>1
  <2> HIDE DEF h
  <2>6. \A s \in Slots : ~OnLookupNext(s, h) BY <2>2, <2>3, <2>4 DEF HandsOver
  <2>7. InQueueNext(h) \/ SettlingNext(h) BY <1>2, <2>2, <2>3, <2>4 DEF HandsOver
  <2>8. saves'[i].hash = h BY <2>1 DEF h
  <2> QED BY <2>3, <2>5, <2>6, <2>7, <2>8
<1>4. LookupsAwaitSaves'
  <2> SUFFICES ASSUME NEW i \in DOMAIN saves', saves'[i].next \in Slots
               PROVE  /\ OnLookupNext(saves'[i].next, saves'[i].hash)
                      /\ lookup'[saves'[i].next].stage =
                            IF saves'[i].block THEN "savingMined" ELSE "savingPending"
                      /\ saves'[i].status = "open"
                      /\ \A j \in DOMAIN saves' : saves'[j].next = saves'[i].next => j = i
    BY DEF LookupsAwaitSaves, OnLookup, OnLookupNext
  <2>1. CASE i \in DOMAIN saves
    <3>1. saves'[i] = saves[i] BY <2>1, SavesGrow
    <3>2. /\ OnLookup(saves[i].next, saves[i].hash)
          /\ lookup[saves[i].next].stage =
                IF saves[i].block THEN "savingMined" ELSE "savingPending"
          /\ saves[i].status = "open"
          /\ \A j \in DOMAIN saves : saves[j].next = saves[i].next => j = i
      BY <2>1, <3>1 DEF LookupsAwaitSaves
    <3>3. Awaited(saves[i].next) /\ saves[i].hash \in Hashes
      BY <2>1, SaveFacts DEF Awaited
    <3>4. /\ OnLookupNext(saves[i].next, saves[i].hash)
          /\ lookup'[saves[i].next].stage = lookup[saves[i].next].stage
      <4> DEFINE s == saves[i].next
                 h == saves[i].hash
      <4>1. s \in Slots /\ h \in Hashes /\ Awaited(s) /\ OnLookup(s, h)
        BY <3>1, <3>2, <3>3
      <4>2. saves'[i].next = s /\ saves'[i].hash = h BY <3>1
      <4> HIDE DEF s, h
      <4>3. OnLookupNext(s, h) /\ lookup'[s].stage = lookup[s].stage
        BY <4>1 DEF HandsOver
      <4> QED BY <4>3 DEF s, h
    <3>5. \A j \in DOMAIN saves' : saves'[j].next = saves[i].next => j = i
      <4>1. \A j \in DOMAIN saves' : j \notin DOMAIN saves => saves'[j].next # saves[i].next
        BY <3>1, <3>3, SavesGrow
      <4>2. \A j \in DOMAIN saves : saves'[j] = saves[j] BY SavesGrow
      <4> QED BY <3>2, <4>1, <4>2
    <3> QED BY <3>1, <3>2, <3>4, <3>5
  <2>2. CASE i \notin DOMAIN saves
    <3>1. /\ OnLookupNext(saves'[i].next, saves'[i].hash)
          /\ ~Awaited(saves'[i].next) /\ saves'[i].status = "open"
          /\ lookup'[saves'[i].next].stage =
                IF saves'[i].block THEN "savingMined" ELSE "savingPending"
          /\ \A j \in DOMAIN saves' : j \notin DOMAIN saves => j = i
      BY <2>2, SavesGrow
    <3>2. \A j \in DOMAIN saves : saves'[j] = saves[j] BY SavesGrow
    <3> QED BY <3>1, <3>2 DEF Awaited
  <2> QED BY <2>1, <2>2
<1>5. Followings'
  <2> DEFINE FollowedNext(h) ==
               \/ InQueueNext(h)
               \/ \E s \in Slots : WatchingNext(s, h)
               \/ \E i \in DOMAIN saves' : saves'[i].hash = h /\
                     (saves'[i].status \in Final \/ saves'[i].next # "end")
               \/ booting'
  <2>0. Followings' <=> \A h \in StoredPending' : FollowedNext(h)
    BY DEF Followings, FollowedWell, InQueue, InQueueNext, OnLookup, OnLookupNext,
       WatchingNext
  <2> SUFFICES ASSUME NEW h \in StoredPending' PROVE FollowedNext(h)
    BY <2>0
  <2>1. h \in StoredPending /\ h \in Hashes BY DEF StoredPending, HandsOver
  <2>2. FollowedWell(h) BY <2>1 DEF Followings
  <2>3. CASE InQueue(h)
    BY <2>1, <2>3 DEF HandsOver, SettlingNext
  <2>4. ASSUME NEW s \in Slots, Watching(s, h) PROVE FollowedNext(h)
    BY <2>1, <2>4 DEF HandsOver, SettlingNext
  <2>5. ASSUME NEW i \in DOMAIN saves, saves[i].hash = h,
               saves[i].status \in Final \/ saves[i].next # "end"
        PROVE  FollowedNext(h)
    <3>1. i \in DOMAIN saves' /\ saves'[i] = saves[i] BY SavesGrow
    <3> QED BY <2>5, <3>1
  <2>6. CASE booting BY <2>6 DEF HandsOver
  <2> QED BY <2>2, <2>3, <2>4, <2>5, <2>6 DEF FollowedWell, Watching
<1> QED BY <1>1, <1>3, <1>4, <1>5

\* What is looked up, queued or at the node was broadcast.
LEMMA WhatIsKnown ==
    ASSUME IInv, NEW h \in Hashes
    PROVE  /\ InQueue(h) => Known(h)
           /\ \A s \in Slots : OnLookup(s, h) => Known(h)
           /\ node[h] # "unknown" => Known(h)
BY DEF IInv, SavesOK, UnsentUnknown, Known

\* A lookup that waits for a save is in one of two stages.
LEMMA AwaitedStages ==
    ASSUME IInv, NEW s \in Slots, Awaited(s)
    PROVE  lookup[s] # Idle /\ lookup[s].stage \in {"savingPending", "savingMined"}
<1>1. PICK i \in DOMAIN saves : saves[i].next = s BY DEF Awaited
<1>2. /\ OnLookup(saves[i].next, saves[i].hash)
      /\ lookup[saves[i].next].stage =
            IF saves[i].block THEN "savingMined" ELSE "savingPending"
  BY <1>1 DEF IInv, SavesOK, LookupsAwaitSaves
<1> QED BY <1>1, <1>2 DEF OnLookup

\* A step that leaves queue and lookups alone.
LEMMA Untouched ==
    ASSUME UNCHANGED <<record, booting, queue, lookup>>,
           \A h \in Sent :
              sending'[h] = "ready" => sending[h] = "ready" /\ node'[h] = node[h]
    PROVE  HandsOver
BY DEF HandsOver, InQueue, InQueueNext, OnLookup, OnLookupNext, Watching, WatchingNext

\* The transactions themselves.
LEMMA NodeInv ==
    ASSUME IInv, NEW h \in Hashes, Mine(h) \/ Evict(h)
    PROVE  IInv'
<1>1. TypeOK' BY MoveType DEF IInv, Mine, Evict
<1>2. UNCHANGED <<record, booting, queue, lookup, saves, sending>>
  BY DEF Mine, Evict, Move, local
<1>3. node[h] = "pool" /\ \A g \in Hashes : g # h => node'[g] = node[g]
  BY DEF IInv, TypeOK, Mine, Evict, Move
<1>4. HandsOver
  <2>1. \A g \in Sent : sending[g] = "ready" => g # h
    BY <1>3 DEF IInv, SavesOK, UnsentUnknown
  <2> QED BY <1>2, <1>3, <2>1, Untouched DEF Hashes
<1> QED BY <1>1, <1>2, <1>4, HandedOver DEF SavesWell

LEMMA SentInv ==
    ASSUME IInv, NEW h \in Sent, SendAnswered(h) \/ Accept(h)
    PROVE  IInv'
<1>0. h \in Hashes BY DEF Hashes
<1>1. TypeOK' BY <1>0, SendAnsweredType, MoveType DEF IInv, Accept
<1>2. UNCHANGED <<record, booting, queue, lookup, saves>>
  BY DEF SendAnswered, Accept, Move, local
<1>3. \A g \in Sent :
         sending'[g] = "ready" => sending[g] = "ready" /\ node'[g] = node[g]
  BY DEF IInv, TypeOK, SendAnswered, Accept, Move, Hashes
<1> QED BY <1>1, <1>2, <1>3, Untouched, HandedOver DEF SavesWell

LEMMA SendRejectedInv ==
    ASSUME IInv, NEW h \in Sent, SendRejected(h)
    PROVE  IInv'
<1>0. h \in Hashes BY DEF Hashes
<1>1. TypeOK' BY SendRejectedType DEF IInv
<1>2. UNCHANGED <<record, booting, queue, lookup, node>> BY DEF SendRejected
<1>3. \A g \in Sent :
         sending'[g] = "ready" => sending[g] = "ready" /\ node'[g] = node[g]
  BY DEF IInv, TypeOK, SendRejected
<1>4. Known(h) /\ Saving(h, "sendFailed", FALSE, "end")
  BY DEF Known, SendRejected
<1>5. SavesWell
  BY <1>0, <1>4, TrackingAssumption DEF SavesWell, Statuses, Final
<1> QED BY <1>1, <1>2, <1>3, <1>5, Untouched, HandedOver

LEMMA TimerInv == ASSUME IInv, Alarm \/ StopTimer PROVE IInv'
<1>1. TypeOK' BY TimerType DEF IInv
<1>2. UNCHANGED <<record, booting, queue, lookup, saves, sending, node>>
  BY DEF Alarm, StopTimer
<1> QED BY <1>1, <1>2, Untouched, HandedOver DEF SavesWell

LEMMA PendingEventInv ==
    ASSUME IInv, NEW h \in Hashes, PendingEvent(h) PROVE IInv'
<1>1. TypeOK' BY PendingEventType DEF IInv
<1>2. UNCHANGED <<record, booting, queue, lookup, sending, node>>
  BY DEF PendingEvent
<1>3. Known(h) /\ Saving(h, "open", FALSE, "watch")
  BY WhatIsKnown DEF PendingEvent
<1>4. SavesWell
  BY <1>3, TrackingAssumption DEF SavesWell, Statuses
<1> QED BY <1>1, <1>2, <1>4, Untouched, HandedOver

\* The receipt settles what leaves the queue.
LEMMA ReceiptEventInv ==
    ASSUME IInv, NEW h \in Hashes, ReceiptEvent(h) PROVE IInv'
<1>1. TypeOK' BY ReceiptEventType DEF IInv
<1>2. /\ UNCHANGED <<record, booting, lookup, sending, node>>
      /\ queue' = Dequeue(queue, Network, h)
  BY DEF ReceiptEvent
<1>3. Known(h) /\ Saving(h, "confirmed", TRUE, "end")
  BY WhatIsKnown DEF ReceiptEvent
<1>4. SavesWell
  BY <1>3, TrackingAssumption DEF SavesWell, Statuses, Final
<1>5. SettlingNext(h)
  <2>1. TypeOK BY DEF IInv
  <2>2. /\ saves' \in Seq(Save) /\ Len(saves') = Len(saves) + 1
        /\ saves'[Len(saves) + 1] = NewSave(h, "confirmed", TRUE, "end")
    BY <1>3, <2>1, SavingFacts DEF Statuses, Final
  <2>3. Len(saves) + 1 \in DOMAIN saves' BY <2>1, <2>2 DEF TypeOK
  <2> QED BY <2>2, <2>3 DEF SettlingNext, NewSave, Final
<1>6. queue \in Seq(Entries) BY DEF IInv, TypeOK
<1>7. /\ \A g : InQueueNext(g) => InQueue(g)
      /\ \A g : g # h /\ InQueue(g) => InQueueNext(g)
  BY <1>2, <1>6, DequeueFacts, Zenon DEF InQueue, InQueueNext
<1>8. HandsOver
  BY <1>2, <1>5, <1>7 DEF HandsOver, OnLookup, OnLookupNext, Watching, WatchingNext
<1> QED BY <1>1, <1>4, <1>8, HandedOver

LEMMA LoadTransfersInv == ASSUME IInv, LoadTransfers PROVE IInv'
<1>0. TypeOK BY DEF IInv
<1>1. TypeOK' BY <1>0, LoadTransfersFacts DEF LoadTransfers, TypeOK
<1>2. UNCHANGED <<record, booting, lookup, sending, node, saves>>
  BY DEF LoadTransfers
<1>3. \A g : InQueueNext(g) <=>
         InQueue(g) \/ g \in {h \in Hashes : node[h] = "mined" /\ record[h].status = "absent"}
  BY <1>0, LoadTransfersFacts DEF InQueueNext
<1>4. \A g \in Hashes : /\ InQueue(g) => InQueueNext(g)
                        /\ InQueueNext(g) => InQueue(g) \/ Known(g)
  BY <1>3, WhatIsKnown
<1>5. HandsOver
  BY <1>2, <1>4 DEF HandsOver, OnLookup, OnLookupNext, Watching, WatchingNext
<1> QED BY <1>1, <1>2, <1>5, HandedOver DEF SavesWell

LEMMA GrowOldInv == ASSUME IInv, GrowOld PROVE IInv'
<1>0. TypeOK BY DEF IInv
<1>1. TypeOK' BY <1>0, GrowOldType
<1>2. UNCHANGED <<record, booting, sending, node, saves>>
  BY DEF GrowOld
<1>3. /\ DOMAIN queue' = DOMAIN queue
      /\ \A i \in DOMAIN queue : /\ queue'[i].hash = queue[i].hash
                                 /\ queue'[i].network = queue[i].network
      /\ \A s \in Slots : /\ lookup'[s] = Idle <=> lookup[s] = Idle
                          /\ lookup[s] # Idle =>
                                /\ lookup'[s].hash = lookup[s].hash
                                /\ lookup'[s].stage = lookup[s].stage
  BY <1>0, GrowOldFacts
<1>4. \A g : InQueueNext(g) <=> InQueue(g)
  BY <1>3 DEF InQueue, InQueueNext, Queued
<1>5. \A s \in Slots : \A g :
          /\ OnLookupNext(s, g) <=> OnLookup(s, g)
          /\ OnLookup(s, g) => lookup'[s].stage = lookup[s].stage
  BY <1>3 DEF OnLookup, OnLookupNext
<1>6. HandsOver BY <1>2, <1>4, <1>5 DEF HandsOver, Watching, WatchingNext
<1> QED BY <1>1, <1>2, <1>6, HandedOver DEF SavesWell

\* A step of one lookup that waits for no save hands over, if it goes on with
\* its transaction or has seen to it.
LEMMA OneLookup ==
    ASSUME IInv, NEW s \in Slots, lookup[s] # Idle, ~Awaited(s),
           UNCHANGED <<record, booting, sending, node>>,
           \A z \in Slots : z # s => lookup'[z] = lookup[z],
           lookup'[s] = Idle \/ lookup'[s].hash = lookup[s].hash,
           \A g \in Hashes : InQueueNext(g) => InQueue(g) \/ Known(g),
           \A g \in Hashes : InQueue(g) =>
              InQueueNext(g) \/ (g = lookup[s].hash /\ WatchingNext(s, g)),
           lookup[s].hash \in StoredPending /\ lookup[s].stage \notin Careless =>
              \/ WatchingNext(s, lookup[s].hash) \/ InQueueNext(lookup[s].hash)
              \/ SettlingNext(lookup[s].hash)
    PROVE  HandsOver
<1>1. \A g \in Hashes : InQueue(g) =>
         InQueueNext(g) \/ (WatchingNext(s, g) /\ OnLookup(s, g))
  BY DEF OnLookup
<1>2. ASSUME NEW z \in Slots, NEW g \in Hashes
      PROVE  /\ OnLookupNext(z, g) => OnLookup(z, g)
             /\ Awaited(z) /\ OnLookup(z, g) =>
                   OnLookupNext(z, g) /\ lookup'[z].stage = lookup[z].stage
  BY DEF OnLookup, OnLookupNext
<1>3. ASSUME NEW z \in Slots, NEW g \in StoredPending, Watching(z, g)
      PROVE  WatchingNext(z, g) \/ InQueueNext(g) \/ SettlingNext(g)
  <2>1. CASE z = s BY <1>3, <2>1 DEF Watching, OnLookup
  <2>2. CASE z # s
    BY <1>3, <2>2 DEF Watching, WatchingNext, OnLookup, OnLookupNext
  <2> QED BY <2>1, <2>2
<1> QED BY <1>1, <1>2, <1>3 DEF HandsOver

LEMMA AnswerLookupInv ==
    ASSUME IInv, NEW s \in Slots, AnswerLookup(s) PROVE IInv'
<1>0. TypeOK' BY AnswerLookupType DEF IInv
<1>1. /\ lookup[s] # Idle /\ lookup[s].stage = "asked"
      /\ lookup' = [lookup EXCEPT ![s].stage = Found(lookup[s].hash)]
      /\ UNCHANGED <<record, booting, sending, node, queue, saves>>
  BY DEF AnswerLookup, At
<1>2. ~Awaited(s) BY <1>1, AwaitedStages
<1>3. lookup \in [Slots -> Lookup] /\ lookup[s] \in [stage : Stages, hash : Hashes, old : BOOLEAN]
  BY <1>1, LookupFacts DEF IInv, TypeOK
<1>4. /\ \A z \in Slots : z # s => lookup'[z] = lookup[z]
      /\ lookup'[s].hash = lookup[s].hash /\ lookup'[s].stage = Found(lookup[s].hash)
  BY <1>1, <1>3
<1>5. Found(lookup[s].hash) \notin Careless /\ Found(lookup[s].hash) # "idle"
  BY DEF Found, Careless
<1>6. WatchingNext(s, lookup[s].hash)
  BY <1>4, <1>5 DEF WatchingNext, OnLookupNext, Idle
<1>7. HandsOver BY <1>1, <1>2, <1>4, <1>6, OneLookup DEF InQueue, InQueueNext
<1> QED BY <1>0, <1>1, <1>7, HandedOver DEF SavesWell

LEMMA HandleNullInv ==
    ASSUME IInv, NEW s \in Slots, HandleNull(s) PROVE IInv'
<1>0. TypeOK' BY HandleNullType DEF IInv
<1>1. /\ lookup[s] # Idle /\ lookup[s].stage = "null"
      /\ lookup' = [lookup EXCEPT ![s].stage = "cancel"]
      /\ queue' = Dequeue(queue, Network, lookup[s].hash)
      /\ UNCHANGED <<record, booting, sending, node, saves>>
  BY DEF HandleNull, At
<1>2. ~Awaited(s) BY <1>1, AwaitedStages
<1>3. lookup \in [Slots -> Lookup] /\ lookup[s] \in [stage : Stages, hash : Hashes, old : BOOLEAN]
  BY <1>1, LookupFacts DEF IInv, TypeOK
<1>4. /\ \A z \in Slots : z # s => lookup'[z] = lookup[z]
      /\ lookup'[s].hash = lookup[s].hash /\ lookup'[s].stage = "cancel"
  BY <1>1, <1>3
<1>5. WatchingNext(s, lookup[s].hash)
  BY <1>4 DEF WatchingNext, OnLookupNext, Idle, Careless
<1>6. queue \in Seq(Entries) BY DEF IInv, TypeOK
<1>7. /\ \A g : InQueueNext(g) => InQueue(g)
      /\ \A g : g # lookup[s].hash /\ InQueue(g) => InQueueNext(g)
  BY <1>1, <1>6, DequeueFacts, Zenon DEF InQueue, InQueueNext
<1>8. HandsOver BY <1>1, <1>2, <1>4, <1>5, <1>7, OneLookup
<1> QED BY <1>0, <1>1, <1>8, HandedOver DEF SavesWell

\* A save that settles the lookup's transaction.
LEMMA SettlingSave ==
    ASSUME IInv, NEW h \in Hashes, NEW status \in Final, NEW block \in BOOLEAN,
           Known(h), Saving(h, status, block, "end")
    PROVE  SavesWell /\ SettlingNext(h)
<1>1. status \in Statuses \ {"absent"} /\ status # "open" BY DEF Statuses, Final
<1>2. SavesWell BY <1>1, TrackingAssumption DEF SavesWell
<1>3. TypeOK BY DEF IInv
<1>4. /\ saves' \in Seq(Save) /\ Len(saves') = Len(saves) + 1
      /\ saves'[Len(saves) + 1] = NewSave(h, status, block, "end")
  BY <1>1, <1>3, SavingFacts
<1>5. Len(saves) + 1 \in DOMAIN saves' BY <1>3, <1>4 DEF TypeOK
<1> QED BY <1>2, <1>4, <1>5 DEF SettlingNext, NewSave

LEMMA CancelLookupInv ==
    ASSUME IInv, NEW s \in Slots, CancelLookup(s) PROVE IInv'
<1>0. TypeOK' BY CancelLookupType DEF IInv
<1>1. /\ lookup[s] # Idle /\ lookup[s].stage = "cancel"
      /\ lookup' = [lookup EXCEPT ![s] = Idle]
      /\ IF record[lookup[s].hash].status = "open"
         THEN Saving(lookup[s].hash, "dropped", FALSE, "end") ELSE UNCHANGED saves
      /\ UNCHANGED <<record, booting, sending, node, queue>>
  BY DEF CancelLookup, At
<1>2. ~Awaited(s) BY <1>1, AwaitedStages
<1>3. lookup \in [Slots -> Lookup] /\ lookup[s].hash \in Hashes
  BY <1>1, LookupFacts DEF IInv, TypeOK
<1>4. /\ \A z \in Slots : z # s => lookup'[z] = lookup[z]
      /\ lookup'[s] = Idle
  BY <1>1, <1>3
<1>5. Known(lookup[s].hash) BY <1>1, <1>3, WhatIsKnown DEF OnLookup
<1>6. /\ SavesWell
      /\ lookup[s].hash \in StoredPending => SettlingNext(lookup[s].hash)
  <2>1. CASE record[lookup[s].hash].status = "open"
    BY <1>1, <1>3, <1>5, <2>1, SettlingSave DEF Final
  <2>2. CASE record[lookup[s].hash].status # "open"
    BY <1>1, <2>2 DEF StoredPending, SavesWell
  <2> QED BY <2>1, <2>2
<1>7. HandsOver BY <1>1, <1>2, <1>4, <1>6, OneLookup DEF InQueue, InQueueNext
<1> QED BY <1>0, <1>6, <1>7, HandedOver

LEMMA ExpireLookupInv ==
    ASSUME IInv, NEW s \in Slots, ExpireLookup(s) PROVE IInv'
<1>0. TypeOK' BY ExpireLookupType DEF IInv
<1> DEFINE h == lookup[s].hash
           r == record[h]
<1>1. /\ lookup[s] # Idle /\ lookup[s].stage = "expire"
      /\ lookup' = [lookup EXCEPT ![s] = Idle]
      /\ IF r.status = "absent" THEN UNCHANGED saves
         ELSE Saving(h, IF r.status = "open" THEN "expired" ELSE r.status, r.block, "end")
      /\ UNCHANGED <<record, booting, sending, node, queue>>
  BY DEF ExpireLookup, At
<1>2. ~Awaited(s) BY <1>1, AwaitedStages
<1>3. lookup \in [Slots -> Lookup] /\ h \in Hashes /\ r \in Record
  BY <1>1, LookupFacts DEF IInv, TypeOK
<1>4. /\ \A z \in Slots : z # s => lookup'[z] = lookup[z]
      /\ lookup'[s] = Idle
  BY <1>1, <1>3
<1>5. Known(h) BY <1>1, <1>3, WhatIsKnown DEF OnLookup
<1>6. r.status \in Statuses /\ r.block \in BOOLEAN BY <1>3 DEF Record
<1>7. /\ SavesWell
      /\ h \in StoredPending => SettlingNext(h)
  <2>1. CASE r.status = "absent"
    BY <1>1, <2>1 DEF StoredPending, SavesWell
  <2>2. CASE r.status # "absent"
    <3> DEFINE status == IF r.status = "open" THEN "expired" ELSE r.status
    <3>1. status \in Final BY <1>6, <2>2 DEF Statuses, Final
    <3>2. Saving(h, status, r.block, "end") BY <1>1, <2>2
    <3> HIDE DEF status
    <3> QED BY <1>3, <1>5, <1>6, <3>1, <3>2, SettlingSave
  <2> QED BY <2>1, <2>2
<1>8. HandsOver BY <1>1, <1>2, <1>4, <1>7, OneLookup DEF InQueue, InQueueNext
<1> QED BY <1>0, <1>7, <1>8, HandedOver

LEMMA AnswerBlockInv ==
    ASSUME IInv, NEW s \in Slots, AnswerBlock(s) PROVE IInv'
<1>0. TypeOK' BY AnswerBlockType DEF IInv
<1>1. /\ lookup[s] # Idle /\ lookup[s].stage = "block"
      /\ lookup' = [lookup EXCEPT ![s].stage = "receipt"]
      /\ UNCHANGED <<record, booting, sending, node, queue, saves>>
  BY DEF AnswerBlock, At
<1>2. ~Awaited(s) BY <1>1, AwaitedStages
<1>3. lookup \in [Slots -> Lookup] /\ lookup[s] \in [stage : Stages, hash : Hashes, old : BOOLEAN]
  BY <1>1, LookupFacts DEF IInv, TypeOK
<1>4. /\ \A z \in Slots : z # s => lookup'[z] = lookup[z]
      /\ lookup'[s].hash = lookup[s].hash
  BY <1>1, <1>3
<1>5. lookup[s].stage \in Careless BY <1>1 DEF Careless
<1>6. HandsOver BY <1>1, <1>2, <1>4, <1>5, OneLookup DEF InQueue, InQueueNext
<1> QED BY <1>0, <1>1, <1>6, HandedOver DEF SavesWell

LEMMA AnswerReceiptInv ==
    ASSUME IInv, NEW s \in Slots, AnswerReceipt(s) PROVE IInv'
<1>0. TypeOK' BY AnswerReceiptType DEF IInv
<1>1. /\ lookup[s] # Idle /\ lookup[s].stage = "receipt"
      /\ lookup' = [lookup EXCEPT ![s] = Idle]
      /\ Saving(lookup[s].hash, "confirmed", TRUE, "end") \/ UNCHANGED saves
      /\ UNCHANGED <<record, booting, sending, node, queue>>
  BY DEF AnswerReceipt, At
<1>2. ~Awaited(s) BY <1>1, AwaitedStages
<1>3. lookup \in [Slots -> Lookup] /\ lookup[s].hash \in Hashes
  BY <1>1, LookupFacts DEF IInv, TypeOK
<1>4. /\ \A z \in Slots : z # s => lookup'[z] = lookup[z]
      /\ lookup'[s] = Idle
  BY <1>1, <1>3
<1>5. Known(lookup[s].hash) BY <1>1, <1>3, WhatIsKnown DEF OnLookup
<1>6. SavesWell
  <2>1. CASE UNCHANGED saves BY <2>1 DEF SavesWell
  <2>2. CASE Saving(lookup[s].hash, "confirmed", TRUE, "end")
    BY <1>3, <1>5, <2>2, SettlingSave DEF Final
  <2> QED BY <1>1, <2>1, <2>2
<1>7. lookup[s].stage \in Careless BY <1>1 DEF Careless
<1>8. HandsOver BY <1>1, <1>2, <1>4, <1>7, OneLookup DEF InQueue, InQueueNext
<1> QED BY <1>0, <1>6, <1>8, HandedOver

LEMMA FailLookupInv ==
    ASSUME IInv, NEW s \in Slots, FailLookup(s) PROVE IInv'
<1>0. TypeOK' BY FailLookupType DEF IInv
<1>1. /\ lookup[s] # Idle /\ lookup[s].stage \in {"asked", "block"}
      /\ UNCHANGED <<record, booting, sending, node, saves>>
      /\ IF lookup[s].old
         THEN lookup' = [lookup EXCEPT ![s].stage = "expire"] /\ UNCHANGED queue
         ELSE /\ lookup' = [lookup EXCEPT ![s] = Idle]
              /\ queue' = Enqueue(queue, FreshEntry(lookup[s].hash))
  BY DEF FailLookup, At
<1>2. ~Awaited(s) BY <1>1, AwaitedStages
<1>3. lookup \in [Slots -> Lookup] /\ lookup[s] \in [stage : Stages, hash : Hashes, old : BOOLEAN]
  BY <1>1, LookupFacts DEF IInv, TypeOK
<1>4. lookup[s].hash \in Hashes BY <1>3
<1>5. HandsOver
  <2>1. CASE lookup[s].old
    <3>1. /\ \A z \in Slots : z # s => lookup'[z] = lookup[z]
          /\ lookup'[s].hash = lookup[s].hash /\ lookup'[s].stage = "expire"
      BY <1>1, <1>3, <2>1
    <3>2. WatchingNext(s, lookup[s].hash)
      BY <3>1 DEF WatchingNext, OnLookupNext, Idle, Careless
    <3>3. UNCHANGED queue BY <1>1, <2>1
    <3> QED BY <1>1, <1>2, <3>1, <3>2, <3>3, OneLookup DEF InQueue, InQueueNext
  <2>2. CASE ~lookup[s].old
    <3>1. /\ \A z \in Slots : z # s => lookup'[z] = lookup[z]
          /\ lookup'[s] = Idle
      BY <1>1, <1>3, <2>2
    <3>2. FreshEntry(lookup[s].hash) \in Entries
          /\ FreshEntry(lookup[s].hash).hash = lookup[s].hash
      BY <1>4, FreshEntryFacts
    <3>3. queue \in Seq(Entries) /\ queue' = Enqueue(queue, FreshEntry(lookup[s].hash))
      BY <1>1, <2>2 DEF IInv, TypeOK
    <3>4. \A g : InQueueNext(g) <=> InQueue(g) \/ g = FreshEntry(lookup[s].hash).hash
      BY <3>2, <3>3, EnqueueFacts, Zenon DEF InQueue, InQueueNext
    <3>5. Known(lookup[s].hash) BY <1>1, <1>4, WhatIsKnown DEF OnLookup
    <3> QED BY <1>1, <1>2, <3>1, <3>2, <3>4, <3>5, OneLookup
  <2> QED BY <2>1, <2>2
<1> QED BY <1>0, <1>1, <1>5, HandedOver DEF SavesWell

\* What a lookup found is saved, and the lookup waits for the save.
LEMMA HandleFoundInv ==
    ASSUME IInv, NEW s \in Slots, HandleFound(s) PROVE IInv'
<1>0. TypeOK' BY HandleFoundType DEF IInv
<1>1. PICK block \in BOOLEAN :
         /\ lookup[s].stage = IF block THEN "mined" ELSE "pending"
         /\ Saving(lookup[s].hash, "open", block, s)
         /\ lookup' = [lookup EXCEPT ![s].stage =
                          IF block THEN "savingMined" ELSE "savingPending"]
  BY DEF HandleFound, At
<1>2. lookup[s] # Idle /\ UNCHANGED <<record, booting, sending, node, queue>>
  BY DEF HandleFound, At
<1>3. ~Awaited(s) BY <1>1, AwaitedStages
<1>4. lookup \in [Slots -> Lookup] /\ lookup[s] \in [stage : Stages, hash : Hashes, old : BOOLEAN]
  BY <1>2, LookupFacts DEF IInv, TypeOK
<1>5. /\ \A z \in Slots : z # s => lookup'[z] = lookup[z]
      /\ lookup'[s].hash = lookup[s].hash
      /\ lookup'[s].stage = IF block THEN "savingMined" ELSE "savingPending"
  BY <1>1, <1>4
<1>6. lookup[s].hash \in Hashes BY <1>4
<1>7. Known(lookup[s].hash) BY <1>2, <1>6, WhatIsKnown DEF OnLookup
<1>8. OnLookupNext(s, lookup[s].hash) /\ WatchingNext(s, lookup[s].hash)
  BY <1>5 DEF WatchingNext, OnLookupNext, Idle, Careless
<1>9. SavesWell
  <2>1. "open" \in Statuses \ {"absent"} /\ s # "end" BY TrackingAssumption DEF Statuses
  <2> QED BY <1>1, <1>3, <1>5, <1>6, <1>7, <1>8, <2>1 DEF SavesWell
<1>10. HandsOver BY <1>2, <1>3, <1>5, <1>8, OneLookup DEF InQueue, InQueueNext
<1> QED BY <1>0, <1>9, <1>10, HandedOver

\* A tick takes a hash without saves off the queue and looks it up.
LEMMA TickInv ==
    ASSUME IInv, NEW s \in Slots, Tick(s) PROVE IInv'
<1>0. TypeOK /\ TypeOK' BY TickType DEF IInv
<1> DEFINE h == Head(queue).hash
           new == [stage |-> "asked", hash |-> h, old |-> Head(queue).old]
<1>1. /\ lookup[s] = Idle /\ lookup' = [lookup EXCEPT ![s] = new]
      /\ queue' = Dequeue(queue, Network, h) /\ h \in Hashes
      /\ UNCHANGED <<record, booting, sending, node, saves>>
      /\ Unsaved(h)
  BY <1>0, TickFacts DEF Tick, Unsaved
<1>2. ~Awaited(s) BY <1>1, AwaitedStages
<1>3. /\ \A z \in Slots : z # s => lookup'[z] = lookup[z]
      /\ lookup'[s] = new
  BY <1>0, <1>1 DEF TypeOK
<1>4. new.hash = h /\ new.stage = "asked" /\ new # Idle /\ "asked" \notin Careless
  BY DEF Idle, Careless
<1>5. queue \in Seq(Entries) /\ queue # <<>> BY <1>0 DEF TypeOK, Tick
<1>6. InQueue(h)
  <2>1. 1 \in DOMAIN queue /\ Head(queue) = queue[1] /\ queue[1] \in Entries BY <1>5
  <2> QED BY <2>1, EntryFacts DEF InQueue, Queued
<1>7. Known(h) BY <1>1, <1>6, WhatIsKnown
<1> HIDE DEF h, new
<1>8. /\ \A g : InQueueNext(g) => InQueue(g)
      /\ \A g : g # h /\ InQueue(g) => InQueueNext(g)
  BY <1>1, <1>5, DequeueFacts, Zenon DEF InQueue, InQueueNext
<1>9. WatchingNext(s, h) /\ \A g : OnLookupNext(s, g) => g = h
  BY <1>3, <1>4 DEF WatchingNext, OnLookupNext
<1>10. \A g \in Hashes : InQueue(g) => InQueueNext(g) \/ (WatchingNext(s, g) /\ Unsaved(g))
  BY <1>1, <1>8, <1>9
<1>11. ASSUME NEW z \in Slots, NEW g \in Hashes
       PROVE  /\ OnLookupNext(z, g) => OnLookup(z, g) \/ (Known(g) /\ Unsaved(g))
              /\ OnLookup(z, g) => OnLookupNext(z, g) /\ lookup'[z].stage = lookup[z].stage
  <2>1. CASE z = s BY <1>1, <1>7, <1>9, <2>1 DEF OnLookup
  <2>2. CASE z # s BY <1>3, <2>2 DEF OnLookup, OnLookupNext
  <2> QED BY <2>1, <2>2
<1>12. HandsOver
  BY <1>1, <1>8, <1>10, <1>11 DEF HandsOver, Watching, WatchingNext, StoredPending
<1> QED BY <1>0, <1>1, <1>12, HandedOver DEF SavesWell

-----------------------------------------------------------------------------
(* The other steps.                                                        *)

\* What IInv' says, in terms of the next state.
LEMMA NextInv ==
    ASSUME TypeOK',
           \A h \in Sent : sending'[h] = "ready" =>
              /\ node'[h] = "unknown" /\ record'[h] = Absent /\ ~InQueueNext(h)
              /\ \A i \in DOMAIN saves' : saves'[i].hash # h
              /\ \A s \in Slots : ~OnLookupNext(s, h),
           \A i \in DOMAIN saves' :
              saves'[i].status = "open" /\ saves'[i].next = "end" =>
                 /\ \A j \in DOMAIN saves' : j < i => saves'[j].hash # saves'[i].hash
                 /\ \A s \in Slots : ~OnLookupNext(s, saves'[i].hash)
                 /\ InQueueNext(saves'[i].hash) \/ SettlingNext(saves'[i].hash),
           \A i \in DOMAIN saves' : saves'[i].next \in Slots =>
              /\ OnLookupNext(saves'[i].next, saves'[i].hash)
              /\ lookup'[saves'[i].next].stage =
                    IF saves'[i].block THEN "savingMined" ELSE "savingPending"
              /\ saves'[i].status = "open"
              /\ \A j \in DOMAIN saves' : saves'[j].next = saves'[i].next => j = i,
           \A h \in StoredPending' :
              \/ InQueueNext(h) \/ \E s \in Slots : WatchingNext(s, h)
              \/ \E i \in DOMAIN saves' : saves'[i].hash = h /\
                    (saves'[i].status \in Final \/ saves'[i].next # "end")
              \/ booting'
    PROVE  IInv'
<1>1. UnsentUnknown'
  BY DEF UnsentUnknown, InQueue, InQueueNext, OnLookup, OnLookupNext
<1>2. LocalSaveFirst'
  BY DEF LocalSaveFirst, InQueue, InQueueNext, Settling, SettlingNext, OnLookup, OnLookupNext
<1>3. LookupsAwaitSaves'
  BY DEF LookupsAwaitSaves, OnLookup, OnLookupNext
<1>4. Followings'
  BY DEF Followings, FollowedWell, InQueue, InQueueNext, OnLookup, OnLookupNext, WatchingNext
<1> QED BY <1>1, <1>2, <1>3, <1>4 DEF IInv, SavesOK

LEMMA BroadcastInv ==
    ASSUME IInv, NEW h \in Sent, Broadcast(h) PROVE IInv'
<1>0. TypeOK /\ TypeOK' /\ h \in Hashes BY BroadcastType DEF IInv, Hashes
<1>1. /\ sending[h] = "ready" /\ Subscribe(h) /\ Saving(h, "open", FALSE, "end")
      /\ UNCHANGED <<node, record, lookup, booting>>
      /\ \A g \in Sent : sending'[g] = "ready" => sending[g] = "ready" /\ g # h
  BY <1>0 DEF Broadcast, TypeOK
<1>2. \A g : InQueueNext(g) <=> InQueue(g) \/ g = h
  BY <1>0, <1>1, SubscribeFacts DEF InQueueNext
<1>3. /\ node[h] = "unknown" /\ record[h] = Absent /\ ~InQueue(h)
      /\ \A i \in DOMAIN saves : saves[i].hash # h
      /\ \A s \in Slots : ~OnLookup(s, h)
  BY <1>1 DEF IInv, SavesOK, UnsentUnknown
<1> DEFINE n == Len(saves) + 1
<1>4. /\ saves' \in Seq(Save) /\ Len(saves') = n
      /\ \A i \in 1..Len(saves) : saves'[i] = saves[i]
      /\ saves'[n] = NewSave(h, "open", FALSE, "end")
  BY <1>0, <1>1, SavingFacts DEF Statuses
<1>5. /\ Len(saves) \in Nat /\ DOMAIN saves = 1..Len(saves) /\ DOMAIN saves' = 1..n
  BY <1>0, <1>4 DEF TypeOK
<1>6. /\ \A i \in DOMAIN saves : i \in DOMAIN saves' /\ saves'[i] = saves[i]
      /\ \A i \in DOMAIN saves' : i \in DOMAIN saves \/ i = n
      /\ n \in DOMAIN saves' /\ n \notin DOMAIN saves
      /\ \A i, j \in DOMAIN saves' : j < i => j \in DOMAIN saves
  BY <1>4, <1>5
<1>7. /\ saves'[n].hash = h /\ saves'[n].next = "end" /\ saves'[n].status = "open"
  BY <1>4 DEF NewSave
<1> HIDE DEF n
<1>8. \A s \in Slots : \A g : OnLookupNext(s, g) <=> OnLookup(s, g)
  BY <1>1 DEF OnLookup, OnLookupNext
<1>9. \A g : Settling(g) => SettlingNext(g)
  BY <1>6 DEF Settling, SettlingNext
<1>10. ASSUME NEW g \in Sent, sending'[g] = "ready"
       PROVE  /\ node'[g] = "unknown" /\ record'[g] = Absent /\ ~InQueueNext(g)
              /\ \A i \in DOMAIN saves' : saves'[i].hash # g
              /\ \A s \in Slots : ~OnLookupNext(s, g)
  <2>1. g # h /\ sending[g] = "ready" BY <1>1, <1>10
  <2>2. /\ node[g] = "unknown" /\ record[g] = Absent /\ ~InQueue(g)
        /\ \A i \in DOMAIN saves : saves[i].hash # g
        /\ \A s \in Slots : ~OnLookup(s, g)
    BY <2>1 DEF IInv, SavesOK, UnsentUnknown
  <2>3. \A i \in DOMAIN saves' : saves'[i].hash # g BY <1>6, <1>7, <2>1, <2>2
  <2> QED BY <1>1, <1>2, <1>8, <2>1, <2>2, <2>3
<1>11. ASSUME NEW i \in DOMAIN saves', saves'[i].status = "open", saves'[i].next = "end"
       PROVE  /\ \A j \in DOMAIN saves' : j < i => saves'[j].hash # saves'[i].hash
              /\ \A s \in Slots : ~OnLookupNext(s, saves'[i].hash)
              /\ InQueueNext(saves'[i].hash) \/ SettlingNext(saves'[i].hash)
  <2>1. CASE i = n
    <3>1. \A j \in DOMAIN saves' : j < i => saves'[j].hash # h
      BY <1>3, <1>6
    <3> QED BY <1>2, <1>3, <1>7, <1>8, <2>1, <3>1
  <2>2. CASE i \in DOMAIN saves
    <3>1. /\ \A j \in DOMAIN saves : j < i => saves[j].hash # saves[i].hash
          /\ \A s \in Slots : ~OnLookup(s, saves[i].hash)
          /\ InQueue(saves[i].hash) \/ Settling(saves[i].hash)
      BY <1>6, <1>11, <2>2 DEF IInv, SavesOK, LocalSaveFirst
    <3>2. \A j \in DOMAIN saves' : j < i => j \in DOMAIN saves /\ saves'[j] = saves[j]
      BY <1>6
    <3> QED BY <1>2, <1>6, <1>8, <1>9, <2>2, <3>1, <3>2
  <2> QED BY <1>6, <2>1, <2>2
<1>12. ASSUME NEW i \in DOMAIN saves', saves'[i].next \in Slots
       PROVE  /\ OnLookupNext(saves'[i].next, saves'[i].hash)
              /\ lookup'[saves'[i].next].stage =
                    IF saves'[i].block THEN "savingMined" ELSE "savingPending"
              /\ saves'[i].status = "open"
              /\ \A j \in DOMAIN saves' : saves'[j].next = saves'[i].next => j = i
  <2>1. i # n /\ saves'[n].next # saves'[i].next BY <1>7, <1>12, TrackingAssumption
  <2>2. i \in DOMAIN saves /\ saves'[i] = saves[i] BY <1>6, <2>1
  <2>3. /\ OnLookup(saves[i].next, saves[i].hash)
        /\ lookup[saves[i].next].stage =
              IF saves[i].block THEN "savingMined" ELSE "savingPending"
        /\ saves[i].status = "open"
        /\ \A j \in DOMAIN saves : saves[j].next = saves[i].next => j = i
    BY <1>12, <2>2 DEF IInv, SavesOK, LookupsAwaitSaves
  <2>4. \A j \in DOMAIN saves' : saves'[j].next = saves'[i].next => j = i
    BY <1>6, <2>1, <2>2, <2>3
  <2> QED BY <1>1, <1>8, <1>12, <2>2, <2>3, <2>4
<1>13. ASSUME NEW g \in StoredPending'
       PROVE  \/ InQueueNext(g) \/ \E s \in Slots : WatchingNext(s, g)
              \/ \E i \in DOMAIN saves' : saves'[i].hash = g /\
                    (saves'[i].status \in Final \/ saves'[i].next # "end")
              \/ booting'
  <2>1. g \in StoredPending BY <1>1 DEF StoredPending
  <2>2. FollowedWell(g) BY <2>1 DEF IInv, Followings
  <2>3. \A s \in Slots : Watching(s, g) => WatchingNext(s, g)
    BY <1>1, <1>8 DEF Watching, WatchingNext
  <2> QED BY <1>1, <1>2, <1>6, <2>2, <2>3 DEF FollowedWell, Watching
<1> QED BY <1>0, <1>10, <1>11, <1>12, <1>13, NextInv

\* Reading changes nothing a save is about.
LEMMA ReadExistingInv == ASSUME IInv, ReadExisting PROVE IInv'
<1>0. TypeOK /\ TypeOK' BY ReadExistingType DEF IInv
<1>1. PICK k \in DOMAIN saves : saves' = [saves EXCEPT ![k].base = record[saves[k].hash]]
  BY DEF ReadExisting
<1>2. UNCHANGED <<node, sending, record, queue, lookup, booting>> BY DEF ReadExisting
<1>3. saves \in Seq(Save) /\ \A i \in DOMAIN saves : saves[i] \in Save
  BY <1>0 DEF TypeOK
<1>4. DOMAIN saves' = DOMAIN saves BY <1>1, <1>3
<1>5. \A i \in DOMAIN saves :
         /\ saves'[i].hash = saves[i].hash /\ saves'[i].status = saves[i].status
         /\ saves'[i].block = saves[i].block /\ saves'[i].next = saves[i].next
  BY <1>1, <1>3 DEF Save
<1>6. /\ \A g : InQueueNext(g) <=> InQueue(g)
      /\ \A s \in Slots : \A g :
             /\ OnLookupNext(s, g) <=> OnLookup(s, g)
             /\ WatchingNext(s, g) <=> Watching(s, g)
      /\ \A g : SettlingNext(g) <=> Settling(g)
      /\ StoredPending' = StoredPending
  BY <1>2, <1>4, <1>5 DEF InQueue, InQueueNext, OnLookup, OnLookupNext, Watching,
     WatchingNext, Settling, SettlingNext, StoredPending
<1>7. \A h \in Sent : sending'[h] = "ready" =>
         /\ node'[h] = "unknown" /\ record'[h] = Absent /\ ~InQueueNext(h)
         /\ \A i \in DOMAIN saves' : saves'[i].hash # h
         /\ \A s \in Slots : ~OnLookupNext(s, h)
  BY <1>2, <1>4, <1>5, <1>6 DEF IInv, SavesOK, UnsentUnknown
<1>8. \A i \in DOMAIN saves' :
         saves'[i].status = "open" /\ saves'[i].next = "end" =>
            /\ \A j \in DOMAIN saves' : j < i => saves'[j].hash # saves'[i].hash
            /\ \A s \in Slots : ~OnLookupNext(s, saves'[i].hash)
            /\ InQueueNext(saves'[i].hash) \/ SettlingNext(saves'[i].hash)
  BY <1>4, <1>5, <1>6 DEF IInv, SavesOK, LocalSaveFirst
<1>9. \A i \in DOMAIN saves' : saves'[i].next \in Slots =>
         /\ OnLookupNext(saves'[i].next, saves'[i].hash)
         /\ lookup'[saves'[i].next].stage =
               IF saves'[i].block THEN "savingMined" ELSE "savingPending"
         /\ saves'[i].status = "open"
         /\ \A j \in DOMAIN saves' : saves'[j].next = saves'[i].next => j = i
  BY <1>2, <1>4, <1>5, <1>6 DEF IInv, SavesOK, LookupsAwaitSaves
<1>10. \A h \in StoredPending' :
          \/ InQueueNext(h) \/ \E s \in Slots : WatchingNext(s, h)
          \/ \E i \in DOMAIN saves' : saves'[i].hash = h /\
                (saves'[i].status \in Final \/ saves'[i].next # "end")
          \/ booting'
  BY <1>2, <1>4, <1>5, <1>6 DEF IInv, Followings, FollowedWell, Watching
<1> QED BY <1>0, <1>7, <1>8, <1>9, <1>10, NextInv

LEMMA RestartInv == ASSUME IInv, Restart PROVE IInv'
<1>0. TypeOK' BY RestartType DEF IInv
<1>1. /\ DOMAIN saves' = {} /\ DOMAIN queue' = {}
      /\ \A s \in Slots : lookup'[s] = Idle
      /\ booting' /\ UNCHANGED <<node, sending, record>>
  BY DEF Restart
<1>2. \A g : ~InQueueNext(g) /\ \A s \in Slots : ~OnLookupNext(s, g)
  BY <1>1 DEF InQueueNext, Queued, OnLookupNext
<1>3. \A h \in Sent : sending'[h] = "ready" =>
         node'[h] = "unknown" /\ record'[h] = Absent
  BY <1>1 DEF IInv, SavesOK, UnsentUnknown
<1> QED BY <1>0, <1>1, <1>2, <1>3, NextInv

LEMMA QueueStoredInv == ASSUME IInv, QueueStored PROVE IInv'
<1>0. TypeOK BY DEF IInv
<1>1. TypeOK' BY <1>0, QueueStoredFacts DEF QueueStored, TypeOK
<1>2. UNCHANGED <<node, sending, record, lookup, saves>> BY DEF QueueStored
<1>3. \A g : InQueueNext(g) <=> InQueue(g) \/ g \in StoredPending
  BY <1>0, QueueStoredFacts DEF InQueueNext
<1>4. /\ \A s \in Slots : \A g : OnLookupNext(s, g) <=> OnLookup(s, g)
      /\ \A g : SettlingNext(g) <=> Settling(g)
      /\ StoredPending' = StoredPending
  BY <1>2 DEF OnLookup, OnLookupNext, Settling, SettlingNext, StoredPending
<1>5. \A h \in Sent : sending'[h] = "ready" =>
         /\ node'[h] = "unknown" /\ record'[h] = Absent /\ ~InQueueNext(h)
         /\ \A i \in DOMAIN saves' : saves'[i].hash # h
         /\ \A s \in Slots : ~OnLookupNext(s, h)
  <2>1. \A h \in Hashes : record[h] = Absent => h \notin StoredPending
    BY DEF StoredPending, Absent
  <2> QED BY <1>2, <1>3, <1>4, <2>1 DEF IInv, SavesOK, UnsentUnknown, Hashes
<1>6. \A i \in DOMAIN saves' :
         saves'[i].status = "open" /\ saves'[i].next = "end" =>
            /\ \A j \in DOMAIN saves' : j < i => saves'[j].hash # saves'[i].hash
            /\ \A s \in Slots : ~OnLookupNext(s, saves'[i].hash)
            /\ InQueueNext(saves'[i].hash) \/ SettlingNext(saves'[i].hash)
  BY <1>2, <1>3, <1>4 DEF IInv, SavesOK, LocalSaveFirst
<1>7. \A i \in DOMAIN saves' : saves'[i].next \in Slots =>
         /\ OnLookupNext(saves'[i].next, saves'[i].hash)
         /\ lookup'[saves'[i].next].stage =
               IF saves'[i].block THEN "savingMined" ELSE "savingPending"
         /\ saves'[i].status = "open"
         /\ \A j \in DOMAIN saves' : saves'[j].next = saves'[i].next => j = i
  BY <1>2, <1>4 DEF IInv, SavesOK, LookupsAwaitSaves
<1> QED BY <1>1, <1>3, <1>4, <1>5, <1>6, <1>7, NextInv

\* A save that is written no longer follows its transaction: it has settled it,
\* has it queued, goes on with a mined one, or is the broadcast's, which comes
\* first.
LEMMA PutRecordInv == ASSUME IInv, PutRecord PROVE IInv'
<1>0. TypeOK /\ TypeOK' BY PutRecordType DEF IInv
<1> DEFINE s == saves[1]
<1>1. /\ Len(saves) \in Nat /\ Len(saves) > 0 /\ s = Head(saves)
      /\ saves \in Seq(Save) /\ saves' \in Seq(Save) /\ Len(saves') = Len(saves) - 1
      /\ \A i \in 1..(Len(saves) - 1) : saves'[i] = saves[i + 1]
  BY <1>0, HeadFacts DEF TypeOK
<1>2. /\ s \in Save /\ s.base \in Record /\ s.hash \in Hashes /\ s.block \in BOOLEAN
      /\ s.status \in Statuses \ {"absent"} /\ s.next \in {"end", "watch"} \cup Slots
  BY <1>0, HeadFacts DEF Save
\* The other saves move up by one.
<1>3. /\ DOMAIN saves = 1..Len(saves) /\ DOMAIN saves' = 1..(Len(saves) - 1)
      /\ \A i \in DOMAIN saves' : i + 1 \in DOMAIN saves /\ i + 1 # 1
                                  /\ saves'[i] = saves[i + 1]
      /\ \A i \in DOMAIN saves : i # 1 => i - 1 \in DOMAIN saves' /\ saves'[i - 1] = saves[i]
      /\ 1 \in DOMAIN saves
  <2>1. DOMAIN saves = 1..Len(saves) /\ DOMAIN saves' = 1..(Len(saves) - 1) BY <1>1
  <2>2. \A i \in DOMAIN saves' : i + 1 \in DOMAIN saves /\ i + 1 # 1 BY <1>1, <2>1
  <2>3. \A i \in DOMAIN saves : i # 1 => i - 1 \in DOMAIN saves' /\ (i - 1) + 1 = i
    BY <1>1, <2>1
  <2> QED BY <1>1, <2>1, <2>2, <2>3
<1> HIDE DEF s
<1>4. /\ UNCHANGED <<node, sending, booting>>
      /\ record' = [record EXCEPT ![s.hash] = Merge(s.base, s)]
      /\ \/ s.next = "end" /\ UNCHANGED <<lookup, queue>>
         \/ s.next = "watch" /\ Subscribe(s.hash) /\ UNCHANGED lookup
         \/ /\ s.next \in Slots
            /\ \/ /\ lookup[s.next].stage = "savingPending"
                  /\ lookup' = [lookup EXCEPT ![s.next] = Idle]
                  /\ Subscribe(s.hash)
               \/ /\ lookup[s.next].stage = "savingMined"
                  /\ lookup' = [lookup EXCEPT ![s.next].stage = "block"]
                  /\ UNCHANGED queue
  BY <1>1 DEF PutRecord
<1>5. /\ \A g : InQueue(g) => InQueueNext(g)
      /\ \A g : InQueueNext(g) => InQueue(g) \/ g = s.hash
  <2>1. CASE UNCHANGED queue BY <2>1 DEF InQueue, InQueueNext
  <2>2. CASE Subscribe(s.hash) BY <1>0, <1>2, <2>2, SubscribeFacts DEF InQueueNext
  <2> QED BY <1>4, <2>1, <2>2
<1>6. s.next \in Slots =>
         /\ OnLookup(s.next, s.hash)
         /\ lookup[s.next].stage = IF s.block THEN "savingMined" ELSE "savingPending"
         /\ \A j \in DOMAIN saves : saves[j].next = s.next => j = 1
  BY <1>3 DEF IInv, SavesOK, LookupsAwaitSaves, s
<1>7. /\ \A z \in Slots : z # s.next => lookup'[z] = lookup[z]
      /\ \A z \in Slots : \A g : OnLookupNext(z, g) => OnLookup(z, g)
  <2>1. lookup \in [Slots -> Lookup] BY <1>0 DEF TypeOK
  <2>2. CASE UNCHANGED lookup BY <2>2 DEF OnLookup, OnLookupNext
  <2>3. CASE s.next \in Slots /\ lookup' = [lookup EXCEPT ![s.next] = Idle]
    BY <2>1, <2>3 DEF OnLookup, OnLookupNext
  <2>4. CASE s.next \in Slots /\ lookup' = [lookup EXCEPT ![s.next].stage = "block"]
    <3>1. lookup[s.next] # Idle BY <1>6, <2>4 DEF OnLookup
    <3>2. lookup[s.next] \in [stage : Stages, hash : Hashes, old : BOOLEAN]
      BY <1>0, <2>4, <3>1, LookupFacts
    <3>3. lookup'[s.next].hash = lookup[s.next].hash
      BY <2>1, <2>4, <3>2
    <3> QED BY <2>1, <2>4, <3>1, <3>3 DEF OnLookup, OnLookupNext
  <2> QED BY <1>4, <2>2, <2>3, <2>4
<1>8. \A g \in Hashes : g # s.hash => record'[g] = record[g]
  BY <1>0, <1>4 DEF TypeOK
<1>9. \A g : Settling(g) /\ (g # s.hash \/ s.status = "open") => SettlingNext(g)
  <2> TAKE g
  <2> SUFFICES ASSUME Settling(g), g # s.hash \/ s.status = "open"
               PROVE  SettlingNext(g)
    OBVIOUS
  <2>1. PICK i \in DOMAIN saves : saves[i].hash = g /\ saves[i].status \in Final
    BY DEF Settling
  <2>2. i # 1 BY <2>1 DEF s, Final
  <2>3. i - 1 \in DOMAIN saves' /\ saves'[i - 1] = saves[i] BY <1>3, <2>2
  <2> QED BY <2>1, <2>3 DEF SettlingNext
<1>10. ASSUME NEW g \in Sent, sending'[g] = "ready"
       PROVE  /\ node'[g] = "unknown" /\ record'[g] = Absent /\ ~InQueueNext(g)
              /\ \A i \in DOMAIN saves' : saves'[i].hash # g
              /\ \A z \in Slots : ~OnLookupNext(z, g)
  <2>1. /\ node[g] = "unknown" /\ record[g] = Absent /\ ~InQueue(g)
        /\ \A i \in DOMAIN saves : saves[i].hash # g
        /\ \A z \in Slots : ~OnLookup(z, g)
    BY <1>4, <1>10 DEF IInv, SavesOK, UnsentUnknown
  <2>2. g # s.hash /\ g \in Hashes BY <1>3, <2>1 DEF s, Hashes
  <2> QED BY <1>3, <1>4, <1>5, <1>7, <1>8, <2>1, <2>2
<1>11. ASSUME NEW i \in DOMAIN saves', saves'[i].status = "open", saves'[i].next = "end"
       PROVE  /\ \A j \in DOMAIN saves' : j < i => saves'[j].hash # saves'[i].hash
              /\ \A z \in Slots : ~OnLookupNext(z, saves'[i].hash)
              /\ InQueueNext(saves'[i].hash) \/ SettlingNext(saves'[i].hash)
  <2> DEFINE h == saves'[i].hash
  <2>1. i + 1 \in DOMAIN saves /\ saves'[i] = saves[i + 1] BY <1>3
  <2>2. /\ \A j \in DOMAIN saves : j < i + 1 => saves[j].hash # h
        /\ \A z \in Slots : ~OnLookup(z, h)
        /\ InQueue(h) \/ Settling(h)
    BY <1>11, <2>1 DEF IInv, SavesOK, LocalSaveFirst
  <2>3. i \in Nat /\ 1 < i + 1 BY <1>1, <1>3
  <2>4. h # s.hash BY <1>3, <2>2, <2>3 DEF s
  <2>5. \A j \in DOMAIN saves' : j < i => j + 1 < i + 1 BY <1>1, <1>3
  <2> HIDE DEF h
  <2>6. \A j \in DOMAIN saves' : j < i => saves'[j].hash # h
    BY <1>3, <2>2, <2>5
  <2>7. \A z \in Slots : ~OnLookupNext(z, h) BY <1>7, <2>2
  <2>8. InQueueNext(h) \/ SettlingNext(h) BY <1>5, <1>9, <2>2, <2>4
  <2> QED BY <2>6, <2>7, <2>8 DEF h
<1>12. ASSUME NEW i \in DOMAIN saves', saves'[i].next \in Slots
       PROVE  /\ OnLookupNext(saves'[i].next, saves'[i].hash)
              /\ lookup'[saves'[i].next].stage =
                    IF saves'[i].block THEN "savingMined" ELSE "savingPending"
              /\ saves'[i].status = "open"
              /\ \A j \in DOMAIN saves' : saves'[j].next = saves'[i].next => j = i
  <2>1. i + 1 \in DOMAIN saves /\ saves'[i] = saves[i + 1] BY <1>3
  <2>2. /\ OnLookup(saves[i + 1].next, saves[i + 1].hash)
        /\ lookup[saves[i + 1].next].stage =
              IF saves[i + 1].block THEN "savingMined" ELSE "savingPending"
        /\ saves[i + 1].status = "open"
        /\ \A j \in DOMAIN saves : saves[j].next = saves[i + 1].next => j = i + 1
    BY <1>12, <2>1 DEF IInv, SavesOK, LookupsAwaitSaves
  <2>3. s.next # saves[i + 1].next BY <1>3, <2>2 DEF s
  <2>4. lookup'[saves'[i].next] = lookup[saves[i + 1].next]
    BY <1>7, <1>12, <2>1, <2>3
  <2>5. \A j \in DOMAIN saves' : saves'[j].next = saves'[i].next => j + 1 = i + 1
    BY <1>3, <2>1, <2>2
  <2>6. \A j \in DOMAIN saves' : j + 1 = i + 1 => j = i BY <1>1, <1>3
  <2> QED BY <2>1, <2>2, <2>4, <2>5, <2>6 DEF OnLookup, OnLookupNext
<1>13. ASSUME NEW g \in StoredPending'
       PROVE  \/ InQueueNext(g) \/ \E z \in Slots : WatchingNext(z, g)
              \/ \E i \in DOMAIN saves' : saves'[i].hash = g /\
                    (saves'[i].status \in Final \/ saves'[i].next # "end")
              \/ booting'
  <2>0. g \in Hashes /\ record'[g] = [status |-> "open", block |-> FALSE]
    BY DEF StoredPending
  <2>1. CASE g # s.hash
    <3>1. g \in StoredPending BY <1>8, <2>0, <2>1 DEF StoredPending
    <3>2. FollowedWell(g) BY <3>1 DEF IInv, Followings
    <3>3. ASSUME NEW z \in Slots, Watching(z, g) PROVE WatchingNext(z, g)
      <4>1. z # s.next BY <1>6, <2>1, <3>3 DEF Watching, OnLookup
      <4> QED BY <1>7, <3>3, <4>1 DEF Watching, WatchingNext, OnLookup, OnLookupNext
    <3>4. ASSUME NEW i \in DOMAIN saves, saves[i].hash = g,
                 saves[i].status \in Final \/ saves[i].next # "end"
          PROVE  \E k \in DOMAIN saves' : saves'[k].hash = g /\
                    (saves'[k].status \in Final \/ saves'[k].next # "end")
      <4>1. i # 1 BY <2>1, <3>4 DEF s
      <4> QED BY <1>3, <3>4, <4>1
    <3> QED BY <1>4, <1>5, <3>2, <3>3, <3>4 DEF FollowedWell, Watching
  <2>2. CASE g = s.hash
    <3>1. Merge(s.base, s) = [status |-> "open", block |-> FALSE]
      BY <1>0, <1>2, <1>4, <2>0, <2>2 DEF TypeOK
    <3>2. s.status = "open" /\ s.block = FALSE
      BY <1>2, <3>1 DEF Merge
    <3>3. CASE s.next = "end"
      <4>1. InQueue(g) \/ Settling(g)
        BY <1>3, <2>2, <3>2, <3>3 DEF IInv, SavesOK, LocalSaveFirst, s
      <4> QED BY <1>5, <1>9, <3>2, <4>1 DEF SettlingNext
    <3>4. CASE Subscribe(s.hash)
      BY <1>0, <1>2, <2>2, <3>4, SubscribeFacts DEF InQueueNext
    <3>5. CASE s.next \in Slots /\ lookup[s.next].stage = "savingMined"
      BY <1>6, <3>2, <3>5
    <3> QED BY <1>4, <3>3, <3>4, <3>5
  <2> QED BY <2>1, <2>2
<1> QED BY <1>0, <1>10, <1>11, <1>12, <1>13, NextInv

-----------------------------------------------------------------------------

LEMMA InitInv == ASSUME Init PROVE IInv
<1>1. /\ DOMAIN saves = {} /\ DOMAIN queue = {}
      /\ \A s \in Slots : lookup[s] = Idle
      /\ \A h \in Hashes : record[h] = Absent /\ (node[h] = "unknown" <=> h \in Sent)
  BY DEF Init
<1>2. UnsentUnknown
  BY <1>1 DEF UnsentUnknown, InQueue, Queued, OnLookup, Hashes
<1>3. LocalSaveFirst /\ LookupsAwaitSaves
  BY <1>1 DEF LocalSaveFirst, LookupsAwaitSaves
<1>4. Followings BY <1>1 DEF Followings, StoredPending, Absent
<1> QED BY <1>2, <1>3, <1>4, InitType DEF IInv, SavesOK

LEMMA StepInv == ASSUME IInv, [Next]_vars PROVE IInv'
<1>1. ASSUME NEW h \in Sent,
             Broadcast(h) \/ SendAnswered(h) \/ SendRejected(h) \/ Accept(h)
      PROVE  IInv'
  BY <1>1, BroadcastInv, SentInv, SendRejectedInv
<1>2. ASSUME NEW s \in Slots, SlotStep(s) \/ FailLookup(s) \/ Tick(s) PROVE IInv'
  BY <1>2, AnswerLookupInv, HandleNullInv, CancelLookupInv, HandleFoundInv,
     AnswerBlockInv, AnswerReceiptInv, ExpireLookupInv, FailLookupInv, TickInv
     DEF SlotStep
<1>3. ASSUME NEW h \in Hashes,
             ReceiptEvent(h) \/ PendingEvent(h) \/ Mine(h) \/ Evict(h)
      PROVE  IInv'
  BY <1>3, ReceiptEventInv, PendingEventInv, NodeInv
<1>4. CASE UNCHANGED vars
  <2>1. TypeOK' BY <1>4, TypeStep DEF IInv
  <2>2. UNCHANGED <<record, booting, queue, lookup, saves, sending, node>>
    BY <1>4 DEF vars, local
  <2> QED BY <2>1, <2>2, Untouched, HandedOver DEF SavesWell
<1> QED BY <1>1, <1>2, <1>3, <1>4, TimerInv, ReadExistingInv, PutRecordInv,
           LoadTransfersInv, GrowOldInv, RestartInv, QueueStoredInv
           DEF Next, Timing

LEMMA Implies == ASSUME IInv PROVE PendingFollowed
<1>1. ASSUME NEW h \in StoredPending PROVE Followed(h)
  <2>1. FollowedWell(h) BY <1>1 DEF IInv, Followings
  <2> QED BY <2>1 DEF FollowedWell, Followed, InQueue, OnLookup
<1> QED BY <1>1 DEF PendingFollowed

\* A transaction stored as pending is never left to itself, whatever the order
\* of listeners, answers, failures, expiry, overlapping saves and restarts
\* (retrieveTransaction, handlePendingTransaction, saveTransaction).
THEOREM PendingIsFollowed == Spec => []PendingFollowed
<1>1. Init => IInv BY InitInv
<1>2. IInv /\ [Next]_vars => IInv' BY StepInv
<1>3. IInv => PendingFollowed BY Implies
<1> QED BY <1>1, <1>2, <1>3, PTL DEF Spec

\* A lookup waits for the one save that says what it found, and a broadcast's
\* save is written before every other save of its transaction.
THEOREM SavesInPlace == Spec => [](LocalSaveFirst /\ LookupsAwaitSaves)
<1>1. Init => IInv BY InitInv
<1>2. IInv /\ [Next]_vars => IInv' BY StepInv
<1>3. IInv => LocalSaveFirst /\ LookupsAwaitSaves BY DEF IInv, SavesOK
<1> QED BY <1>1, <1>2, <1>3, PTL DEF Spec

-----------------------------------------------------------------------------
(* The tracking and the nonces together.                                   *)

Allocation == INSTANCE NonceAllocationProofs WITH
    lastSeen <- nLastSeen, phase <- nPhase, nonce <- nNonce, count <- nCount,
    auto <- nAuto, status <- nStatus, missing <- nMissing, node <- nNode,
    external <- nExternal, chainCount <- nChainCount, events <- nEvents,
    released <- nReleased, earlier <- nEarlier, restarts <- nRestarts

\* The service's nonces are those the theorems of NonceAllocationProofs are about.
LEMMA SameNonces ==
    /\ Nonces!Init <=> Allocation!Init
    /\ Nonces!Next <=> Allocation!Next
    /\ Nonces!TypeOK <=> Allocation!TypeOK
    /\ Nonces!NoAbandonedNonce <=> Allocation!NoAbandonedNonce
<1> USE DEF
      Nonces!nodeVars, Allocation!nodeVars, Nonces!walletVars,
      Allocation!walletVars, Nonces!vars, Allocation!vars, Nonces!Max2,
      Allocation!Max2, Nonces!Tracked, Allocation!Tracked, Nonces!Unseen,
      Allocation!Unseen, Nonces!NoNonce, Allocation!NoNonce, Nonces!Phases,
      Allocation!Phases, Nonces!Pooled, Allocation!Pooled, Nonces!Announced,
      Allocation!Announced, Nonces!SavedOpen, Allocation!SavedOpen,
      Nonces!Unbroadcast, Allocation!Unbroadcast, Nonces!NextNonce,
      Allocation!NextNonce, Nonces!LastSeenAfterRelease,
      Allocation!LastSeenAfterRelease, Nonces!Release, Allocation!Release,
      Nonces!AfterRestart, Allocation!AfterRestart, Nonces!InUse,
      Allocation!InUse
<1>1. \A t : Nonces!RequestSignature(t) <=> Allocation!RequestSignature(t)
  BY DEF Nonces!RequestSignature, Allocation!RequestSignature
<1>2. \A t : Nonces!AnswerCount(t) <=> Allocation!AnswerCount(t)
  BY DEF Nonces!AnswerCount, Allocation!AnswerCount
<1>3. \A t : Nonces!CountError(t) <=> Allocation!CountError(t)
  BY DEF Nonces!CountError, Allocation!CountError
<1>4. \A t : Nonces!PopulateNonce(t) <=> Allocation!PopulateNonce(t)
  BY DEF Nonces!PopulateNonce, Allocation!PopulateNonce
<1>5. \A t : Nonces!SignSucceeds(t) <=> Allocation!SignSucceeds(t)
  BY DEF Nonces!SignSucceeds, Allocation!SignSucceeds
<1>6. \A t : Nonces!SignFails(t) <=> Allocation!SignFails(t)
  BY DEF Nonces!SignFails, Allocation!SignFails
<1>7. \A t : Nonces!Broadcast(t) <=> Allocation!Broadcast(t)
  BY DEF Nonces!Broadcast, Allocation!Broadcast
<1>8. \A t : Nonces!BroadcastThrows(t) <=> Allocation!BroadcastThrows(t)
  BY DEF Nonces!BroadcastThrows, Allocation!BroadcastThrows
<1>9. \A t : Nonces!SendResolves(t) <=> Allocation!SendResolves(t)
  BY DEF Nonces!SendResolves, Allocation!SendResolves
<1>10. \A t : Nonces!SendFails(t) <=> Allocation!SendFails(t)
  BY DEF Nonces!SendFails, Allocation!SendFails
<1>11. \A t : Nonces!SaveSendError(t) <=> Allocation!SaveSendError(t)
  BY DEF Nonces!SaveSendError, Allocation!SaveSendError
<1>12. \A t : Nonces!Confirm(t) <=> Allocation!Confirm(t)
  BY DEF Nonces!Confirm, Allocation!Confirm
<1>13. \A t : Nonces!AnswerMissing(t) <=> Allocation!AnswerMissing(t)
  BY DEF Nonces!AnswerMissing, Allocation!AnswerMissing
<1>14. \A t : Nonces!CancelMissing(t) <=> Allocation!CancelMissing(t)
  BY DEF Nonces!CancelMissing, Allocation!CancelMissing
<1>15. \A t, n : Nonces!RequestWithNonce(t, n) <=> Allocation!RequestWithNonce(t, n)
  BY DEF Nonces!RequestWithNonce, Allocation!RequestWithNonce
<1>16. \A n : Nonces!HandlePending(n) <=> Allocation!HandlePending(n)
  BY DEF Nonces!HandlePending, Allocation!HandlePending
<1>17. Nonces!Restart <=> Allocation!Restart
  BY DEF Nonces!Restart, Allocation!Restart
<1>18. \A t : Nonces!AcceptTx(t) <=> Allocation!AcceptTx(t)
  BY DEF Nonces!AcceptTx, Allocation!AcceptTx
<1>19. \A t : Nonces!Evict(t) <=> Allocation!Evict(t)
  BY DEF Nonces!Evict, Allocation!Evict
<1>20. \A n : Nonces!ExternalSend(n) <=> Allocation!ExternalSend(n)
  BY DEF Nonces!ExternalSend, Allocation!ExternalSend
<1>21. Nonces!Mine <=> Allocation!Mine
  BY DEF Nonces!Mine, Allocation!Mine
<1>22. Nonces!Next <=> Allocation!Next
  <2>1. \A t : Nonces!WalletStep(t) <=> Allocation!WalletStep(t)
    BY <1>1, <1>2, <1>3, <1>4, <1>5, <1>6, <1>7, <1>8, <1>9, <1>10, <1>11,
       <1>12, <1>13, <1>14 DEF Nonces!WalletStep, Allocation!WalletStep
  <2> QED
    BY <2>1, <1>15, <1>16, <1>17, <1>18, <1>19, <1>20, <1>21, Zenon
       DEF Nonces!Next, Allocation!Next
<1>23. Nonces!Init <=> Allocation!Init
  BY DEF Nonces!Init, Allocation!Init
<1>24. Nonces!TypeOK <=> Allocation!TypeOK
  BY DEF Nonces!TypeOK, Allocation!TypeOK
<1>25. Nonces!NoAbandonedNonce <=> Allocation!NoAbandonedNonce
  BY DEF Nonces!NoAbandonedNonce, Allocation!NoAbandonedNonce
<1> QED BY <1>22, <1>23, <1>24, <1>25

\* A step of one part leaves the other alone.
LEMMA TrackingPart == SpecAll => Spec
<1>1. InitAll => Init BY DEF InitAll
<1>2. [NextAll]_everything => [Next]_vars
  BY DEF NextAll, everything, vars, local
<1> QED BY <1>1, <1>2, PTL DEF SpecAll, Spec

LEMMA NoncesPart == SpecAll => Allocation!Spec
<1>1. InitAll => Allocation!Init
  BY SameNonces DEF InitAll
<1>2. [NextAll]_everything => [Allocation!Next]_(Allocation!vars)
  <2>1. [NextAll]_everything => Nonces!Next \/ UNCHANGED nonces
    BY DEF NextAll, everything, nonces
  <2>2. UNCHANGED nonces => UNCHANGED Allocation!vars
    BY DEF nonces, Allocation!vars, Allocation!walletVars, Allocation!nodeVars
  <2> QED BY <2>1, <2>2, SameNonces
<1> QED BY <1>1, <1>2, PTL DEF SpecAll, Allocation!Spec

\* The theorems of NonceAllocationProofs assume this of the constants.
LEMMA SameConstants == Allocation!NonceAssumption
BY NonceConstants, TrackingAssumption DEF Allocation!NonceAssumption

\* The service's state stays well typed, that of the tracking and that of the
\* nonces (ChainService's fields and records).
THEOREM ServiceTypesHold == SpecAll => []TypesOK
<1>1. Allocation!Spec => []Allocation!TypeOK
  BY SameConstants, Allocation!TypeCorrect
<1>2. TypeOK /\ Allocation!TypeOK => TypesOK BY SameNonces DEF TypesOK
<1> QED BY TypesHold, <1>1, <1>2, TrackingPart, NoncesPart, PTL

\* Without pending-transaction events, and once the account has a confirmed
\* transaction, no nonce between the chain's next one and the last one handed
\* out is abandoned by the whole service (releaseEVMTransactionNonce).
THEOREM ServiceAbandonsNone ==
    ASSUME HasMempool, ~PendingFeed, InitialCount >= 1
    PROVE  SpecAll => []NoAbandonedNonce
<1>1. Allocation!Spec => []Allocation!NoAbandonedNonce
  BY SameConstants, Allocation!NoneAbandoned
<1>2. Allocation!NoAbandonedNonce => NoAbandonedNonce
  BY SameNonces DEF NoAbandonedNonce
<1> QED BY <1>1, <1>2, NoncesPart, PTL
=============================================================================
