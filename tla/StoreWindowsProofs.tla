--------------------------- MODULE StoreWindowsProofs ---------------------------
(***************************************************************************)
(* For any windows and any number of changes and restarts: a window that   *)
(* has received all there is has every change, and a reply never overtakes *)
(* the changes it stands for.  The argument follows the states a window    *)
(* holds and is sent: a difference fits on the state that comes before it, *)
(* whatever that is, and the last of them has all that was sent.           *)
(***************************************************************************)
EXTENDS StoreWindows, SequenceTheorems, TLAPS

\* The bounds are numbers.
WindowBounds == MaxChanges \in Nat /\ MaxRestarts \in Nat

\* The list has at most one member per change.
Short(s) == Len(s.list) <= s.change

\* What was sent is how the present list began, and all there is when no update
\* is due.
SentIsStart ==
    /\ Short(store) /\ Short(disk) /\ Short(sent)
    /\ Len(sent.list) <= Len(store.list)
    /\ \A k \in 1..Len(sent.list) : sent.list[k] = store.list[k]
    /\ ~unsent => sent = store

\* The states of a window: that of its copy, at 0, and those of its messages.
Holds(w, i) ==
    \/ i = 0 /\ window[w] = "ready"
    \/ i \in 1..Len(inbox[w]) /\ inbox[w][i].type # "reply"

Held(w, i) == IF i = 0 THEN copy[w] ELSE inbox[w][i].state

ReplyAt(w, i) == i \in 1..Len(inbox[w]) /\ inbox[w][i].type = "reply"

\* Nothing but replies comes between two positions of an inbox.
Adjacent(w, i, j) == \A k \in (i + 1)..(j - 1) : inbox[w][k].type = "reply"

\* A difference fits on a list that has all that came before the difference.
Fits(m, list) ==
    m.type = "patch" =>
        /\ m.from <= Len(list) /\ m.from <= Len(m.state.list)
        /\ \A k \in 1..m.from : m.state.list[k] \in ToSet(list)

Has(list, part) == Len(part) <= Len(list) /\ ToSet(part) \subseteq ToSet(list)

\* A state that the next difference fits on.
UpToDate(s) == Has(s.list, sent.list) /\ (~unsent => s.change = store.change)

\* Differences fit on what comes before them, and the last state is up to date.
Linked(w) ==
    \A i, j \in Nat :
        Holds(w, i) /\ Holds(w, j) /\ i < j /\ Adjacent(w, i, j)
            => Fits(inbox[w][j], Held(w, i).list)

Latest(w) ==
    \A i \in Nat :
        Holds(w, i) /\ Adjacent(w, i, Len(inbox[w]) + 1) => UpToDate(Held(w, i))

\* A closed window has nothing and waits for nothing, and only windows that are
\* ready dispatch.
Quiet(w) ==
    /\ window[w] = "closed" => inbox[w] = <<>> /\ w \notin asked
    /\ dispatch[w] # "idle" => window[w] = "ready"

\* One reply at a time, and only to a thunk that has ended; it waits for the
\* update when one is due; and what a window holds when the reply is next has
\* the changes by the end of the thunk.
OneReply(w) ==
    /\ \A i \in Nat : ReplyAt(w, i) => dispatch[w] = "answered"
    /\ \A i, j \in Nat : ReplyAt(w, i) /\ ReplyAt(w, j) => i = j

Locked(w) == dispatch[w] = "locked" => unsent /\ seen[w] <= store.change

InTime(w) ==
    \A i, r \in Nat :
        Holds(w, i) /\ ReplyAt(w, r) /\ i < r /\ Adjacent(w, i, r)
            => Held(w, i).change >= seen[w]

WindowInv(w) ==
    Linked(w) /\ Latest(w) /\ Quiet(w) /\ OneReply(w) /\ Locked(w) /\ InTime(w)

IInv == TypeOK /\ SentIsStart /\ \A w \in Windows : WindowInv(w)

-----------------------------------------------------------------------------
(* States and messages.                                                    *)

LEMMA Elements ==
    ASSUME NEW S, NEW s \in Seq(S)
    PROVE  /\ Len(s) \in Nat /\ ToSet(s) \subseteq S
           /\ \A x : x \in ToSet(s) <=> \E k \in 1..Len(s) : s[k] = x
BY DEF ToSet

LEMMA StateTypes ==
    ASSUME WindowBounds, NEW s \in States
    PROVE  /\ s.change \in 0..MaxChanges /\ s.change \in Nat
           /\ s.list \in Seq(1..MaxChanges) /\ Len(s.list) \in Nat
BY DEF States, WindowBounds

LEMMA MessageTypes ==
    ASSUME WindowBounds, NEW m \in Messages
    PROVE  /\ m.type \in {"state", "patch", "reply"}
           /\ m.type # "reply" => m.state \in States
           /\ m.type = "patch" => m.from \in 0..MaxChanges /\ m.from \in Nat
BY DEF Messages, WindowBounds

LEMMA InboxTypes ==
    ASSUME WindowBounds, TypeOK, NEW w \in Windows
    PROVE  /\ inbox[w] \in Seq(Messages) /\ Len(inbox[w]) \in Nat
           /\ \A i \in 1..Len(inbox[w]) : inbox[w][i] \in Messages
           /\ copy[w] \in States
           /\ \A i : Holds(w, i) => i \in Nat /\ Held(w, i) \in States
<1>1. /\ inbox[w] \in Seq(Messages) /\ Len(inbox[w]) \in Nat
      /\ \A i \in 1..Len(inbox[w]) : inbox[w][i] \in Messages
      /\ copy[w] \in States
  BY DEF TypeOK
<1>2. \A i : Holds(w, i) => i \in Nat /\ Held(w, i) \in States
  BY <1>1, MessageTypes DEF Holds, Held
<1> QED BY <1>1, <1>2

LEMMA StoreTypes ==
    ASSUME WindowBounds, TypeOK
    PROVE  /\ store \in States /\ disk \in States /\ sent \in States
           /\ store.change \in Nat /\ disk.change \in Nat /\ sent.change \in Nat
           /\ Len(store.list) \in Nat /\ Len(disk.list) \in Nat /\ Len(sent.list) \in Nat
           /\ \A w \in Windows : seen[w] \in Nat
<1>1. store \in States /\ disk \in States /\ sent \in States
  BY DEF TypeOK
<1>2. \A w \in Windows : seen[w] \in Nat
  BY DEF TypeOK, WindowBounds
<1> QED BY <1>1, <1>2, StateTypes

LEMMA InboxTypesAfter ==
    ASSUME WindowBounds, TypeOK', NEW w \in Windows
    PROVE  \A i : Holds(w, i)' => i \in Nat /\ Held(w, i)' \in States
<1>1. /\ inbox'[w] \in Seq(Messages) /\ Len(inbox'[w]) \in Nat
      /\ \A i \in 1..Len(inbox'[w]) : inbox'[w][i] \in Messages
      /\ copy'[w] \in States
  BY DEF TypeOK
<1> QED BY <1>1, MessageTypes DEF Holds, Held

LEMMA HasMore ==
    ASSUME NEW S, NEW a \in Seq(S), NEW b \in Seq(S), NEW c \in Seq(S),
           Has(a, b), Has(b, c)
    PROVE  Has(a, c)
BY Elements DEF Has

LEMMA FitsMore ==
    ASSUME WindowBounds, NEW m \in Messages, NEW a \in Seq(1..MaxChanges),
           NEW b \in Seq(1..MaxChanges), Has(a, b), Fits(m, b)
    PROVE  Fits(m, a)
<1>1. Len(a) \in Nat /\ Len(b) \in Nat /\ Len(b) <= Len(a)
  BY DEF Has
<1>2. m.type = "patch" => m.from \in Nat /\ m.from <= Len(a)
  BY <1>1, MessageTypes DEF Fits
<1> QED BY <1>2 DEF Fits, Has

\* What a difference that fits makes of a state has all of the state it leads to.
LEMMA PatchedHas ==
    ASSUME WindowBounds, NEW s \in States, NEW m \in Messages, m.type = "patch",
           Fits(m, s.list)
    PROVE  /\ Patched(s, m) \in States
           /\ Has(Patched(s, m).list, m.state.list)
           /\ Patched(s, m).change = m.state.change
<1> DEFINE S == 1..MaxChanges
           n == m.from
           new == m.state.list
           a == SubSeq(s.list, 1, n)
           b == SubSeq(new, n + 1, Len(new))
           c == SubSeq(s.list, n + 1, Len(s.list))
<1>1. n \in Nat /\ n <= Len(s.list) /\ n <= Len(new)
  BY MessageTypes DEF Fits
<1>2. s.list \in Seq(S) /\ Len(s.list) \in Nat
  BY StateTypes
<1>3. new \in Seq(S) /\ Len(new) \in Nat /\ m.state.change \in 0..MaxChanges
  BY MessageTypes, StateTypes
<1> HIDE DEF S, n, new
<1>4. /\ a \in Seq(S) /\ Len(a) = n /\ \A i \in 1..n : a[i] = s.list[i]
  <2>1. \A i \in 1..n : s.list[i] \in S BY <1>1, <1>2
  <2>2. /\ a \in Seq(S)
        /\ Len(a) = IF 1 <= n THEN n - 1 + 1 ELSE 0
        /\ \A i \in 1..(n - 1 + 1) : a[i] = s.list[1 + i - 1]
    BY <1>1, <2>1, SubSeqProperties
  <2> HIDE DEF a
  <2>3. n - 1 + 1 = n /\ \A i \in 1..n : 1 + i - 1 = i BY <1>1
  <2>4. Len(a) = n BY <1>1, <2>2
  <2> QED BY <2>2, <2>3, <2>4
<1>5. /\ b \in Seq(S) /\ Len(b) = Len(new) - n
      /\ \A i \in 1..(Len(new) - n) : b[i] = new[n + i]
  <2>1. \A i \in (n + 1)..Len(new) : new[i] \in S BY <1>1, <1>3
  <2>2. /\ b \in Seq(S)
        /\ Len(b) = IF n + 1 <= Len(new) THEN Len(new) - (n + 1) + 1 ELSE 0
        /\ \A i \in 1..(Len(new) - (n + 1) + 1) : b[i] = new[n + 1 + i - 1]
    BY <1>1, <1>3, <2>1, SubSeqProperties
  <2> HIDE DEF b
  <2>3. Len(new) - (n + 1) + 1 = Len(new) - n BY <1>1, <1>3
  <2>4. \A i \in 1..(Len(new) - n) : n + 1 + i - 1 = n + i BY <1>1
  <2>5. Len(b) = Len(new) - n BY <1>1, <1>3, <2>2
  <2> QED BY <2>2, <2>3, <2>4, <2>5
<1>6. /\ c \in Seq(S) /\ Len(c) = Len(s.list) - n
      /\ \A i \in 1..(Len(s.list) - n) : c[i] = s.list[n + i]
  <2>1. \A i \in (n + 1)..Len(s.list) : s.list[i] \in S BY <1>1, <1>2
  <2>2. /\ c \in Seq(S)
        /\ Len(c) = IF n + 1 <= Len(s.list) THEN Len(s.list) - (n + 1) + 1 ELSE 0
        /\ \A i \in 1..(Len(s.list) - (n + 1) + 1) : c[i] = s.list[n + 1 + i - 1]
    BY <1>1, <1>2, <2>1, SubSeqProperties
  <2> HIDE DEF c
  <2>3. Len(s.list) - (n + 1) + 1 = Len(s.list) - n BY <1>1, <1>2
  <2>4. \A i \in 1..(Len(s.list) - n) : n + 1 + i - 1 = n + i BY <1>1
  <2>5. Len(c) = Len(s.list) - n BY <1>1, <1>2, <2>2
  <2> QED BY <2>2, <2>3, <2>4, <2>5
<1>7. Patched(s, m) = [change |-> m.state.change, list |-> a \o b \o c]
  BY Zenon DEF Patched, n, new, a, b, c
<1> HIDE DEF a, b, c
<1>8. PICK d \in Seq(S) :
          /\ d = a \o b /\ Len(d) = Len(new)
          /\ \A i \in 1..Len(new) : d[i] = IF i <= n THEN a[i] ELSE b[i - n]
  <2>1. /\ a \o b \in Seq(S) /\ Len(a \o b) = Len(a) + Len(b)
        /\ \A i \in 1..(Len(a) + Len(b)) :
              (a \o b)[i] = IF i <= Len(a) THEN a[i] ELSE b[i - Len(a)]
    BY <1>4, <1>5, ConcatProperties
  <2>2. Len(a) + Len(b) = Len(new) BY <1>1, <1>3, <1>4, <1>5
  <2> QED BY <1>4, <2>1, <2>2
<1>9. PICK l \in Seq(S) :
          /\ l = a \o b \o c /\ Len(l) = Len(new) + (Len(s.list) - n)
          /\ \A i \in 1..(Len(new) + (Len(s.list) - n)) :
                l[i] = IF i <= Len(new) THEN d[i] ELSE c[i - Len(new)]
  <2>1. /\ d \o c \in Seq(S) /\ Len(d \o c) = Len(d) + Len(c)
        /\ \A i \in 1..(Len(d) + Len(c)) :
              (d \o c)[i] = IF i <= Len(d) THEN d[i] ELSE c[i - Len(d)]
    BY <1>6, ConcatProperties
  <2>2. d \o c = a \o b \o c BY <1>8
  <2>3. Len(d) = Len(new) /\ Len(d) + Len(c) = Len(new) + (Len(s.list) - n)
    BY <1>6, <1>8
  <2>4. PICK l \in Seq(S) : l = d \o c BY <2>1
  <2> QED BY <2>1, <2>2, <2>3, <2>4, Zenon
<1>10. \A x \in ToSet(s.list) : x \in ToSet(l)
  <2> SUFFICES ASSUME NEW k \in 1..Len(s.list) PROVE s.list[k] \in ToSet(l)
    BY <1>2, Elements
  <2>1. CASE k <= n
    <3>1. k \in 1..n /\ k \in 1..Len(new) /\ k \in 1..Len(l)
      BY <1>1, <1>2, <1>3, <1>9, <2>1
    <3>2. l[k] = s.list[k] BY <1>3, <1>4, <1>8, <1>9, <3>1
    <3>3. \A i \in 1..Len(l) : l[i] \in ToSet(l) BY Elements
    <3> QED BY <3>1, <3>2, <3>3
  <2>2. CASE k > n
    <3>1. k - n \in 1..(Len(s.list) - n) /\ n + (k - n) = k BY <1>1, <1>2, <2>2
    <3>2. PICK i \in 1..Len(l) : i = Len(new) + (k - n)
      <4>1. Len(new) + (k - n) \in 1..Len(l)
        <5>1. k - n >= 1 /\ k - n <= Len(s.list) - n /\ k - n \in Int BY <3>1
        <5> QED BY <1>1, <1>2, <1>3, <1>9, <5>1
      <4> QED BY <4>1
    <3>3. ~(i <= Len(new)) /\ i - Len(new) = k - n BY <1>3, <3>1, <3>2
    <3>4. l[i] = c[k - n] BY <1>9, <3>2, <3>3
    <3>5. l[i] = s.list[k] BY <1>6, <3>1, <3>4
    <3> QED BY <3>5, Elements
  <2> QED BY <1>1, <2>1, <2>2
<1>11. \A x \in ToSet(new) : x \in ToSet(l)
  <2> SUFFICES ASSUME NEW k \in 1..Len(new) PROVE new[k] \in ToSet(l)
    BY <1>3, Elements
  <2>1. CASE k <= n
    <3>1. \A i \in 1..n : new[i] \in ToSet(s.list) BY DEF Fits, n, new
    <3>2. k \in 1..n BY <1>1, <2>1
    <3> QED BY <1>10, <3>1, <3>2
  <2>2. CASE k > n
    <3>1. k - n \in 1..(Len(new) - n) /\ n + (k - n) = k BY <1>1, <1>3, <2>2
    <3>2. k \in 1..Len(l) BY <1>1, <1>2, <1>3, <1>9
    <3>3. l[k] = d[k] BY <1>9, <3>2
    <3>4. d[k] = b[k - n] BY <1>1, <1>8, <2>2
    <3>5. l[k] = new[k] BY <1>5, <3>1, <3>3, <3>4
    <3> QED BY <3>2, <3>5, Elements
  <2> QED BY <1>1, <2>1, <2>2
<1>12. Len(new) <= Len(l)
  BY <1>1, <1>2, <1>3, <1>9
<1>13. Patched(s, m) \in States
  BY <1>3, <1>7, <1>9 DEF States, S
<1>14. Has(l, new)
  BY <1>11, <1>12 DEF Has
<1>15. Patched(s, m).list = l /\ Patched(s, m).change = m.state.change
  BY <1>7, <1>9
<1> QED BY <1>13, <1>14, <1>15 DEF new

-----------------------------------------------------------------------------
(* What steps do to the messages of a window.                              *)

\* A window that gets nothing, while the store may change.
LEMMA Still ==
    ASSUME WindowBounds, IInv, NEW w \in Windows,
           UNCHANGED <<inbox[w], copy[w], window[w], sent>>,
           unsent => unsent', unsent' \/ store' = store
    PROVE  /\ Linked(w)' /\ Latest(w)'
           /\ \A i, j : /\ Holds(w, i)' <=> Holds(w, i)
                        /\ Held(w, i)' = Held(w, i)
                        /\ Adjacent(w, i, j)' <=> Adjacent(w, i, j)
                        /\ ReplyAt(w, i)' <=> ReplyAt(w, i)
<1>1. \A i, j : /\ Holds(w, i)' <=> Holds(w, i)
                /\ Held(w, i)' = Held(w, i)
                /\ Adjacent(w, i, j)' <=> Adjacent(w, i, j)
                /\ ReplyAt(w, i)' <=> ReplyAt(w, i)
  BY DEF Holds, Held, Adjacent, ReplyAt
<1>2. Linked(w) /\ Latest(w)
  BY DEF IInv, WindowInv
<1>3. Linked(w)'
  BY <1>1, <1>2 DEF Linked
<1>4. \A s : UpToDate(s) => UpToDate(s)'
  BY DEF UpToDate
<1>5. Latest(w)'
  BY <1>1, <1>2, <1>4 DEF Latest
<1> QED BY <1>1, <1>3, <1>5

\* And that does nothing either.
LEMMA Unmoved ==
    ASSUME WindowBounds, IInv, NEW w \in Windows,
           UNCHANGED <<inbox[w], copy[w], window[w], dispatch[w], seen[w], sent>>,
           w \in asked' => w \in asked,
           store.change <= store'.change, store'.change \in Nat,
           unsent => unsent', unsent' \/ store' = store
    PROVE  WindowInv(w)'
<1>1. /\ Linked(w)' /\ Latest(w)'
      /\ \A i, j : /\ Holds(w, i)' <=> Holds(w, i)
                   /\ Held(w, i)' = Held(w, i)
                   /\ Adjacent(w, i, j)' <=> Adjacent(w, i, j)
                   /\ ReplyAt(w, i)' <=> ReplyAt(w, i)
  BY Still
<1>2. WindowInv(w)
  BY DEF IInv
<1>3. Quiet(w)'
  BY <1>2 DEF WindowInv, Quiet
<1>4. OneReply(w)'
  BY <1>1, <1>2 DEF WindowInv, OneReply
<1>5. InTime(w)'
  BY <1>1, <1>2 DEF WindowInv, InTime
<1>6. seen[w] \in Nat /\ store.change \in Nat
  BY StoreTypes DEF IInv
<1>7. Locked(w)'
  BY <1>2, <1>6 DEF WindowInv, Locked
<1> QED BY <1>1, <1>3, <1>4, <1>5, <1>7 DEF WindowInv

\* A window that has nothing and does nothing.
LEMMA Emptied ==
    ASSUME NEW w \in Windows, inbox'[w] = <<>>, window'[w] # "ready",
           window'[w] = "closed" => w \notin asked', dispatch'[w] = "idle"
    PROVE  WindowInv(w)'
<1>1. \A i : ~Holds(w, i)' /\ ~ReplyAt(w, i)'
  BY DEF Holds, ReplyAt
<1>2. Linked(w)' /\ Latest(w)' /\ OneReply(w)' /\ InTime(w)'
  BY <1>1 DEF Linked, Latest, OneReply, InTime
<1>3. Quiet(w)' /\ Locked(w)'
  BY DEF Quiet, Locked
<1> QED BY <1>2, <1>3 DEF WindowInv

\* What one message makes of the inbox, and one with a reply behind it.
LEMMA OneMore ==
    ASSUME NEW s \in Seq(Messages), NEW m \in Messages
    PROVE  /\ \A k \in 1..Len(s) : Append(s, m)[k] = s[k]
           /\ Append(s, m)[Len(s) + 1] = m
           /\ Len(Append(s, m)) = Len(s) + 1
BY AppendProperties

LEMMA TwoMore ==
    ASSUME NEW s \in Seq(Messages), NEW m \in Messages
    PROVE  /\ \A k \in 1..Len(s) : Append(Append(s, m), Reply)[k] = s[k]
           /\ Append(Append(s, m), Reply)[Len(s) + 1] = m
           /\ Append(Append(s, m), Reply)[Len(s) + 2] = Reply
           /\ Len(Append(Append(s, m), Reply)) = Len(s) + 2
<1> DEFINE u == Append(s, m)
           v == Append(u, Reply)
<1>1. Reply \in Messages BY DEF Messages, Reply
<1>2. /\ u \in Seq(Messages) /\ Len(u) = Len(s) + 1 /\ u[Len(s) + 1] = m
      /\ \A k \in 1..Len(s) : u[k] = s[k]
  BY AppendProperties
<1>3. Len(s) \in Nat BY LenProperties
<1> HIDE DEF u
<1>4. Len(v) = Len(u) + 1 /\ v[Len(u) + 1] = Reply /\ \A k \in 1..Len(u) : v[k] = u[k]
  BY <1>1, <1>2, AppendProperties
<1> HIDE DEF v
<1>5. /\ Len(u) + 1 = Len(s) + 2 /\ Len(s) + 1 \in 1..Len(u)
      /\ \A k \in 1..Len(s) : k \in 1..Len(u)
  BY <1>2, <1>3
<1>6. /\ Len(v) = Len(s) + 2 /\ v[Len(s) + 2] = Reply /\ v[Len(s) + 1] = m
      /\ \A k \in 1..Len(s) : v[k] = s[k]
  BY <1>2, <1>4, <1>5
<1> QED BY <1>6 DEF u, v

\* A state or a difference comes in behind the others, and a reply behind it or
\* not.
LEMMA Extended ==
    ASSUME WindowBounds, IInv, NEW w \in Windows, NEW m \in Messages, m.type # "reply",
           NEW n \in Nat, n = Len(inbox[w]),
           \/ inbox'[w] = Append(inbox[w], m)
           \/ inbox'[w] = Append(Append(inbox[w], m), Reply),
           UNCHANGED <<copy[w], window[w]>>,
           UpToDate(m.state)',
           \A i \in Nat : Holds(w, i) /\ Adjacent(w, i, n + 1)
                             => Fits(m, Held(w, i).list)
    PROVE  /\ Linked(w)' /\ Latest(w)'
           /\ \A r : ReplyAt(w, r)' =>
                 \/ ReplyAt(w, r)
                 \/ /\ r = n + 2
                    /\ inbox'[w] = Append(Append(inbox[w], m), Reply)
           /\ \A i, r \in Nat : ReplyAt(w, r) /\ Holds(w, i)' /\ i < r /\ Adjacent(w, i, r)'
                 => Holds(w, i) /\ Adjacent(w, i, r) /\ Held(w, i)' = Held(w, i)
           /\ \A i \in Nat : /\ Holds(w, i)' /\ i < n + 2
                             /\ Adjacent(w, i, n + 2)'
                 => Held(w, i)' = m.state
<1>1. inbox[w] \in Seq(Messages) /\ n \in Nat
  BY InboxTypes DEF IInv
<1>2. Reply \in Messages /\ Reply.type = "reply"
  BY DEF Messages, Reply
<1>3. /\ \A k \in 1..n : inbox'[w][k] = inbox[w][k]
      /\ inbox'[w][n + 1] = m
      /\ \/ Len(inbox'[w]) = n + 1
         \/ /\ Len(inbox'[w]) = n + 2 /\ inbox'[w][n + 2] = Reply
            /\ inbox'[w] = Append(Append(inbox[w], m), Reply)
  <2>1. CASE inbox'[w] = Append(inbox[w], m)
    BY <1>1, <2>1, OneMore
  <2>2. CASE inbox'[w] = Append(Append(inbox[w], m), Reply)
    BY <1>1, <2>2, TwoMore
  <2> QED BY <2>1, <2>2
<1>4. \A i \in 0..n : (Holds(w, i)' <=> Holds(w, i)) /\ Held(w, i)' = Held(w, i)
  <2> TAKE i \in 0..n
  <2>1. CASE i = 0 BY <2>1, <1>1, <1>3 DEF Holds, Held
  <2>2. CASE i # 0
    <3>1. i \in 1..n /\ i \in 1..Len(inbox'[w]) BY <1>1, <1>3, <2>2
    <3> QED BY <1>3, <2>2, <3>1 DEF Holds, Held
  <2> QED BY <2>1, <2>2
<1>5. \A i \in Nat, j \in 0..(n + 1) : Adjacent(w, i, j)' <=> Adjacent(w, i, j)
  <2> TAKE i \in Nat, j \in 0..(n + 1)
  <2>1. \A k \in (i + 1)..(j - 1) : k \in 1..n BY <1>1
  <2> QED BY <1>3, <2>1 DEF Adjacent
<1>6. \A i \in Nat : Holds(w, i)' => i \in 0..(n + 1)
  <2> TAKE i \in Nat
  <2>1. ~Holds(w, n + 2)' BY <1>1, <1>2, <1>3 DEF Holds
  <2>2. Holds(w, i)' => i = 0 \/ i \in 1..(n + 2) BY <1>1, <1>3 DEF Holds
  <2>3. i \in 1..(n + 2) /\ i # n + 2 => i \in 0..(n + 1) BY <1>1
  <2>4. i = 0 => i \in 0..(n + 1) BY <1>1
  <2> QED BY <2>1, <2>2, <2>3, <2>4
<1>7. Held(w, n + 1)' = m.state
  BY <1>1, <1>3 DEF Held
<1>8. \A i \in 0..n, j \in {n + 2, n + 3} : ~Adjacent(w, i, j)'
  <2> TAKE i \in 0..n, j \in {n + 2, n + 3}
  <2>1. n + 1 \in (i + 1)..(j - 1) BY <1>1
  <2> QED BY <1>3, <2>1 DEF Adjacent
<1>9. Linked(w)'
  <2> SUFFICES ASSUME NEW i \in Nat, NEW j \in Nat, Holds(w, i)', Holds(w, j)', i < j,
                      Adjacent(w, i, j)'
               PROVE  Fits(inbox'[w][j], Held(w, i)'.list)
    BY DEF Linked
  <2>1. i \in 0..n /\ j \in 1..(n + 1) BY <1>1, <1>6
  <2>2. Holds(w, i) /\ Adjacent(w, i, j) /\ Held(w, i)' = Held(w, i)
    <3>1. j \in 0..(n + 1) BY <2>1
    <3> QED BY <1>4, <1>5, <2>1, <3>1
  <2>3. CASE j = n + 1 BY <1>3, <2>2, <2>3
  <2>4. CASE j # n + 1
    <3>1. j \in 1..n /\ j \in 0..n BY <1>1, <2>1, <2>4
    <3>2. Holds(w, j) /\ inbox'[w][j] = inbox[w][j] BY <1>3, <1>4, <3>1
    <3> QED BY <2>2, <3>2 DEF IInv, WindowInv, Linked
  <2> QED BY <2>3, <2>4
<1>10. Latest(w)'
  <2> SUFFICES ASSUME NEW i \in Nat, Holds(w, i)', Adjacent(w, i, Len(inbox[w]) + 1)'
               PROVE  UpToDate(Held(w, i))'
    BY DEF Latest
  <2>1. Len(inbox'[w]) + 1 \in {n + 2, n + 3} BY <1>1, <1>3
  <2>2. i \in 0..(n + 1) /\ i \notin 0..n BY <1>6, <1>8, <2>1
  <2>3. i = n + 1 BY <1>1, <2>2
  <2> QED BY <1>7, <2>3
<1>11. \A r : ReplyAt(w, r)' =>
          \/ ReplyAt(w, r)
          \/ r = n + 2 /\ inbox'[w] = Append(Append(inbox[w], m), Reply)
  <2> TAKE r
  <2> HAVE ReplyAt(w, r)'
  <2>1. r \in 1..Len(inbox'[w]) /\ inbox'[w][r].type = "reply" BY DEF ReplyAt
  <2>2. r # n + 1 BY <1>3, <2>1
  <2>3. CASE r \in 1..n BY <1>3, <2>1, <2>3 DEF ReplyAt
  <2>4. CASE r \notin 1..n
    <3>1. r = n + 2 /\ Len(inbox'[w]) # n + 1 BY <1>1, <1>3, <2>1, <2>2, <2>4
    <3>2. inbox'[w] = Append(Append(inbox[w], m), Reply) BY <1>3, <3>1
    <3> QED BY <3>1, <3>2
  <2> QED BY <2>3, <2>4
<1>12. \A i, r \in Nat : ReplyAt(w, r) /\ Holds(w, i)' /\ i < r /\ Adjacent(w, i, r)'
          => Holds(w, i) /\ Adjacent(w, i, r) /\ Held(w, i)' = Held(w, i)
  <2> SUFFICES ASSUME NEW i \in Nat, NEW r \in Nat, ReplyAt(w, r), Holds(w, i)', i < r,
                      Adjacent(w, i, r)'
               PROVE  Holds(w, i) /\ Adjacent(w, i, r) /\ Held(w, i)' = Held(w, i)
    OBVIOUS
  <2>1. r \in 1..n BY DEF ReplyAt
  <2>2. i \in 0..n /\ r \in 0..(n + 1) BY <1>1, <2>1
  <2> QED BY <1>4, <1>5, <2>2
<1>13. \A i \in Nat : Holds(w, i)' /\ i < n + 2 /\ Adjacent(w, i, n + 2)'
          => Held(w, i)' = m.state
  <2> SUFFICES ASSUME NEW i \in Nat, Holds(w, i)', Adjacent(w, i, n + 2)'
               PROVE  Held(w, i)' = m.state
    OBVIOUS
  <2>1. i \notin 0..n BY <1>8
  <2>2. i = n + 1 BY <1>1, <1>6, <2>1
  <2> QED BY <1>7, <2>2
<1> QED BY <1>9, <1>10, <1>11, <1>12, <1>13

\* The first message is received: what the window holds then has all of what it
\* replaces, which is the message or, when that was no state, the copy.
LEMMA Shifted ==
    ASSUME WindowBounds, IInv, TypeOK', NEW w \in Windows, inbox[w] # <<>>,
           inbox'[w] = Tail(inbox[w]), NEW o \in {0, 1},
           o = 0 => inbox[w][1].type = "reply",
           Holds(w, 0)' => /\ Holds(w, o)
                           /\ Has(copy'[w].list, Held(w, o).list)
                           /\ copy'[w].change = Held(w, o).change,
           UNCHANGED <<sent, store, unsent>>
    PROVE  /\ Linked(w)' /\ Latest(w)'
           /\ \A r : ReplyAt(w, r)' <=> r \in Nat /\ r > 0 /\ ReplyAt(w, r + 1)
           /\ \A i, r \in Nat : Holds(w, i)' /\ ReplyAt(w, r)' /\ i < r /\ Adjacent(w, i, r)'
                 => \E p \in Nat : /\ Holds(w, p) /\ p < r + 1 /\ Adjacent(w, p, r + 1)
                                   /\ Held(w, i)'.change = Held(w, p).change
<1>0. PICK n \in Nat : n = Len(inbox[w])
  BY InboxTypes DEF IInv
<1>1. inbox[w] \in Seq(Messages) /\ n \in Nat /\ n > 0 /\ n = Len(inbox[w])
  BY <1>0, InboxTypes DEF IInv
<1>2. /\ Len(inbox'[w]) = n - 1
      /\ \A k \in 1..(n - 1) : inbox'[w][k] = inbox[w][k + 1]
  BY <1>1
<1>3. \A i, j \in Nat : i > 0 /\ j <= n /\ Adjacent(w, i, j)' => Adjacent(w, i + 1, j + 1)
  <2> TAKE i, j \in Nat
  <2> HAVE i > 0 /\ j <= n /\ Adjacent(w, i, j)'
  <2> SUFFICES ASSUME NEW k \in (i + 1 + 1)..(j + 1 - 1)
               PROVE  inbox[w][k].type = "reply"
    BY DEF Adjacent
  <2>1. k - 1 \in (i + 1)..(j - 1) /\ k - 1 \in 1..(n - 1) /\ (k - 1) + 1 = k
    BY <1>1
  <2>2. inbox'[w][k - 1] = inbox[w][k] BY <1>2, <2>1
  <2> QED BY <2>1, <2>2 DEF Adjacent
<1>4. \A j \in Nat : j <= n /\ Adjacent(w, 0, j)' => Adjacent(w, o, j + 1)
  <2> TAKE j \in Nat
  <2> HAVE j <= n /\ Adjacent(w, 0, j)'
  <2> SUFFICES ASSUME NEW k \in (o + 1)..(j + 1 - 1)
               PROVE  inbox[w][k].type = "reply"
    BY DEF Adjacent
  <2>1. CASE k = 1 BY <2>1
  <2>2. CASE k # 1
    <3>1. k - 1 \in (0 + 1)..(j - 1) /\ k - 1 \in 1..(n - 1) /\ (k - 1) + 1 = k
      BY <1>1, <2>2
    <3>2. inbox'[w][k - 1] = inbox[w][k] BY <1>2, <3>1
    <3> QED BY <3>1, <3>2 DEF Adjacent
  <2> QED BY <2>1, <2>2
<1>5. \A i \in Nat \ {0} : /\ Holds(w, i)' <=> Holds(w, i + 1)
                           /\ ReplyAt(w, i)' <=> ReplyAt(w, i + 1)
                           /\ Holds(w, i)' => Held(w, i)' = Held(w, i + 1)
                           /\ Holds(w, i)' => inbox'[w][i] = inbox[w][i + 1]
                           /\ Holds(w, i)' \/ ReplyAt(w, i)' => i < n
  <2> TAKE i \in Nat \ {0}
  <2>1. i \in 1..(n - 1) <=> i + 1 \in 1..n BY <1>1
  <2>2. i \in 1..(n - 1) => inbox'[w][i] = inbox[w][i + 1] BY <1>2
  <2>3. i + 1 # 0 /\ i # 0 OBVIOUS
  <2>4. i \in 1..(n - 1) => i < n BY <1>1
  <2> QED BY <1>1, <1>2, <2>1, <2>2, <2>3, <2>4 DEF Holds, Held, ReplyAt
\* What is held afterwards was held before, or has all of what was.
<1>6. ASSUME NEW i \in Nat, Holds(w, i)'
      PROVE  \E p \in Nat :
                /\ Holds(w, p) /\ p <= i + 1
                /\ Has(Held(w, i)'.list, Held(w, p).list)
                /\ Held(w, i)'.change = Held(w, p).change
                /\ \A j \in Nat : j <= n /\ Adjacent(w, i, j)' => Adjacent(w, p, j + 1)
  <2>1. CASE i = 0
    <3>1. Held(w, 0)' = copy'[w] BY DEF Held
    <3>2. o \in Nat /\ o <= 0 + 1 OBVIOUS
    <3>3. Holds(w, o) /\ Has(copy'[w].list, Held(w, o).list)
          /\ copy'[w].change = Held(w, o).change
      BY <1>6, <2>1
    <3> QED BY <1>4, <2>1, <3>1, <3>2, <3>3
  <2>2. CASE i # 0
    <3>1. Holds(w, i + 1) /\ Held(w, i)' = Held(w, i + 1) BY <1>5, <1>6, <2>2
    <3>2. Held(w, i + 1).list \in Seq(1..MaxChanges)
      BY <3>1, InboxTypes, StateTypes DEF IInv
    <3>3. Has(Held(w, i + 1).list, Held(w, i + 1).list) BY <3>2 DEF Has
    <3>4. i + 1 \in Nat /\ i > 0 BY <2>2
    <3> QED BY <1>3, <3>1, <3>3, <3>4
  <2> QED BY <2>1, <2>2
<1>7. Linked(w)'
  <2> SUFFICES ASSUME NEW i \in Nat, NEW j \in Nat, Holds(w, i)', Holds(w, j)', i < j,
                      Adjacent(w, i, j)'
               PROVE  Fits(inbox'[w][j], Held(w, i)'.list)
    BY DEF Linked
  <2>1. PICK p \in Nat : /\ Holds(w, p) /\ p <= i + 1
                         /\ Has(Held(w, i)'.list, Held(w, p).list)
                         /\ \A k \in Nat : k <= n /\ Adjacent(w, i, k)'
                                              => Adjacent(w, p, k + 1)
    BY <1>6
  <2>2. j \in Nat \ {0} OBVIOUS
  <2>3. Holds(w, j + 1) /\ inbox'[w][j] = inbox[w][j + 1] /\ j < n BY <1>5, <2>2
  <2>4. Adjacent(w, p, j + 1) /\ p < j + 1 /\ j + 1 \in Nat
    BY <1>1, <2>1, <2>3
  <2>5. Fits(inbox[w][j + 1], Held(w, p).list)
    BY <2>1, <2>3, <2>4 DEF IInv, WindowInv, Linked
  <2>6. /\ Held(w, p).list \in Seq(1..MaxChanges) /\ inbox[w][j + 1] \in Messages
    <3>1. j + 1 \in 1..n BY <1>1, <2>2, <2>3
    <3> QED BY <1>1, <2>1, <3>1, InboxTypes, StateTypes DEF IInv
  <2>7. Held(w, i)'.list \in Seq(1..MaxChanges)
    <3> QED BY InboxTypesAfter, StateTypes
  <2> QED BY <2>1, <2>3, <2>5, <2>6, <2>7, FitsMore
<1>8. Latest(w)'
  <2> SUFFICES ASSUME NEW i \in Nat, Holds(w, i)', Adjacent(w, i, Len(inbox[w]) + 1)'
               PROVE  UpToDate(Held(w, i))'
    BY DEF Latest
  <2>1. PICK p \in Nat : /\ Holds(w, p)
                         /\ Has(Held(w, i)'.list, Held(w, p).list)
                         /\ Held(w, i)'.change = Held(w, p).change
                         /\ \A k \in Nat : k <= n /\ Adjacent(w, i, k)'
                                              => Adjacent(w, p, k + 1)
    BY <1>6
  <2>2. Len(inbox'[w]) + 1 = n BY <1>1, <1>2
  <2>3. Adjacent(w, p, n + 1) BY <1>1, <2>1, <2>2
  <2>4. UpToDate(Held(w, p)) BY <1>1, <2>1, <2>3 DEF IInv, WindowInv, Latest
  <2>5. Held(w, p).list \in Seq(1..MaxChanges)
    BY <2>1, InboxTypes, StateTypes DEF IInv
  <2>6. Held(w, i)'.list \in Seq(1..MaxChanges)
    <3> QED BY InboxTypesAfter, StateTypes
  <2>7. sent.list \in Seq(1..MaxChanges)
    BY StateTypes DEF IInv, TypeOK
  <2>8. Has(Held(w, i)'.list, sent.list)
    BY <2>1, <2>4, <2>5, <2>6, <2>7, HasMore DEF UpToDate
  <2> QED BY <2>1, <2>4, <2>8 DEF UpToDate
<1>9. \A r : ReplyAt(w, r)' <=> r \in Nat /\ r > 0 /\ ReplyAt(w, r + 1)
  <2>1. \A r : ReplyAt(w, r)' => r \in Nat \ {0} BY <1>1, <1>2 DEF ReplyAt
  <2>2. \A r : r \in Nat /\ r > 0 <=> r \in Nat \ {0} OBVIOUS
  <2> QED BY <1>5, <2>1, <2>2
<1>10. ASSUME NEW i \in Nat, NEW r \in Nat, Holds(w, i)', ReplyAt(w, r)', i < r,
              Adjacent(w, i, r)'
       PROVE  \E p \in Nat : /\ Holds(w, p) /\ p < r + 1 /\ Adjacent(w, p, r + 1)
                             /\ Held(w, i)'.change = Held(w, p).change
  <2>1. PICK p \in Nat : /\ Holds(w, p) /\ p <= i + 1
                         /\ Held(w, i)'.change = Held(w, p).change
                         /\ \A k \in Nat : k <= n /\ Adjacent(w, i, k)'
                                              => Adjacent(w, p, k + 1)
    BY <1>6, <1>10
  <2>2. r \in Nat \ {0} BY <1>10
  <2>3. r < n BY <1>5, <1>10, <2>2
  <2>4. p < r + 1 /\ r <= n BY <1>1, <1>10, <2>1, <2>3
  <2> QED BY <1>10, <2>1, <2>4
<1> QED BY <1>7, <1>8, <1>9, <1>10

\* A state or a difference comes in while the reply that is on its way, if any,
\* stays what it is.
LEMMA Appended ==
    ASSUME WindowBounds, IInv, NEW w \in Windows, NEW m \in Messages, m.type # "reply",
           inbox'[w] = Append(inbox[w], m), UNCHANGED <<copy[w], window[w]>>,
           UpToDate(m.state)',
           \A i \in Nat : Holds(w, i) /\ Adjacent(w, i, Len(inbox[w]) + 1)
                             => Fits(m, Held(w, i).list),
           dispatch[w] = "answered" => UNCHANGED <<dispatch[w], seen[w]>>
    PROVE  Linked(w)' /\ Latest(w)' /\ OneReply(w)' /\ InTime(w)'
<1>1. PICK n \in Nat : n = Len(inbox[w])
  BY InboxTypes DEF IInv
<1>2. inbox[w] \in Seq(Messages)
  BY InboxTypes DEF IInv
<1>3. Len(inbox'[w]) = n + 1
  BY <1>1, <1>2
<1>4. /\ Linked(w)' /\ Latest(w)'
      /\ \A r : ReplyAt(w, r)' =>
            \/ ReplyAt(w, r)
            \/ r = n + 2 /\ inbox'[w] = Append(Append(inbox[w], m), Reply)
      /\ \A i, r \in Nat : ReplyAt(w, r) /\ Holds(w, i)' /\ i < r /\ Adjacent(w, i, r)'
            => Holds(w, i) /\ Adjacent(w, i, r) /\ Held(w, i)' = Held(w, i)
  <2>1. \A i \in Nat : Holds(w, i) /\ Adjacent(w, i, n + 1) => Fits(m, Held(w, i).list)
    BY <1>1
  <2> QED BY <1>1, <2>1, Extended
<1>5. \A r : ReplyAt(w, r)' => ReplyAt(w, r)
  <2>1. \A r : ReplyAt(w, r)' => r # n + 2
    BY <1>3 DEF ReplyAt
  <2> QED BY <1>4, <2>1
<1>6. OneReply(w) /\ InTime(w)
  BY DEF IInv, WindowInv
<1>7. OneReply(w)'
  BY <1>5, <1>6 DEF OneReply
<1>8. InTime(w)'
  <2> SUFFICES ASSUME NEW i \in Nat, NEW r \in Nat, Holds(w, i)', ReplyAt(w, r)', i < r,
                      Adjacent(w, i, r)'
               PROVE  Held(w, i)'.change >= seen'[w]
    BY DEF InTime
  <2>1. ReplyAt(w, r) /\ dispatch[w] = "answered"
    BY <1>5, <1>6 DEF OneReply
  <2>2. Holds(w, i) /\ Adjacent(w, i, r) /\ Held(w, i)' = Held(w, i)
    BY <1>4, <2>1
  <2> QED BY <1>6, <2>1, <2>2 DEF InTime
<1> QED BY <1>4, <1>7, <1>8

\* The reply that was waited for comes in behind the difference.
LEMMA Released ==
    ASSUME WindowBounds, IInv, NEW w \in Windows, NEW m \in Messages, m.type # "reply",
           inbox'[w] = Append(Append(inbox[w], m), Reply), UNCHANGED <<copy[w], window[w]>>,
           UpToDate(m.state)',
           \A i \in Nat : Holds(w, i) /\ Adjacent(w, i, Len(inbox[w]) + 1)
                             => Fits(m, Held(w, i).list),
           dispatch[w] # "answered", dispatch'[w] = "answered",
           m.state.change >= seen'[w]
    PROVE  Linked(w)' /\ Latest(w)' /\ OneReply(w)' /\ InTime(w)'
<1>1. PICK n \in Nat : n = Len(inbox[w])
  BY InboxTypes DEF IInv
<1>2. /\ Linked(w)' /\ Latest(w)'
      /\ \A r : ReplyAt(w, r)' =>
            \/ ReplyAt(w, r)
            \/ r = n + 2 /\ inbox'[w] = Append(Append(inbox[w], m), Reply)
      /\ \A i \in Nat : Holds(w, i)' /\ i < n + 2 /\ Adjacent(w, i, n + 2)'
            => Held(w, i)' = m.state
  <2>1. \A i \in Nat : Holds(w, i) /\ Adjacent(w, i, n + 1) => Fits(m, Held(w, i).list)
    BY <1>1
  <2> QED BY <1>1, <2>1, Extended
<1>3. \A r : ~ReplyAt(w, r)
  <2>1. \A r : ReplyAt(w, r) => r \in Nat BY InboxTypes DEF ReplyAt, IInv
  <2> QED BY <2>1 DEF IInv, WindowInv, OneReply
<1>4. \A r : ReplyAt(w, r)' => r = n + 2
  BY <1>2, <1>3
<1>5. OneReply(w)'
  BY <1>4 DEF OneReply
<1>6. InTime(w)'
  <2> SUFFICES ASSUME NEW i \in Nat, NEW r \in Nat, Holds(w, i)', ReplyAt(w, r)', i < r,
                      Adjacent(w, i, r)'
               PROVE  Held(w, i)'.change >= seen'[w]
    BY DEF InTime
  <2>1. r = n + 2 BY <1>4
  <2>2. Held(w, i)' = m.state BY <1>2, <2>1
  <2> QED BY <2>2
<1> QED BY <1>2, <1>5, <1>6

\* A reply comes in when no update is due: it follows all there is.
LEMMA Replied ==
    ASSUME WindowBounds, IInv, NEW w \in Windows,
           inbox'[w] = Append(inbox[w], Reply), UNCHANGED <<copy[w], window[w]>>,
           UNCHANGED <<store, sent, unsent>>, ~unsent,
           dispatch[w] # "answered", dispatch'[w] = "answered", seen'[w] = store.change
    PROVE  Linked(w)' /\ Latest(w)' /\ OneReply(w)' /\ InTime(w)'
<1>1. PICK n \in Nat : n = Len(inbox[w])
  BY InboxTypes DEF IInv
<1>2. inbox[w] \in Seq(Messages) /\ Reply \in Messages /\ Reply.type = "reply"
  BY InboxTypes DEF IInv, Messages, Reply
<1>3. /\ Len(inbox'[w]) = n + 1 /\ inbox'[w][n + 1].type = "reply"
      /\ \A k \in 1..n : inbox'[w][k] = inbox[w][k]
  BY <1>1, <1>2
<1>4. \A i \in Nat : Holds(w, i)' => i \in 0..n
  <2> TAKE i \in Nat
  <2>1. ~Holds(w, n + 1)' BY <1>3 DEF Holds
  <2>2. Holds(w, i)' => i = 0 \/ i \in 1..(n + 1) BY <1>3 DEF Holds
  <2>3. i \in 1..(n + 1) /\ i # n + 1 => i \in 0..n BY <1>1
  <2>4. i = 0 => i \in 0..n BY <1>1
  <2> QED BY <2>1, <2>2, <2>3, <2>4
<1>5. \A i \in 0..n : (Holds(w, i)' => Holds(w, i)) /\ (Holds(w, i)' => Held(w, i)' = Held(w, i))
  <2> TAKE i \in 0..n
  <2>1. CASE i = 0 BY <2>1 DEF Holds, Held
  <2>2. CASE i # 0
    <3>1. i \in 1..n BY <1>1, <2>2
    <3> QED BY <1>1, <1>3, <2>2, <3>1 DEF Holds, Held
  <2> QED BY <2>1, <2>2
<1>6. \A i \in Nat, j \in 0..(n + 1) : Adjacent(w, i, j)' => Adjacent(w, i, j)
  <2> TAKE i \in Nat, j \in 0..(n + 1)
  <2>1. \A k \in (i + 1)..(j - 1) : k \in 1..n BY <1>1
  <2> QED BY <1>3, <2>1 DEF Adjacent
<1>7. \A i \in Nat : Adjacent(w, i, n + 2)' => Adjacent(w, i, n + 1)
  <2> TAKE i \in Nat
  <2>1. \A k \in (i + 1)..(n + 1 - 1) : k \in (i + 1)..(n + 2 - 1) /\ k \in 1..n BY <1>1
  <2> QED BY <1>3, <2>1 DEF Adjacent
<1>8. \A r : ~ReplyAt(w, r)
  <2>1. \A r : ReplyAt(w, r) => r \in Nat BY InboxTypes DEF ReplyAt, IInv
  <2> QED BY <2>1 DEF IInv, WindowInv, OneReply
<1>9. \A r \in Nat : ReplyAt(w, r)' => r = n + 1
  <2> TAKE r \in Nat
  <2>1. r \in 1..n => ~ReplyAt(w, r)' BY <1>1, <1>3, <1>8 DEF ReplyAt
  <2>2. ReplyAt(w, r)' => r \in 1..(n + 1) BY <1>3 DEF ReplyAt
  <2>3. r \in 1..(n + 1) => r = n + 1 \/ r \in 1..n BY <1>1
  <2> QED BY <2>1, <2>2, <2>3
<1>10. \A r : ReplyAt(w, r)' => r = n + 1
  <2>1. \A r : ReplyAt(w, r)' => r \in Nat BY <1>3 DEF ReplyAt
  <2> QED BY <1>9, <2>1
<1>11. Linked(w) /\ Latest(w)
  BY DEF IInv, WindowInv
<1>12. Linked(w)'
  <2> SUFFICES ASSUME NEW i \in Nat, NEW j \in Nat, Holds(w, i)', Holds(w, j)', i < j,
                      Adjacent(w, i, j)'
               PROVE  Fits(inbox'[w][j], Held(w, i)'.list)
    BY DEF Linked
  <2>1. i \in 0..n /\ j \in 0..n /\ j \in 1..n BY <1>1, <1>4
  <2>2. j \in 0..(n + 1) BY <2>1
  <2>3. Holds(w, i) /\ Holds(w, j) /\ Adjacent(w, i, j) /\ Held(w, i)' = Held(w, i)
    BY <1>5, <1>6, <2>1, <2>2
  <2>4. inbox'[w][j] = inbox[w][j] BY <1>3, <2>1
  <2> QED BY <1>11, <2>3, <2>4 DEF Linked
<1>13. \A i \in Nat : Holds(w, i)' /\ Adjacent(w, i, n + 1) => UpToDate(Held(w, i)')
  BY <1>1, <1>4, <1>5, <1>11 DEF Latest
<1>14. Latest(w)'
  <2> SUFFICES ASSUME NEW i \in Nat, Holds(w, i)', Adjacent(w, i, Len(inbox[w]) + 1)'
               PROVE  UpToDate(Held(w, i))'
    BY DEF Latest
  <2>1. Len(inbox'[w]) + 1 = n + 2 BY <1>3
  <2>2. UpToDate(Held(w, i)') BY <1>7, <1>13, <2>1
  <2> QED BY <2>2 DEF UpToDate
<1>15. OneReply(w)'
  BY <1>10 DEF OneReply
<1>16. InTime(w)'
  <2> SUFFICES ASSUME NEW i \in Nat, NEW r \in Nat, Holds(w, i)', ReplyAt(w, r)', i < r,
                      Adjacent(w, i, r)'
               PROVE  Held(w, i)'.change >= seen'[w]
    BY DEF InTime
  <2>1. r = n + 1 /\ n + 1 \in 0..(n + 1) BY <1>9
  <2>2. Adjacent(w, i, n + 1) BY <1>6, <2>1
  <2>3. Held(w, i)'.change = store.change BY <1>13, <2>2 DEF UpToDate
  <2>4. store.change \in Nat BY StoreTypes DEF IInv
  <2> QED BY <2>3, <2>4
<1> QED BY <1>12, <1>14, <1>15, <1>16

-----------------------------------------------------------------------------
(* Every action keeps the invariant.                                       *)

\* The store, what it saved and what it sent, when none of them changes.
LEMMA SameStore ==
    ASSUME SentIsStart, UNCHANGED <<store, disk, sent, unsent>>
    PROVE  SentIsStart'
BY DEF SentIsStart, Short

\* A window that an action of another window leaves alone.
LEMMA OtherWindow ==
    ASSUME WindowBounds, IInv, NEW v \in Windows,
           UNCHANGED <<store, sent, unsent>>,
           UNCHANGED <<inbox[v], copy[v], window[v], dispatch[v], seen[v]>>,
           v \in asked' => v \in asked
    PROVE  WindowInv(v)'
<1>1. store.change \in Nat
  BY StoreTypes DEF IInv
<1>2. store'.change \in Nat /\ store.change <= store'.change
  BY <1>1
<1> QED BY <1>2, Unmoved

LEMMA ChangeKeeps ==
    ASSUME WindowBounds, IInv, Change
    PROVE  IInv'
<1>1. /\ TypeOK /\ SentIsStart /\ store \in States
      /\ store.change \in Nat /\ store.list \in Seq(1..MaxChanges) /\ MaxChanges \in Nat
      /\ Len(store.list) \in Nat /\ Len(sent.list) \in Nat
  BY StoreTypes, StateTypes DEF IInv, WindowBounds
<1>2. PICK number \in 1..MaxChanges, grows \in BOOLEAN :
          /\ number = store.change + 1
          /\ store' = [change |-> number,
                       list |-> IF grows THEN Append(store.list, number) ELSE store.list]
  <2>1. PICK number \in 1..MaxChanges : number = store.change + 1
    <3>1. store.change + 1 \in 1..MaxChanges BY <1>1 DEF Change
    <3> QED BY <3>1
  <2>2. PICK grows \in BOOLEAN :
            store' = [change |-> store.change + 1,
                      list |-> IF grows THEN Append(store.list, store.change + 1)
                               ELSE store.list]
    BY DEF Change
  <2> QED BY <2>1, <2>2
<1>3. /\ store'.list \in Seq(1..MaxChanges)
      /\ Len(store'.list) \in Len(store.list)..(Len(store.list) + 1)
      /\ \A k \in 1..Len(store.list) : store'.list[k] = store.list[k]
  <2>1. CASE grows
    <3>1. store'.list = Append(store.list, number) BY <1>2, <2>1
    <3> QED BY <1>1, <3>1, AppendProperties
  <2>2. CASE ~grows
    <3>1. store'.list = store.list BY <1>2, <2>2
    <3> QED BY <1>1, <3>1
  <2> QED BY <2>1, <2>2
<1>4. store'.change = store.change + 1 /\ store'.change \in 0..MaxChanges
  BY <1>1, <1>2
<1>5. store' \in States
  BY <1>2, <1>3, <1>4 DEF States
<1>6. TypeOK'
  BY <1>1, <1>5 DEF TypeOK, Change, windows
<1>7. SentIsStart'
  <2>1. UNCHANGED <<disk, sent>> /\ unsent' BY DEF Change
  <2>2. Short(store)'
    BY <1>1, <1>3, <1>4 DEF SentIsStart, Short
  <2>3. Len(sent.list) <= Len(store'.list)
    BY <1>1, <1>3 DEF SentIsStart
  <2>4. \A k \in 1..Len(sent.list) : sent.list[k] = store'.list[k]
    <3>1. \A k \in 1..Len(sent.list) : k \in 1..Len(store.list)
      BY <1>1 DEF SentIsStart
    <3> QED BY <1>1, <1>3, <3>1 DEF SentIsStart
  <2> QED BY <1>1, <2>1, <2>2, <2>3, <2>4 DEF SentIsStart, Short
<1>8. \A w \in Windows : WindowInv(w)'
  <2> TAKE w \in Windows
  <2>1. UNCHANGED <<inbox[w], copy[w], window[w], dispatch[w], seen[w], sent, asked>> /\ unsent'
    BY DEF Change, windows
  <2>2. store.change <= store'.change /\ store'.change \in Nat
    BY <1>1, <1>4
  <2> QED BY <2>1, <2>2, Unmoved
<1> QED BY <1>6, <1>7, <1>8 DEF IInv

LEMMA StoreKeeps ==
    ASSUME WindowBounds, IInv, Store
    PROVE  IInv'
<1>1. TypeOK'
  BY StoreTypes DEF IInv, TypeOK, Store, windows
<1>2. SentIsStart'
  BY DEF IInv, SentIsStart, Short, Store
<1>3. \A w \in Windows : WindowInv(w)'
  BY OtherWindow DEF Store, windows
<1> QED BY <1>1, <1>2, <1>3 DEF IInv

\* The difference that is due, as a message, and behind it the reply.
LEMMA PostedIs ==
    ASSUME WindowBounds, IInv, NEW w \in Windows
    PROVE  LET m == [type |-> "patch", from |-> Len(sent.list), state |-> store]
           IN  /\ m \in Messages
               /\ inbox[w] \o Posted(w) = IF dispatch[w] = "locked"
                                          THEN Append(Append(inbox[w], m), Reply)
                                          ELSE Append(inbox[w], m)
               /\ inbox[w] \o Posted(w) \in Seq(Messages)
<1> DEFINE m == [type |-> "patch", from |-> Len(sent.list), state |-> store]
<1>1. Len(sent.list) \in 0..MaxChanges
  <2>1. sent.change \in 0..MaxChanges /\ Len(sent.list) \in Nat
    BY StoreTypes, StateTypes DEF IInv
  <2> QED BY <2>1 DEF IInv, SentIsStart, Short, WindowBounds
<1>2. m \in Messages /\ Reply \in Messages
  BY <1>1, StoreTypes DEF IInv, Messages, Reply
<1>3. inbox[w] \in Seq(Messages)
  BY InboxTypes DEF IInv
<1> HIDE DEF m
<1>4. CASE dispatch[w] = "locked"
  <2>1. Posted(w) = <<m>> \o <<Reply>> BY <1>4 DEF Posted, m
  <2>2. inbox[w] \o Posted(w) = Append(Append(inbox[w], m), Reply)
    <3>1. Append(inbox[w], m) = inbox[w] \o <<m>> /\ Append(inbox[w], m) \in Seq(Messages)
      BY <1>2, <1>3, AppendIsConcat, AppendProperties
    <3>2. Append(Append(inbox[w], m), Reply) = Append(inbox[w], m) \o <<Reply>>
      BY <1>2, <3>1, AppendIsConcat
    <3>3. <<m>> \in Seq(Messages) /\ <<Reply>> \in Seq(Messages) BY <1>2
    <3>4. inbox[w] \o (<<m>> \o <<Reply>>) = (inbox[w] \o <<m>>) \o <<Reply>>
      BY <1>3, <3>3, ConcatAssociative
    <3> QED BY <2>1, <3>1, <3>2, <3>4
  <2>3. Append(Append(inbox[w], m), Reply) \in Seq(Messages)
    BY <1>2, <1>3
  <2> QED BY <1>2, <1>4, <2>2, <2>3 DEF m
<1>5. CASE dispatch[w] # "locked"
  <2>1. Posted(w) = <<m>> \o <<>> BY <1>5 DEF Posted, m
  <2>2. <<m>> \o <<>> = <<m>> BY <1>2
  <2>3. Append(inbox[w], m) = inbox[w] \o <<m>> /\ Append(inbox[w], m) \in Seq(Messages)
    BY <1>2, <1>3, AppendIsConcat, AppendProperties
  <2> QED BY <1>2, <1>5, <2>1, <2>2, <2>3 DEF m
<1> QED BY <1>4, <1>5

\* What the store leads to fits behind the last state a window is sent.
LEMMA StoreFits ==
    ASSUME WindowBounds, IInv, NEW w \in Windows, NEW m,
           m = [type |-> "patch", from |-> Len(sent.list), state |-> store]
    PROVE  \A i \in Nat : Holds(w, i) /\ Adjacent(w, i, Len(inbox[w]) + 1)
                             => Fits(m, Held(w, i).list)
<1>1. TAKE i \in Nat
<1>2. HAVE Holds(w, i) /\ Adjacent(w, i, Len(inbox[w]) + 1)
<1>3. Has(Held(w, i).list, sent.list)
  BY <1>2 DEF IInv, WindowInv, Latest, UpToDate
<1>4. m.from = Len(sent.list) /\ m.state = store
  OBVIOUS
<1>5. \A k \in 1..m.from : m.state.list[k] \in ToSet(Held(w, i).list)
  <2> TAKE k \in 1..m.from
  <2>1. sent.list[k] \in ToSet(sent.list) BY <1>4 DEF ToSet
  <2>2. store.list[k] = sent.list[k] BY <1>4 DEF IInv, SentIsStart
  <2> QED BY <1>3, <1>4, <2>1, <2>2 DEF Has
<1>6. m.from <= Len(Held(w, i).list) /\ m.from <= Len(m.state.list)
  BY <1>3, <1>4 DEF IInv, SentIsStart, Has
<1> QED BY <1>5, <1>6 DEF Fits

\* A state is up to date when it is what was sent last.
LEMMA SentUpToDate ==
    ASSUME WindowBounds, NEW s \in States, sent' = s, store' = s
    PROVE  UpToDate(s)'
<1>1. Len(s.list) \in Nat
  BY StateTypes
<1> QED BY <1>1 DEF UpToDate, Has

LEMMA SendUpdateKeeps ==
    ASSUME WindowBounds, IInv, SendUpdate
    PROVE  IInv'
<1>1. /\ TypeOK /\ SentIsStart /\ store \in States
      /\ Len(store.list) \in Nat
  BY StoreTypes DEF IInv
<1>2. TypeOK'
  <2>1. inbox' \in [Windows -> Seq(Messages)]
    <3>1. \A w \in Windows : (IF window[w] # "closed" THEN inbox[w] \o Posted(w) ELSE inbox[w])
                                \in Seq(Messages)
      BY PostedIs, InboxTypes, <1>1
    <3> QED BY <3>1 DEF SendUpdate
  <2>2. dispatch' \in [Windows -> {"idle", "running", "locked", "answered"}]
    BY <1>1 DEF TypeOK, SendUpdate
  <2> QED BY <1>1, <2>1, <2>2 DEF TypeOK, SendUpdate
<1>3. SentIsStart'
  BY <1>1 DEF SentIsStart, Short, SendUpdate
<1>4. ASSUME NEW w \in Windows
      PROVE  WindowInv(w)'
  <2>1. /\ UNCHANGED <<copy[w], window[w], seen[w], asked, store>>
        /\ inbox'[w] = IF window[w] # "closed" THEN inbox[w] \o Posted(w) ELSE inbox[w]
        /\ dispatch'[w] = IF dispatch[w] = "locked" THEN "answered" ELSE dispatch[w]
        /\ sent' = store /\ ~unsent'
    BY DEF SendUpdate
  <2>2. Quiet(w) /\ OneReply(w) /\ Locked(w)
    BY DEF IInv, WindowInv
  <2>3. CASE window[w] = "closed"
    <3>1. inbox'[w] = <<>> /\ dispatch'[w] = "idle" BY <2>1, <2>2, <2>3 DEF Quiet
    <3> QED BY <2>1, <2>2, <2>3, <3>1, Emptied DEF Quiet
  <2>4. CASE window[w] # "closed"
    <3>1. PICK m \in Messages :
             /\ m = [type |-> "patch", from |-> Len(sent.list), state |-> store]
             /\ inbox[w] \o Posted(w) = IF dispatch[w] = "locked"
                                        THEN Append(Append(inbox[w], m), Reply)
                                        ELSE Append(inbox[w], m)
      BY PostedIs
    <3>2. m.type # "reply" /\ m.state = store BY <3>1
    <3>3. UpToDate(m.state)'
      <4>1. UpToDate(store)' BY <1>1, <2>1, SentUpToDate
      <4> QED BY <3>2, <4>1, <2>1
    <3>4. \A i \in Nat : Holds(w, i) /\ Adjacent(w, i, Len(inbox[w]) + 1)
                            => Fits(m, Held(w, i).list)
      BY <3>1, StoreFits
    <3>5. Linked(w)' /\ Latest(w)' /\ OneReply(w)' /\ InTime(w)'
      <4>1. CASE dispatch[w] = "locked"
        <5>1. inbox'[w] = Append(Append(inbox[w], m), Reply) BY <2>1, <2>4, <3>1, <4>1
        <5>2. m.state.change >= seen'[w]
          <6>1. store.change \in Nat /\ seen[w] \in Nat BY <1>1, StoreTypes
          <6> QED BY <2>1, <2>2, <3>2, <4>1, <6>1 DEF Locked
        <5> QED BY <2>1, <3>2, <3>3, <3>4, <4>1, <5>1, <5>2, Released
      <4>2. CASE dispatch[w] # "locked"
        <5>1. inbox'[w] = Append(inbox[w], m) BY <2>1, <2>4, <3>1, <4>2
        <5> QED BY <2>1, <3>2, <3>3, <3>4, <4>2, <5>1, Appended
      <4> QED BY <4>1, <4>2
    <3>6. Quiet(w)'
      BY <2>1, <2>2, <2>4 DEF Quiet
    <3>7. Locked(w)'
      BY <2>1 DEF Locked
    <3> QED BY <3>5, <3>6, <3>7 DEF WindowInv
  <2> QED BY <2>3, <2>4
<1> QED BY <1>2, <1>3, <1>4 DEF IInv

LEMMA RestartKeeps ==
    ASSUME WindowBounds, IInv, Restart
    PROVE  IInv'
<1>1. /\ TypeOK /\ SentIsStart /\ disk \in States
      /\ Len(disk.list) \in Nat
  BY StoreTypes DEF IInv
<1>2. PICK m \in Messages : m = [type |-> "state", state |-> disk]
  BY <1>1 DEF Messages
<1>3. \A w \in Windows :
         /\ UNCHANGED <<copy[w], window[w], asked>>
         /\ inbox'[w] = IF window[w] = "closed" THEN <<>> ELSE Append(inbox[w], m)
         /\ dispatch'[w] = IF dispatch[w] = "answered" THEN "answered" ELSE "idle"
         /\ seen'[w] = IF dispatch[w] = "answered" THEN seen[w] ELSE 0
  BY <1>2 DEF Restart
<1>4. TypeOK'
  <2>1. inbox' \in [Windows -> Seq(Messages)]
    <3>1. \A w \in Windows : (IF window[w] = "closed" THEN <<>> ELSE Append(inbox[w], m))
                                \in Seq(Messages)
      BY <1>1, InboxTypes
    <3> QED BY <1>2, <3>1 DEF Restart
  <2>2. dispatch' \in [Windows -> {"idle", "running", "locked", "answered"}]
    BY DEF Restart
  <2>3. seen' \in [Windows -> 0..MaxChanges]
    BY <1>1 DEF TypeOK, Restart, WindowBounds
  <2>4. restarts' \in 0..MaxRestarts
    BY <1>1 DEF TypeOK, Restart, WindowBounds
  <2> QED BY <1>1, <2>1, <2>2, <2>3, <2>4 DEF TypeOK, Restart
<1>5. SentIsStart'
  BY <1>1 DEF SentIsStart, Short, Restart
<1>6. ASSUME NEW w \in Windows
      PROVE  WindowInv(w)'
  <2>1. Quiet(w)
    BY DEF IInv, WindowInv
  <2>2. CASE window[w] = "closed"
    <3>1. inbox'[w] = <<>> /\ dispatch'[w] = "idle" BY <1>3, <2>1, <2>2 DEF Quiet
    <3> QED BY <1>3, <2>1, <2>2, <3>1, Emptied DEF Quiet
  <2>3. CASE window[w] # "closed"
    <3>1. m.type = "state" /\ m.type # "reply" /\ m.state = disk BY <1>2
    <3>2. UpToDate(m.state)'
      <4>1. UpToDate(disk)' BY <1>1, SentUpToDate DEF Restart
      <4> QED BY <3>1, <4>1 DEF Restart
    <3>3. \A i \in Nat : Holds(w, i) /\ Adjacent(w, i, Len(inbox[w]) + 1)
                            => Fits(m, Held(w, i).list)
      BY <3>1 DEF Fits
    <3>4. Linked(w)' /\ Latest(w)' /\ OneReply(w)' /\ InTime(w)'
      BY <1>3, <2>3, <3>1, <3>2, <3>3, Appended
    <3>5. Quiet(w)'
      BY <1>3, <2>1, <2>3 DEF Quiet
    <3>6. Locked(w)'
      BY <1>3 DEF Locked
    <3> QED BY <3>4, <3>5, <3>6 DEF WindowInv
  <2> QED BY <2>2, <2>3
<1> QED BY <1>4, <1>5, <1>6 DEF IInv

\* Windows that open and close.
LEMMA OpenKeeps ==
    ASSUME WindowBounds, IInv, NEW w \in Windows, OpenWindow(w)
    PROVE  IInv'
<1>1. TypeOK'
  BY DEF IInv, TypeOK, OpenWindow
<1>2. SentIsStart'
  BY SameStore DEF IInv, OpenWindow
<1>3. WindowInv(w)'
  <2>1. inbox[w] = <<>> /\ dispatch[w] = "idle"
    BY DEF OpenWindow, IInv, WindowInv, Quiet
  <2>2. window'[w] = "opening" /\ UNCHANGED <<inbox, dispatch>>
    BY DEF OpenWindow, IInv, TypeOK
  <2> QED BY <2>1, <2>2, Emptied
<1>4. ASSUME NEW v \in Windows, v # w
      PROVE  WindowInv(v)'
  BY <1>4, OtherWindow DEF OpenWindow, IInv, TypeOK
<1> QED BY <1>1, <1>2, <1>3, <1>4 DEF IInv

LEMMA CloseKeeps ==
    ASSUME WindowBounds, IInv, NEW w \in Windows, CloseWindow(w)
    PROVE  IInv'
<1>1. Empty \in States
  BY DEF Empty, States, WindowBounds
<1>2. TypeOK'
  <2>1. /\ copy' \in [Windows -> States] /\ inbox' \in [Windows -> Seq(Messages)]
        /\ seen' \in [Windows -> 0..MaxChanges]
    BY <1>1 DEF IInv, TypeOK, CloseWindow, WindowBounds
  <2>2. /\ window' \in [Windows -> {"closed", "opening", "ready"}]
        /\ dispatch' \in [Windows -> {"idle", "running", "locked", "answered"}]
    BY DEF IInv, TypeOK, CloseWindow
  <2> QED BY <2>1, <2>2 DEF IInv, TypeOK, CloseWindow
<1>3. SentIsStart'
  BY SameStore DEF IInv, CloseWindow
<1>4. WindowInv(w)'
  <2>1. inbox'[w] = <<>> /\ dispatch'[w] = "idle" /\ window'[w] = "closed"
    BY DEF CloseWindow, IInv, TypeOK
  <2>2. w \notin asked'
    BY DEF CloseWindow
  <2> QED BY <2>1, <2>2, Emptied
<1>5. ASSUME NEW v \in Windows, v # w
      PROVE  WindowInv(v)'
  BY <1>5, OtherWindow DEF CloseWindow, IInv, TypeOK
<1> QED BY <1>2, <1>3, <1>4, <1>5 DEF IInv

LEMMA AnswerFetchKeeps ==
    ASSUME WindowBounds, IInv, NEW w \in Windows, AnswerFetch(w)
    PROVE  IInv'
<1>1. /\ TypeOK /\ SentIsStart /\ store \in States /\ Len(store.list) \in Nat
      /\ sent.list \in Seq(1..MaxChanges) /\ store.list \in Seq(1..MaxChanges)
      /\ inbox[w] \in Seq(Messages)
  BY StoreTypes, StateTypes, InboxTypes DEF IInv
<1>2. PICK m \in Messages : m = [type |-> "state", state |-> store]
  BY <1>1 DEF Messages
<1>3. inbox' = [inbox EXCEPT ![w] = Append(@, m)] /\ Append(inbox[w], m) \in Seq(Messages)
  BY <1>1, <1>2 DEF AnswerFetch
<1>4. TypeOK'
  BY <1>3 DEF IInv, TypeOK, AnswerFetch
<1>5. SentIsStart'
  BY SameStore DEF IInv, AnswerFetch
<1>6. WindowInv(w)'
  <2>1. m.type = "state" /\ m.type # "reply" /\ m.state = store BY <1>2
  <2>2. UpToDate(m.state)'
    <3>1. Has(store.list, sent.list)
      <4>1. \A k \in 1..Len(sent.list) : sent.list[k] \in ToSet(store.list)
        <5>1. \A k \in 1..Len(sent.list) : k \in 1..Len(store.list)
          BY <1>1 DEF SentIsStart
        <5> QED BY <1>1, <5>1, Elements DEF SentIsStart
      <4> QED BY <1>1, <4>1, Elements DEF Has, SentIsStart
    <3> QED BY <2>1, <3>1 DEF UpToDate, AnswerFetch
  <2>3. \A i \in Nat : Holds(w, i) /\ Adjacent(w, i, Len(inbox[w]) + 1)
                          => Fits(m, Held(w, i).list)
    BY <2>1 DEF Fits
  <2>4. inbox'[w] = Append(inbox[w], m)
    BY <1>3 DEF IInv, TypeOK
  <2>5. UNCHANGED <<copy[w], window[w], dispatch[w], seen[w], store, unsent>>
    BY DEF AnswerFetch
  <2>6. Linked(w)' /\ Latest(w)' /\ OneReply(w)' /\ InTime(w)'
    BY <2>1, <2>2, <2>3, <2>4, <2>5, Appended
  <2>7. Quiet(w) /\ Locked(w)
    BY DEF IInv, WindowInv
  <2>8. Quiet(w)'
    BY <2>5, <2>7 DEF Quiet, AnswerFetch
  <2>9. Locked(w)'
    BY <2>5, <2>7 DEF Locked
  <2> QED BY <2>6, <2>8, <2>9 DEF WindowInv
<1>7. ASSUME NEW v \in Windows, v # w
      PROVE  WindowInv(v)'
  BY <1>7, OtherWindow DEF AnswerFetch, IInv, TypeOK
<1> QED BY <1>4, <1>5, <1>6, <1>7 DEF IInv

\* What a window dispatches.
LEMMA DispatchKeeps ==
    ASSUME WindowBounds, IInv, NEW w \in Windows, Dispatch(w)
    PROVE  IInv'
<1>1. TypeOK'
  BY DEF IInv, TypeOK, Dispatch
<1>2. SentIsStart'
  BY SameStore DEF IInv, Dispatch
<1>3. WindowInv(w)'
  <2>1. /\ dispatch[w] = "idle" /\ dispatch'[w] = "running" /\ window'[w] = "ready"
        /\ UNCHANGED <<inbox[w], copy[w], window[w], store, sent, unsent>>
    BY DEF Dispatch, IInv, TypeOK
  <2>2. /\ Linked(w)' /\ Latest(w)'
        /\ \A r : ReplyAt(w, r)' <=> ReplyAt(w, r)
    BY <2>1, Still
  <2>3. \A r : ~ReplyAt(w, r)'
    <3>1. \A r : ReplyAt(w, r) => r \in Nat BY InboxTypes DEF ReplyAt, IInv
    <3> QED BY <2>1, <2>2, <3>1 DEF IInv, WindowInv, OneReply
  <2>4. OneReply(w)' /\ InTime(w)'
    BY <2>3 DEF OneReply, InTime
  <2>5. Quiet(w)' /\ Locked(w)'
    BY <2>1 DEF Quiet, Locked
  <2> QED BY <2>2, <2>4, <2>5 DEF WindowInv
<1>4. ASSUME NEW v \in Windows, v # w
      PROVE  WindowInv(v)'
  BY <1>4, OtherWindow DEF Dispatch, IInv, TypeOK
<1> QED BY <1>1, <1>2, <1>3, <1>4 DEF IInv

LEMMA EndDispatchKeeps ==
    ASSUME WindowBounds, IInv, NEW w \in Windows, EndDispatch(w)
    PROVE  IInv'
<1>1. /\ inbox[w] \in Seq(Messages) /\ Reply \in Messages
      /\ store.change \in 0..MaxChanges /\ store.change \in Nat
  BY InboxTypes, StoreTypes, StateTypes DEF IInv, Messages, Reply
<1>2. TypeOK'
  <2>1. Append(inbox[w], Reply) \in Seq(Messages) BY <1>1
  <2>2. inbox' \in [Windows -> Seq(Messages)]
    BY <2>1 DEF IInv, TypeOK, EndDispatch
  <2>3. /\ seen' \in [Windows -> 0..MaxChanges]
        /\ dispatch' \in [Windows -> {"idle", "running", "locked", "answered"}]
    BY <1>1 DEF IInv, TypeOK, EndDispatch
  <2> QED BY <2>2, <2>3 DEF IInv, TypeOK, EndDispatch
<1>3. SentIsStart'
  BY SameStore DEF IInv, EndDispatch
<1>4. WindowInv(w)'
  <2>1. /\ dispatch[w] = "running" /\ seen'[w] = store.change
        /\ dispatch'[w] = IF unsent THEN "locked" ELSE "answered"
        /\ inbox'[w] = IF unsent THEN inbox[w] ELSE Append(inbox[w], Reply)
        /\ UNCHANGED <<copy[w], window[w], store, sent, unsent>>
    BY DEF EndDispatch, IInv, TypeOK
  <2>2. window[w] = "ready"
    BY <2>1 DEF IInv, WindowInv, Quiet
  <2>3. Quiet(w)' /\ Locked(w)'
    BY <1>1, <2>1, <2>2 DEF Quiet, Locked
  <2>4. CASE unsent
    <3>1. /\ Linked(w)' /\ Latest(w)'
          /\ \A r : ReplyAt(w, r)' <=> ReplyAt(w, r)
      BY <2>1, <2>4, Still
    <3>2. \A r : ~ReplyAt(w, r)'
      <4>1. \A r : ReplyAt(w, r) => r \in Nat BY InboxTypes DEF ReplyAt, IInv
      <4> QED BY <2>1, <3>1, <4>1 DEF IInv, WindowInv, OneReply
    <3>3. OneReply(w)' /\ InTime(w)'
      BY <3>2 DEF OneReply, InTime
    <3> QED BY <2>3, <3>1, <3>3 DEF WindowInv
  <2>5. CASE ~unsent
    <3>1. Linked(w)' /\ Latest(w)' /\ OneReply(w)' /\ InTime(w)'
      BY <2>1, <2>5, Replied
    <3> QED BY <2>3, <3>1 DEF WindowInv
  <2> QED BY <2>4, <2>5
<1>5. ASSUME NEW v \in Windows, v # w
      PROVE  WindowInv(v)'
  BY <1>5, OtherWindow DEF EndDispatch, IInv, TypeOK
<1> QED BY <1>2, <1>3, <1>4, <1>5 DEF IInv

LEMMA FirstIsHead ==
    ASSUME NEW S, NEW s \in Seq(S), s # <<>>
    PROVE  s[1] = Head(s)
BY SMT

\* What a window receives.
LEMMA ReceivedTypes ==
    ASSUME WindowBounds, IInv, NEW w \in Windows, NEW type, Received(w, type)
    PROVE  /\ inbox[w] # <<>> /\ 1 \in 1..Len(inbox[w])
           /\ inbox[w][1] = Head(inbox[w]) /\ inbox[w][1] \in Messages
           /\ inbox[w][1].type = type
           /\ inbox'[w] = Tail(inbox[w]) /\ inbox' \in [Windows -> Seq(Messages)]
           /\ \A v \in Windows : v # w => inbox'[v] = inbox[v]
<1>1. inbox[w] \in Seq(Messages) /\ inbox[w] # <<>> /\ inbox \in [Windows -> Seq(Messages)]
  BY InboxTypes DEF IInv, TypeOK, Received
<1>2. Len(inbox[w]) \in Nat \ {0}
  BY <1>1, EmptySeq
<1>3. 1 \in 1..Len(inbox[w]) /\ inbox[w][1] \in Messages
  BY <1>1, <1>2
<1>4. inbox[w][1] = Head(inbox[w]) /\ Tail(inbox[w]) \in Seq(Messages)
  <2>1. inbox[w][1] = Head(inbox[w]) BY <1>1, <1>2, FirstIsHead
  <2>2. Tail(inbox[w]) \in Seq(Messages) BY <1>1, HeadTailProperties
  <2> QED BY <2>1, <2>2
<1>5. inbox' = [inbox EXCEPT ![w] = Tail(@)]
  BY DEF Received
<1> QED BY <1>1, <1>3, <1>4, <1>5 DEF Received

\* A reply that is on its way moves up with what comes before it.
LEMMA ShiftedReplies ==
    ASSUME NEW w \in Windows, OneReply(w), InTime(w), UNCHANGED <<dispatch, seen>>,
           \A r : ReplyAt(w, r)' <=> r \in Nat /\ r > 0 /\ ReplyAt(w, r + 1),
           \A i, r \in Nat : Holds(w, i)' /\ ReplyAt(w, r)' /\ i < r /\ Adjacent(w, i, r)'
              => \E p \in Nat : /\ Holds(w, p) /\ p < r + 1 /\ Adjacent(w, p, r + 1)
                                /\ Held(w, i)'.change = Held(w, p).change
    PROVE  OneReply(w)' /\ InTime(w)'
<1>1. OneReply(w)'
  <2>1. \A r \in Nat : ReplyAt(w, r)' => r + 1 \in Nat /\ ReplyAt(w, r + 1)
    OBVIOUS
  <2>2. \A r \in Nat : ReplyAt(w, r)' => dispatch'[w] = "answered"
    BY <2>1 DEF OneReply
  <2>3. \A i, j \in Nat : i + 1 = j + 1 => i = j
    OBVIOUS
  <2>4. \A i, j \in Nat : ReplyAt(w, i)' /\ ReplyAt(w, j)' => i + 1 = j + 1
    BY <2>1 DEF OneReply
  <2> QED BY <2>2, <2>3, <2>4 DEF OneReply
<1>2. InTime(w)'
  <2> SUFFICES ASSUME NEW i \in Nat, NEW r \in Nat, Holds(w, i)', ReplyAt(w, r)', i < r,
                      Adjacent(w, i, r)'
               PROVE  Held(w, i)'.change >= seen'[w]
    BY DEF InTime
  <2>1. PICK p \in Nat : /\ Holds(w, p) /\ p < r + 1 /\ Adjacent(w, p, r + 1)
                         /\ Held(w, i)'.change = Held(w, p).change
    OBVIOUS
  <2>2. ReplyAt(w, r + 1) /\ r + 1 \in Nat
    OBVIOUS
  <2>3. Held(w, p).change >= seen[w]
    BY <2>1, <2>2 DEF InTime
  <2> QED BY <2>1, <2>3
<1> QED BY <1>1, <1>2

LEMMA ReceiveStateKeeps ==
    ASSUME WindowBounds, IInv, NEW w \in Windows, ReceiveState(w)
    PROVE  IInv'
<1>1. /\ inbox[w] # <<>> /\ 1 \in 1..Len(inbox[w])
      /\ inbox[w][1] = Head(inbox[w]) /\ inbox[w][1] \in Messages
      /\ inbox[w][1].type = "state"
      /\ inbox'[w] = Tail(inbox[w]) /\ inbox' \in [Windows -> Seq(Messages)]
      /\ \A v \in Windows : v # w => inbox'[v] = inbox[v]
  <2>1. Received(w, "state") BY DEF ReceiveState
  <2> QED BY <2>1, ReceivedTypes
<1>2. inbox[w][1].state \in States
  BY <1>1, MessageTypes
<1>3. /\ copy' = [copy EXCEPT ![w] = inbox[w][1].state]
      /\ window' = [window EXCEPT ![w] = "ready"]
      /\ UNCHANGED <<store, disk, sent, unsent, asked, dispatch, seen, restarts>>
  BY <1>1 DEF ReceiveState
<1>4. TypeOK'
  BY <1>1, <1>2, <1>3 DEF IInv, TypeOK
<1>5. SentIsStart'
  BY <1>3, SameStore DEF IInv
<1>6. WindowInv(w)'
  <2>1. copy'[w] = inbox[w][1].state /\ window'[w] = "ready"
    BY <1>3 DEF IInv, TypeOK
  <2>2. Holds(w, 1) /\ Held(w, 1) = copy'[w]
    BY <1>1, <2>1 DEF Holds, Held
  <2>3. Has(copy'[w].list, copy'[w].list)
    <3>1. Len(copy'[w].list) \in Nat BY <1>2, <2>1, StateTypes
    <3> QED BY <3>1 DEF Has
  <2>4. /\ Linked(w)' /\ Latest(w)'
        /\ \A r : ReplyAt(w, r)' <=> r \in Nat /\ r > 0 /\ ReplyAt(w, r + 1)
        /\ \A i, r \in Nat : Holds(w, i)' /\ ReplyAt(w, r)' /\ i < r /\ Adjacent(w, i, r)'
              => \E p \in Nat : /\ Holds(w, p) /\ p < r + 1 /\ Adjacent(w, p, r + 1)
                                /\ Held(w, i)'.change = Held(w, p).change
    <3>1. PICK o \in {0, 1} : o = 1 OBVIOUS
    <3> QED BY <1>1, <1>3, <1>4, <2>2, <2>3, <3>1, Shifted
  <2>5. WindowInv(w)
    BY DEF IInv
  <2>6. OneReply(w)' /\ InTime(w)'
    BY <1>3, <2>4, <2>5, ShiftedReplies DEF WindowInv
  <2>7. Quiet(w)' /\ Locked(w)'
    BY <1>3, <2>1, <2>5 DEF WindowInv, Quiet, Locked
  <2> QED BY <2>4, <2>6, <2>7 DEF WindowInv
<1>7. ASSUME NEW v \in Windows, v # w
      PROVE  WindowInv(v)'
  BY <1>1, <1>3, <1>7, OtherWindow DEF IInv, TypeOK
<1> QED BY <1>4, <1>5, <1>6, <1>7 DEF IInv

LEMMA ReceivePatchKeeps ==
    ASSUME WindowBounds, IInv, NEW w \in Windows, ReceivePatch(w)
    PROVE  IInv'
<1>1. /\ inbox[w] # <<>> /\ 1 \in 1..Len(inbox[w])
      /\ inbox[w][1] = Head(inbox[w]) /\ inbox[w][1] \in Messages
      /\ inbox[w][1].type = "patch"
      /\ inbox'[w] = Tail(inbox[w]) /\ inbox' \in [Windows -> Seq(Messages)]
      /\ \A v \in Windows : v # w => inbox'[v] = inbox[v]
  <2>1. Received(w, "patch") BY DEF ReceivePatch
  <2> QED BY <2>1, ReceivedTypes
<1>2. Holds(w, 1) /\ Held(w, 1) = inbox[w][1].state
  BY <1>1 DEF Holds, Held
<1>3. /\ copy' = IF window[w] = "ready"
                 THEN [copy EXCEPT ![w] = Patched(@, inbox[w][1])] ELSE copy
      /\ UNCHANGED <<store, disk, sent, unsent, window, asked, dispatch, seen, restarts>>
  BY <1>1 DEF ReceivePatch
<1>4. copy[w] \in States
  BY InboxTypes DEF IInv
<1>5. ASSUME window[w] = "ready"
      PROVE  /\ copy'[w] \in States
             /\ Has(copy'[w].list, Held(w, 1).list)
             /\ copy'[w].change = Held(w, 1).change
  <2>1. Holds(w, 0) /\ Held(w, 0) = copy[w] BY <1>5 DEF Holds, Held
  <2>2. Adjacent(w, 0, 1) BY DEF Adjacent
  <2>3. Fits(inbox[w][1], copy[w].list)
    <3>1. 0 \in Nat /\ 1 \in Nat /\ 0 < 1 OBVIOUS
    <3> QED BY <1>2, <2>1, <2>2, <3>1 DEF IInv, WindowInv, Linked
  <2>4. copy'[w] = Patched(copy[w], inbox[w][1])
    BY <1>3, <1>5 DEF IInv, TypeOK
  <2> QED BY <1>1, <1>2, <1>4, <2>3, <2>4, PatchedHas
<1>6. copy' \in [Windows -> States]
  <2>1. CASE window[w] = "ready"
    <3>1. copy' = [copy EXCEPT ![w] = Patched(copy[w], inbox[w][1])] BY <1>3, <2>1
    <3>2. copy'[w] = Patched(copy[w], inbox[w][1]) BY <3>1 DEF IInv, TypeOK
    <3> QED BY <1>5, <2>1, <3>1, <3>2 DEF IInv, TypeOK
  <2>2. CASE window[w] # "ready" BY <1>3, <2>2 DEF IInv, TypeOK
  <2> QED BY <2>1, <2>2
<1>7. TypeOK'
  BY <1>1, <1>3, <1>6 DEF IInv, TypeOK
<1>8. SentIsStart'
  BY <1>3, SameStore DEF IInv
<1>9. WindowInv(w)'
  <2>1. Holds(w, 0)' => window[w] = "ready"
    BY <1>3 DEF Holds
  <2>2. /\ Linked(w)' /\ Latest(w)'
        /\ \A r : ReplyAt(w, r)' <=> r \in Nat /\ r > 0 /\ ReplyAt(w, r + 1)
        /\ \A i, r \in Nat : Holds(w, i)' /\ ReplyAt(w, r)' /\ i < r /\ Adjacent(w, i, r)'
              => \E p \in Nat : /\ Holds(w, p) /\ p < r + 1 /\ Adjacent(w, p, r + 1)
                                /\ Held(w, i)'.change = Held(w, p).change
    <3>1. PICK o \in {0, 1} : o = 1 OBVIOUS
    <3> QED BY <1>1, <1>2, <1>3, <1>5, <1>7, <2>1, <3>1, Shifted
  <2>3. WindowInv(w)
    BY DEF IInv
  <2>4. OneReply(w)' /\ InTime(w)'
    BY <1>3, <2>2, <2>3, ShiftedReplies DEF WindowInv
  <2>5. Quiet(w)' /\ Locked(w)'
    <3>1. window[w] # "closed" BY <1>1, <2>3 DEF WindowInv, Quiet
    <3> QED BY <1>3, <2>3, <3>1 DEF WindowInv, Quiet, Locked
  <2> QED BY <2>2, <2>4, <2>5 DEF WindowInv
<1>10. ASSUME NEW v \in Windows, v # w
       PROVE  WindowInv(v)'
  <2>1. copy'[v] = copy[v] BY <1>3, <1>10 DEF IInv, TypeOK
  <2> QED BY <1>1, <1>3, <1>10, <2>1, OtherWindow
<1> QED BY <1>7, <1>8, <1>9, <1>10 DEF IInv

LEMMA ReceiveReplyKeeps ==
    ASSUME WindowBounds, IInv, NEW w \in Windows, ReceiveReply(w)
    PROVE  IInv'
<1>1. /\ inbox[w] # <<>> /\ 1 \in 1..Len(inbox[w])
      /\ inbox[w][1] = Head(inbox[w]) /\ inbox[w][1] \in Messages
      /\ inbox[w][1].type = "reply"
      /\ inbox'[w] = Tail(inbox[w]) /\ inbox' \in [Windows -> Seq(Messages)]
      /\ \A v \in Windows : v # w => inbox'[v] = inbox[v]
  <2>1. Received(w, "reply") BY DEF ReceiveReply
  <2> QED BY <2>1, ReceivedTypes
<1>2. /\ dispatch' = [dispatch EXCEPT ![w] = "idle"]
      /\ seen' = [seen EXCEPT ![w] = 0]
      /\ UNCHANGED <<store, disk, sent, unsent, window, asked, copy, restarts>>
  BY DEF ReceiveReply
<1>3. TypeOK'
  BY <1>1, <1>2 DEF IInv, TypeOK, WindowBounds
<1>4. SentIsStart'
  BY <1>2, SameStore DEF IInv
<1>5. WindowInv(w)'
  <2>1. Holds(w, 0)' =>
           /\ Holds(w, 0) /\ Has(copy'[w].list, Held(w, 0).list)
           /\ copy'[w].change = Held(w, 0).change
    <3>1. Holds(w, 0)' => Holds(w, 0) BY <1>2 DEF Holds
    <3>2. Held(w, 0) = copy'[w] BY <1>2 DEF Held
    <3>3. Len(copy'[w].list) \in Nat BY <1>2, InboxTypes, StateTypes DEF IInv
    <3> QED BY <3>1, <3>2, <3>3 DEF Has
  <2>2. /\ Linked(w)' /\ Latest(w)'
        /\ \A r : ReplyAt(w, r)' <=> r \in Nat /\ r > 0 /\ ReplyAt(w, r + 1)
    <3>1. PICK o \in {0, 1} : o = 0 OBVIOUS
    <3> QED BY <1>1, <1>2, <1>3, <2>1, <3>1, Shifted
  <2>3. \A r : ~ReplyAt(w, r)'
    <3> SUFFICES ASSUME NEW r, ReplyAt(w, r)' PROVE FALSE
      OBVIOUS
    <3>1. r \in Nat /\ r > 0 /\ ReplyAt(w, r + 1) BY <2>2
    <3>2. ReplyAt(w, 1) BY <1>1 DEF ReplyAt
    <3>3. r + 1 \in Nat /\ 1 \in Nat /\ r + 1 # 1 BY <3>1
    <3> QED BY <3>1, <3>2, <3>3 DEF IInv, WindowInv, OneReply
  <2>4. OneReply(w)' /\ InTime(w)'
    BY <2>3 DEF OneReply, InTime
  <2>5. Quiet(w)' /\ Locked(w)'
    <3>1. dispatch'[w] = "idle" BY <1>2 DEF IInv, TypeOK
    <3>2. window'[w] # "closed" BY <1>1, <1>2 DEF IInv, WindowInv, Quiet
    <3> QED BY <3>1, <3>2 DEF Quiet, Locked
  <2> QED BY <2>2, <2>4, <2>5 DEF WindowInv
<1>6. ASSUME NEW v \in Windows, v # w
      PROVE  WindowInv(v)'
  BY <1>1, <1>2, <1>6, OtherWindow DEF IInv, TypeOK
<1> QED BY <1>3, <1>4, <1>5, <1>6 DEF IInv

-----------------------------------------------------------------------------

LEMMA StepKeeps ==
    ASSUME WindowBounds, IInv, [Next]_vars
    PROVE  IInv'
<1>1. CASE Change BY <1>1, ChangeKeeps
<1>2. CASE Store BY <1>2, StoreKeeps
<1>3. CASE SendUpdate BY <1>3, SendUpdateKeeps
<1>4. CASE Restart BY <1>4, RestartKeeps
<1>5. ASSUME NEW w \in Windows, OpenWindow(w) PROVE IInv' BY <1>5, OpenKeeps
<1>6. ASSUME NEW w \in Windows, CloseWindow(w) PROVE IInv' BY <1>6, CloseKeeps
<1>7. ASSUME NEW w \in Windows, Dispatch(w) PROVE IInv' BY <1>7, DispatchKeeps
<1>8. ASSUME NEW w \in Windows, Answer(w) PROVE IInv'
  BY <1>8, AnswerFetchKeeps, EndDispatchKeeps DEF Answer
<1>9. ASSUME NEW w \in Windows, Receive(w) PROVE IInv'
  BY <1>9, ReceiveStateKeeps, ReceivePatchKeeps, ReceiveReplyKeeps DEF Receive
<1>10. CASE UNCHANGED vars
  <2>1. TypeOK' BY <1>10 DEF IInv, TypeOK, vars, windows
  <2>2. SentIsStart' BY <1>10, SameStore DEF IInv, vars, windows
  <2>3. \A w \in Windows : WindowInv(w)' BY <1>10, OtherWindow DEF vars, windows
  <2> QED BY <2>1, <2>2, <2>3 DEF IInv
<1> QED BY <1>1, <1>2, <1>3, <1>4, <1>5, <1>6, <1>7, <1>8, <1>9, <1>10 DEF Next

LEMMA InitHolds ==
    ASSUME WindowBounds, Init
    PROVE  IInv
<1>1. Empty \in States /\ <<>> \in Seq(Messages)
  BY DEF Empty, States, WindowBounds
<1>2. TypeOK
  <2>1. {store, disk, sent} \subseteq States BY <1>1 DEF Init
  <2>2. copy \in [Windows -> States] /\ inbox \in [Windows -> Seq(Messages)]
    BY <1>1 DEF Init
  <2>3. seen \in [Windows -> 0..MaxChanges] /\ restarts \in 0..MaxRestarts
    BY DEF Init, WindowBounds
  <2>4. /\ window \in [Windows -> {"closed", "opening", "ready"}]
        /\ dispatch \in [Windows -> {"idle", "running", "locked", "answered"}]
        /\ asked \subseteq Windows /\ unsent \in BOOLEAN
    BY DEF Init
  <2> QED BY <2>1, <2>2, <2>3, <2>4 DEF TypeOK
<1>3. SentIsStart
  BY DEF Init, SentIsStart, Short, Empty
<1>4. ASSUME NEW w \in Windows PROVE WindowInv(w)
  <2>1. \A i : ~Holds(w, i) /\ ~ReplyAt(w, i)
    BY DEF Init, Holds, ReplyAt
  <2>2. Linked(w) /\ Latest(w) /\ OneReply(w) /\ InTime(w)
    BY <2>1 DEF Linked, Latest, OneReply, InTime
  <2>3. Quiet(w) /\ Locked(w)
    BY DEF Init, Quiet, Locked
  <2> QED BY <2>2, <2>3 DEF WindowInv
<1> QED BY <1>2, <1>3, <1>4 DEF IInv

\* The invariant holds of any windows and any number of changes and restarts.
LEMMA Always ==
    ASSUME WindowBounds
    PROVE  Spec => []IInv
<1>1. Init => IInv BY InitHolds
<1>2. IInv /\ [Next]_vars => IInv' BY StepKeeps
<1> QED BY <1>1, <1>2, PTL DEF Spec

\* A window that has received all there is has every change of the store: none is
\* lost between the state it fetched and the differences it applies (newProxyStore,
\* diffStrategy and the FETCH_STATE handler of webext-redux).
THEOREM NothingIsMissing ==
    ASSUME WindowBounds
    PROVE  Spec => []NothingMissing
<1>1. IInv => NothingMissing
  <2> SUFFICES ASSUME IInv, NEW w \in Windows, Settled(w)
               PROVE  /\ copy[w].change = store.change
                      /\ ToSet(store.list) \subseteq ToSet(copy[w].list)
    BY DEF NothingMissing
  <2>1. window[w] = "ready" /\ inbox[w] = <<>> /\ ~unsent BY DEF Settled
  <2>2. Holds(w, 0) /\ Held(w, 0) = copy[w] BY <2>1 DEF Holds, Held
  <2>3. Adjacent(w, 0, Len(inbox[w]) + 1) BY <2>1 DEF Adjacent
  <2>4. UpToDate(copy[w]) BY <2>2, <2>3 DEF IInv, WindowInv, Latest
  <2>5. sent = store BY <2>1 DEF IInv, SentIsStart
  <2> QED BY <2>1, <2>4, <2>5 DEF UpToDate, Has
<1> QED BY <1>1, Always, PTL

\* The reply to what a window dispatched never overtakes the changes made by then
\* (dispatchResponder, releaseLock).
THEOREM RepliesComeAfterChanges ==
    ASSUME WindowBounds
    PROVE  Spec => RepliesSeeChanges
<1>1. IInv /\ [Next]_vars
         => [\A w \in Windows : ReceiveReply(w) => copy[w].change >= seen[w]]_vars
  <2> SUFFICES ASSUME IInv, NEW w \in Windows, ReceiveReply(w)
               PROVE  copy[w].change >= seen[w]
    OBVIOUS
  <2>1. 1 \in 1..Len(inbox[w]) /\ inbox[w][1].type = "reply"
    <3>1. Received(w, "reply") BY DEF ReceiveReply
    <3> QED BY <3>1, ReceivedTypes
  <2>2. ReplyAt(w, 1) BY <2>1 DEF ReplyAt
  <2>3. dispatch[w] = "answered" BY <2>2 DEF IInv, WindowInv, OneReply
  <2>4. window[w] = "ready" BY <2>3 DEF IInv, WindowInv, Quiet
  <2>5. Holds(w, 0) /\ Held(w, 0) = copy[w] BY <2>4 DEF Holds, Held
  <2>6. Adjacent(w, 0, 1) BY DEF Adjacent
  <2>7. 0 \in Nat /\ 1 \in Nat /\ 0 < 1 OBVIOUS
  <2> QED BY <2>2, <2>5, <2>6, <2>7 DEF IInv, WindowInv, InTime
<1> QED BY <1>1, Always, PTL DEF Spec, RepliesSeeChanges
=============================================================================
