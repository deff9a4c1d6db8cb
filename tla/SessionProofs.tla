---------------------------- MODULE SessionProofs ----------------------------
(***************************************************************************)
(* Proofs about the turns of a session: TurnMailbox, for any senders and   *)
(* any number of messages, turns and runs, and SessionContext, for         *)
(* sessions of any length.                                                 *)
(*                                                                         *)
(* TurnMailbox: that nothing is lost needs no more than the numbers of the *)
(* messages; that the mailbox knows what is on its way, and that the order *)
(* is kept, need to know which messages can be where at each step of a     *)
(* run, and which clearing is under way.                                   *)
(*                                                                         *)
(* SessionContext: what the context of a branch is, is defined by          *)
(* recursion over sequences and over the tree, so the lemmas about Only,   *)
(* BranchIn, Selected and ContextOf come first (induction is over a least  *)
(* counterexample).  That live is what is stored needs to know that a      *)
(* retry removes a failed message and nothing else; that nothing comes     *)
(* back needs the order of the stored context, in which the copy of a      *)
(* compaction is a prefix.                                                 *)
(***************************************************************************)
EXTENDS TurnMailbox, SessionContext, SequenceTheorems, WellFoundedInduction, TLAPS

Elements(s) == {s[i] : i \in DOMAIN s}
Items == Elements(items["steering"]) \cup Elements(items["follow_up"])
Inflight == Elements(inflight["steering"]) \cup Elements(inflight["follow_up"])
Queued == Elements(queue["steering"]) \cup Elements(queue["follow_up"])
Hands == UNION {Elements(sender[s].hand) : s \in Senders}
\* The messages on their way to the conversation.
Way == Queued \cup Elements(pending) \cup Elements(hand) \cup Hands

\* Messages of a kind are in the order in which they were sent.
Before(A, B) == \A a \in A, b \in B : a.kind = b.kind => a.n < b.n
Sorted(s) == \A i, j \in DOMAIN s : i < j /\ s[i].kind = s[j].kind => s[i].n < s[j].n

\* A queue for messages of kind k holds such messages.
OfKind(q, k) == \A m \in Elements(q) : m.kind = k
Kinded ==
    /\ \A k \in Kinds : OfKind(items[k], k) /\ OfKind(inflight[k], k) /\ OfKind(queue[k], k)
    /\ OfKind(hand, at)
    /\ \A s \in Senders : OfKind(sender[s].hand, sender[s].kind)

\* What a thread holds while it is where it is, and the turns that are left.
Control ==
    /\ run \notin {"prompts", "turn"} => pending = <<>>
    /\ run # "send" => hand = <<>>
    /\ \A s \in Senders : sender[s].pc # "send" => sender[s].hand = <<>>
    /\ run \in {"prompts", "first", "turn", "poll", "follow_up"} => turns < MaxTurns
    /\ Overlap => crossed

\* Every message has its own number, up to the last one sent.
Known ==
    /\ \A m \in Items \cup Inflight \cup Way \cup Elements(delivered) : m.n <= sent
    /\ \A a, b \in Items \cup Inflight \cup Way : a.n = b.n => a = b
    /\ \A n \in cleared : n <= sent
    /\ \A m \in Items \cup Inflight : m.n \notin cleared

\* The mailbox is in order, whatever the threads do.
Mailbox ==
    \A k \in Kinds : /\ Sorted(items[k]) /\ Sorted(inflight[k])
                     /\ Before(Elements(inflight[k]), Elements(items[k]))

\* No two threads have moved messages at once, and no run failed to report its end.
Quiet == ~crossed /\ ~unsettled

\* A sender that is going to empty the agent's queue of kind k.
Empties(s, k) == \/ sender[s].pc = "clear"
                 \/ sender[s].pc = "clear_agent" /\ (sender[s].kind = "steering"
                        \/ k = "follow_up")

\* What is inflight is on its way; at the end of a run, more than that may be inflight, and
\* all of it goes back to the mailbox before it is removed from the agent's queues.
Listed ==
    subscribed /\ run \notin {"failing", "agent_end", "remove"} =>
        Inflight = {m \in Way : m.n \notin cleared}
Ending ==
    subscribed /\ run \in {"failing", "agent_end"} => {m \in Way :
        m.n \notin cleared} \subseteq Inflight
Removing ==
    run = "remove" => /\ Inflight = {} /\ \A m \in Way : m.n \in restored
                      /\ at = "follow_up" => \A m \in Queued : m.kind = "follow_up"

\* What was cleared is on its way only while the clearing lasts, and nothing becomes
\* inflight during it.
Clearing ==
    /\ \A m \in Way : m.n \in cleared /\ run # "remove" =>
          m \in Queued /\ \E s \in Senders : Empties(s, m.kind)
    /\ \A s \in Senders : Clears(s) =>
          \A m \in Inflight : sender[s].pc = "clear" /\ m.kind = "follow_up"
Tracked == Quiet => Listed /\ Ending /\ Removing /\ Clearing

\* Messages of a kind are in order all the way from the mailbox to the conversation.
Behind ==
    /\ Sorted(delivered) /\ Before(Elements(delivered), Items)
    /\ subscribed => Before(Elements(delivered), Inflight)
Arranged ==
    /\ \A k \in Kinds : Sorted(queue[k])
    /\ Sorted(pending) /\ Sorted(hand) /\ \A s \in Senders : Sorted(sender[s].hand)
    /\ Before(Elements(delivered), Way) /\ Before(Elements(pending), Queued)
    /\ Before(Queued, Elements(hand) \cup Hands) /\ Before(Way, Items)
Underway == run # "remove" => Arranged
Ordered == Quiet => Behind /\ Underway

\* The inductive invariant.
IInv == TypeOK /\ Kinded /\ Control /\ Known /\ Mailbox /\ NothingLost /\ Tracked /\ Ordered

-----------------------------------------------------------------------------
(* Sequences of messages.                                                  *)

\* A nonempty set of natural numbers has a least element: proofs by induction over the length of
\* a sequence look at the least length for which the claim fails.
LEMMA Least ==
    ASSUME NEW T, T \subseteq Nat, T # {}
    PROVE  \E x \in T : \A y \in T : ~(y < x)
<1>1. IsWellFoundedOn(OpToRel(<,Nat), Nat)
  BY NatLessThanWellFounded
<1>2. \E x \in T : \A y \in T : ~(<<y, x>> \in OpToRel(<,Nat))
  BY <1>1, WFMin
<1>3. \A x, y \in Nat : y < x => <<y, x>> \in OpToRel(<,Nat)
  BY DEF OpToRel
<1> QED
  BY <1>2, <1>3

\* f goes through s as Without does, up to n.
Keeps(f, s, S, n) ==
    f = [i \in 0..n |-> IF i = 0 THEN <<>>
                        ELSE IF s[i].n \in S THEN f[i - 1] ELSE Append(f[i - 1], s[i])]

\* There is such a function: the recursion of Without is well defined.
LEMMA KeepsExists ==
    ASSUME NEW s \in Seq(Message), NEW S
    PROVE  \E f : Keeps(f, s, S, Len(s))
<1> DEFINE T == {n \in Nat : ~\E f : Keeps(f, s, S, n)}
<1>1. Len(s) \in Nat
  OBVIOUS
<1>2. SUFFICES ASSUME T # {} PROVE FALSE
  BY <1>1
<1>3. PICK n \in T : \A y \in T : ~(y < n)
  <2>1. T \subseteq Nat
    OBVIOUS
  <2> QED
    BY <1>2, <2>1, Least
<1>4. n # 0
  <2>1. Keeps([i \in 0..0 |-> <<>>], s, S, 0)
    BY DEF Keeps
  <2> QED
    BY <2>1
<1>5. n - 1 \in Nat /\ n - 1 < n
  BY <1>4
<1>6. PICK f : Keeps(f, s, S, n - 1)
  BY <1>3, <1>5
<1> DEFINE g == [i \in 0..n |-> IF i < n THEN f[i]
                                ELSE IF s[n].n \in S THEN f[n - 1] ELSE Append(f[n - 1], s[n])]
<1>7. \A i \in 0..(n - 1) : g[i] = f[i]
  BY <1>5
<1>8. g[n] = IF s[n].n \in S THEN f[n - 1] ELSE Append(f[n - 1], s[n])
  BY <1>5
<1>9. \A i \in 0..(n - 1) : f[i] = IF i = 0 THEN <<>>
          ELSE IF s[i].n \in S THEN f[i - 1] ELSE Append(f[i - 1], s[i])
  BY <1>6 DEF Keeps
<1>10. g[n - 1] = f[n - 1]
  BY <1>5, <1>7
<1>11. ASSUME NEW i \in 0..n
       PROVE  g[i] = IF i = 0 THEN <<>>
          ELSE IF s[i].n \in S THEN g[i - 1] ELSE Append(g[i - 1], s[i])
  <2>1. CASE i = n
    BY <1>4, <1>8, <1>10, <2>1
  <2>2. CASE i # n /\ i = 0
    <3>1. i \in 0..(n - 1)
      BY <1>5, <2>2
    <3> QED
      BY <1>7, <1>9, <2>2, <3>1
  <2>3. CASE i # n /\ i # 0
    <3>1. i \in 0..(n - 1) /\ i - 1 \in 0..(n - 1)
      BY <1>5, <2>3
    <3>2. g[i] = f[i] /\ g[i - 1] = f[i - 1]
      BY <1>7, <3>1
    <3> QED
      BY <1>9, <2>3, <3>1, <3>2
  <2> QED
    BY <2>1, <2>2, <2>3
<1>12. DOMAIN g = 0..n /\ g = [i \in 0..n |-> g[i]]
  OBVIOUS
<1> HIDE DEF g
<1>13. Keeps(g, s, S, n)
  BY <1>11, <1>12 DEF Keeps
<1> QED
  BY <1>3, <1>13

\* What Without goes through.
LEMMA WithoutKeeps ==
    ASSUME NEW s \in Seq(Message), NEW S
    PROVE  \E f : Keeps(f, s, S, Len(s)) /\ Without(s, S) = f[Len(s)]
<1> DEFINE F == CHOOSE f : Keeps(f, s, S, Len(s))
<1>1. Keeps(F, s, S, Len(s))
  BY KeepsExists
<1>2. Without(s, S) = F[Len(s)]
  BY DEF Without, Keeps
<1> QED
  BY <1>1, <1>2

\* The elements of a sequence that grows, and their order.
LEMMA AppendElements ==
    ASSUME NEW q \in Seq(Message), NEW x
    PROVE  Elements(Append(q, x)) = Elements(q) \cup {x}
<1>1. \A i \in DOMAIN q : i \in DOMAIN Append(q, x) /\ Append(q, x)[i] = q[i]
  OBVIOUS
<1>2. Len(q) + 1 \in DOMAIN Append(q, x) /\ Append(q, x)[Len(q) + 1] = x
  OBVIOUS
<1>3. \A i \in DOMAIN Append(q, x) : i \in DOMAIN q \/ i = Len(q) + 1
  OBVIOUS
<1> QED
  BY <1>1, <1>2, <1>3 DEF Elements

LEMMA AppendSorted ==
    ASSUME NEW q \in Seq(Message), NEW x, Sorted(q), Before(Elements(q), {x})
    PROVE  Sorted(Append(q, x))
<1> SUFFICES ASSUME NEW i \in DOMAIN Append(q, x), NEW j \in DOMAIN Append(q, x), i < j,
                    Append(q, x)[i].kind = Append(q, x)[j].kind
             PROVE  Append(q, x)[i].n < Append(q, x)[j].n
  BY DEF Sorted
<1>1. i \in DOMAIN q /\ Append(q, x)[i] = q[i]
  OBVIOUS
<1>2. CASE j \in DOMAIN q
  <2>1. Append(q, x)[j] = q[j]
    BY <1>2
  <2> QED
    BY <1>1, <1>2, <2>1 DEF Sorted
<1>3. CASE j \notin DOMAIN q
  <2>1. Append(q, x)[j] = x
    BY <1>3
  <2>2. q[i] \in Elements(q)
    BY <1>1 DEF Elements
  <2> QED
    BY <1>1, <2>1, <2>2 DEF Before
<1> QED
  BY <1>2, <1>3

\* Without keeps the messages of s whose number is not in S, and their order.
LEMMA WithoutFacts ==
    ASSUME NEW s \in Seq(Message), NEW S
    PROVE  /\ Without(s, S) \in Seq(Message)
           /\ Elements(Without(s, S)) = {m \in Elements(s) : m.n \notin S}
           /\ Sorted(s) => Sorted(Without(s, S))
<1>1. PICK f : Keeps(f, s, S, Len(s)) /\ Without(s, S) = f[Len(s)]
  BY WithoutKeeps
<1> DEFINE First(n) == {m \in Elements(s) : \E i \in 1..n : i \in DOMAIN s /\ s[i] = m
    /\ m.n \notin S}
           Good(n) == /\ f[n] \in Seq(Message)
                      /\ Elements(f[n]) = First(n)
                      /\ Sorted(s) => Sorted(f[n])
           T == {n \in 0..Len(s) : ~Good(n)}
<1>2. /\ f[0] = <<>>
      /\ \A n \in 1..Len(s) : s[n].n \in S => f[n] = f[n - 1]
      /\ \A n \in 1..Len(s) : s[n].n \notin S => f[n] = Append(f[n - 1], s[n])
  <2>1. Len(s) \in Nat
    OBVIOUS
  <2>2. \A n \in 0..Len(s) : f[n] = IF n = 0 THEN <<>>
            ELSE IF s[n].n \in S THEN f[n - 1] ELSE Append(f[n - 1], s[n])
    BY <1>1, <2>1 DEF Keeps
  <2>3. f[0] = <<>>
    BY <2>1, <2>2
  <2>4. ASSUME NEW n \in 1..Len(s)
        PROVE  f[n] = IF s[n].n \in S THEN f[n - 1] ELSE Append(f[n - 1], s[n])
    <3>1. n \in 0..Len(s) /\ n # 0
      BY <2>1
    <3> QED
      BY <2>2, <3>1
  <2> QED
    BY <2>3, <2>4
<1>3. T = {}
  <2>1. SUFFICES ASSUME T # {} PROVE FALSE
    OBVIOUS
  <2>2. PICK n \in T : \A y \in T : ~(y < n)
    <3>1. T \subseteq Nat
      OBVIOUS
    <3> QED
      BY <2>1, <3>1, Least
  <2>3. n # 0
    <3>1. Good(0)
      BY <1>2 DEF Elements, Sorted
    <3> QED
      BY <2>2, <3>1
  <2>4. n \in 1..Len(s) /\ n \in DOMAIN s /\ n - 1 \in 0..Len(s) /\ n - 1 < n
    BY <2>3
  <2>5. Good(n - 1)
    BY <2>2, <2>4
  <2>6. s[n] \in Message /\ s[n] \in Elements(s)
    BY <2>4 DEF Elements
  <2>7. First(n) = IF s[n].n \in S THEN First(n - 1) ELSE First(n - 1) \cup {s[n]}
    <3>1. \A i \in 1..n : i = n \/ i \in 1..(n - 1)
      BY <2>4
    <3>2. \A i \in 1..(n - 1) : i \in 1..n
      BY <2>4
    <3>3. n \in 1..n
      BY <2>4
    <3> QED
      BY <2>4, <2>6, <3>1, <3>2, <3>3
  <2>8. CASE s[n].n \in S
    BY <1>2, <2>2, <2>4, <2>5, <2>7, <2>8
  <2>9. CASE s[n].n \notin S
    <3>1. f[n] = Append(f[n - 1], s[n])
      BY <1>2, <2>4, <2>9
    <3>2. f[n] \in Seq(Message)
      BY <2>5, <2>6, <3>1
    <3>3. Elements(f[n]) = First(n)
      BY <2>5, <2>7, <2>9, <3>1, AppendElements
    <3>4. ASSUME Sorted(s) PROVE Before(First(n - 1), {s[n]})
      <4> SUFFICES ASSUME NEW i \in 1..(n - 1), i \in DOMAIN s, s[i].kind = s[n].kind
                   PROVE  s[i].n < s[n].n
        BY DEF Before
      <4>1. i < n
        BY <2>4
      <4> QED
        BY <3>4, <2>4, <4>1 DEF Sorted
    <3>5. ASSUME Sorted(s) PROVE Sorted(f[n])
      <4>1. f[n - 1] \in Seq(Message) /\ Sorted(f[n - 1]) /\ Before(Elements(f[n - 1]), {s[n]})
        BY <2>5, <3>4, <3>5
      <4> HIDE DEF First, Good, T
      <4> QED
        BY <3>1, <4>1, AppendSorted
    <3>6. Good(n)
      BY <3>2, <3>3, <3>5
    <3> QED
      BY <2>2, <3>6
  <2> QED
    BY <2>8, <2>9
<1>4. Good(Len(s))
  <2>1. Len(s) \in 0..Len(s)
    OBVIOUS
  <2> QED
    BY <1>3, <2>1
<1>5. First(Len(s)) = {m \in Elements(s) : m.n \notin S}
  BY DEF Elements
<1> QED
  BY <1>1, <1>4, <1>5

\* What a sequence keeps when its tail, another element or another sequence is taken.
LEMMA SeqFacts ==
    /\ <<>> \in Seq(Message) /\ Elements(<<>>) = {} /\ Sorted(<<>>)
    /\ \A s \in Seq(Message), x \in Message : Append(s, x) \in Seq(Message)
    /\ \A s \in Seq(Message), t \in Seq(Message) : s \o t \in Seq(Message)
    /\ \A s \in Seq(Message) : s # <<>> => Head(s) \in Message /\ Tail(s) \in Seq(Message)
    /\ \A x \in Message : <<x>> \in Seq(Message)
    /\ \A s \in Seq(Message) : Elements(s) \subseteq Message
<1>1. Elements(<<>>) = {} /\ Sorted(<<>>)
  BY DEF Elements, Sorted
<1>2. \A s \in Seq(Message) : Elements(s) \subseteq Message
  BY DEF Elements
<1> QED
  BY <1>1, <1>2

LEMMA TailFacts ==
    ASSUME NEW q \in Seq(Message), q # <<>>
    PROVE  /\ Elements(q) = {Head(q)} \cup Elements(Tail(q))
           /\ Sorted(q) => Sorted(Tail(q)) /\ Before({Head(q)}, Elements(Tail(q)))
<1>1. \A i \in DOMAIN q : i = 1 \/ (i - 1 \in DOMAIN Tail(q) /\ Tail(q)[i - 1] = q[i])
  OBVIOUS
<1>2. \A i \in DOMAIN Tail(q) : i + 1 \in DOMAIN q /\ q[i + 1] = Tail(q)[i] /\ i \in Nat
          /\ 1 < i + 1
  OBVIOUS
<1>3. 1 \in DOMAIN q /\ q[1] = Head(q)
  OBVIOUS
<1>4. ASSUME NEW x \in Elements(q) PROVE x \in {Head(q)} \cup Elements(Tail(q))
  BY <1>1, <1>3, <1>4 DEF Elements
<1>5. ASSUME NEW x \in Elements(Tail(q)) PROVE x \in Elements(q)
  BY <1>2, <1>5 DEF Elements
<1>6. Head(q) \in Elements(q)
  BY <1>3 DEF Elements
<1>7. Sorted(q) => Sorted(Tail(q))
  BY <1>2 DEF Sorted
<1>8. Sorted(q) => Before({Head(q)}, Elements(Tail(q)))
  BY <1>2, <1>3 DEF Sorted, Before, Elements
<1> QED
  BY <1>4, <1>5, <1>6, <1>7, <1>8

LEMMA ConcatFacts ==
    ASSUME NEW p \in Seq(Message), NEW q \in Seq(Message)
    PROVE  /\ Elements(p \o q) = Elements(p) \cup Elements(q)
           /\ Sorted(p) /\ Sorted(q) /\ Before(Elements(p), Elements(q)) => Sorted(p \o q)
<1>1. \A i \in DOMAIN p : i \in DOMAIN (p \o q) /\ (p \o q)[i] = p[i]
  OBVIOUS
<1>2. \A i \in DOMAIN q : Len(p) + i \in DOMAIN (p \o q) /\ (p \o q)[Len(p) + i] = q[i]
  OBVIOUS
<1>3. \A i \in DOMAIN (p \o q) : \/ i \in DOMAIN p
                                 \/ i - Len(p) \in DOMAIN q /\ (p \o q)[i] = q[i - Len(p)]
                                        /\ i > Len(p)
  OBVIOUS
<1>4. ASSUME NEW x \in Elements(p \o q) PROVE x \in Elements(p) \cup Elements(q)
  BY <1>1, <1>3, <1>4 DEF Elements
<1>5. ASSUME NEW x \in Elements(p) \cup Elements(q) PROVE x \in Elements(p \o q)
  BY <1>1, <1>2, <1>5 DEF Elements
<1>6. ASSUME Sorted(p), Sorted(q), Before(Elements(p), Elements(q)),
             NEW i \in DOMAIN (p \o q), NEW j \in DOMAIN (p \o q), i < j,
             (p \o q)[i].kind = (p \o q)[j].kind
      PROVE  (p \o q)[i].n < (p \o q)[j].n
  <2>1. CASE i \in DOMAIN p /\ j \in DOMAIN p
    BY <1>1, <1>6, <2>1 DEF Sorted
  <2>2. CASE i \in DOMAIN p /\ j \notin DOMAIN p
    <3>1. p[i] \in Elements(p) /\ q[j - Len(p)] \in Elements(q)
      BY <1>3, <2>2 DEF Elements
    <3> QED
      BY <1>1, <1>3, <1>6, <2>2, <3>1 DEF Before
  <2>3. CASE i \notin DOMAIN p
    <3>1. /\ i - Len(p) \in DOMAIN q /\ (p \o q)[i] = q[i - Len(p)]
          /\ j - Len(p) \in DOMAIN q /\ (p \o q)[j] = q[j - Len(p)]
          /\ i - Len(p) < j - Len(p)
      BY <1>3, <1>6, <2>3
    <3> QED
      BY <1>6, <3>1 DEF Sorted
  <2> QED
    BY <2>1, <2>2, <2>3
<1>7. Sorted(p) /\ Sorted(q) /\ Before(Elements(p), Elements(q)) => Sorted(p \o q)
  BY <1>6 DEF Sorted
<1> QED
  BY <1>4, <1>5, <1>7

\* A drain splits a queue.
LEMMA DrainFacts ==
    ASSUME NEW q \in Seq(Message)
    PROVE  /\ Drained(q) \in Seq(Message) /\ Left(q) \in Seq(Message)
           /\ Elements(q) = Elements(Drained(q)) \cup Elements(Left(q))
           /\ q = <<>> => Drained(q) = <<>> /\ Left(q) = <<>>
           /\ Sorted(q) => /\ Sorted(Drained(q)) /\ Sorted(Left(q))
                           /\ Before(Elements(Drained(q)), Elements(Left(q)))
<1>1. CASE mode = "all" \/ q = <<>>
  <2>1. Drained(q) = q /\ Left(q) = <<>>
    BY <1>1 DEF Drained, Left
  <2> QED
    BY <2>1, SeqFacts DEF Before
<1>2. CASE ~(mode = "all" \/ q = <<>>)
  <2>1. Drained(q) = <<Head(q)>> /\ Left(q) = Tail(q) /\ q # <<>>
    BY <1>2 DEF Drained, Left
  <2>2. Elements(<<Head(q)>>) = {Head(q)} /\ Sorted(<<Head(q)>>)
    BY DEF Elements, Sorted
  <2>3. <<Head(q)>> \in Seq(Message) /\ Tail(q) \in Seq(Message)
    BY <2>1, SeqFacts
  <2> QED
    BY <2>1, <2>2, <2>3, TailFacts
<1> QED
  BY <1>1, <1>2

LEMMA NumbersOf ==
    ASSUME NEW q \in Seq(Message)
    PROVE  Numbers(q) = {m.n : m \in Elements(q)} /\ Numbers(q) \subseteq 1..MaxMessages
<1>1. \A i \in DOMAIN q : q[i] \in Message
  OBVIOUS
<1>2. \A m \in Message : m.n \in 1..MaxMessages
  BY DEF Message
<1> QED
  BY <1>1, <1>2 DEF Numbers, Elements

\* Two messages of one kind with one number are the same.
LEMMA MessageForm ==
    /\ \A m \in Message : m.kind \in Kinds /\ m.n \in 1..MaxMessages /\ m.n \in Nat
    /\ \A a, b \in Message : a.kind = b.kind /\ a.n = b.n => a = b
    /\ \A k \in Kinds : sent \in Nat /\ sent < MaxMessages =>
          /\ [kind |-> k, n |-> sent + 1] \in Message
          /\ [kind |-> k, n |-> sent + 1].kind = k /\ [kind |-> k, n |-> sent + 1].n = sent + 1
BY MailboxAssumption DEF Message

-----------------------------------------------------------------------------
(* Types.                                                                  *)

\* The types, the sequences apart from the rest.
SeqTypes ==
    /\ items \in [Kinds -> Seq(Message)] /\ inflight \in [Kinds -> Seq(Message)]
    /\ queue \in [Kinds -> Seq(Message)]
    /\ hand \in Seq(Message) /\ pending \in Seq(Message) /\ delivered \in Seq(Message)

PlainTypes ==
    /\ closed \in BOOLEAN /\ subscribed \in BOOLEAN
    /\ mode \in {"all", "one-at-a-time"}
    /\ run \in {"none", "prompts", "first", "turn", "drain", "send", "poll", "follow_up",
                "agent_end", "remove", "failing", "finish"}
    /\ at \in Kinds
    /\ restored \in SUBSET (1..MaxMessages)
    /\ sent \in 0..MaxMessages /\ turns \in 0..MaxTurns /\ runs \in 0..MaxRuns
    /\ cleared \in SUBSET (1..MaxMessages)
    /\ crossed \in BOOLEAN /\ unsettled \in BOOLEAN

SenderTypes ==
    sender \in [Senders -> [pc : {"out", "check", "drain", "send", "clear", "clear_agent"},
                            kind : Kinds, hand : Seq(Message)]]

LEMMA TypeParts == TypeOK <=> SeqTypes /\ PlainTypes /\ SenderTypes
BY DEF TypeOK, SeqTypes, PlainTypes, SenderTypes

\* The queues stay queues of messages.
LEMMA SeqStep ==
    ASSUME TypeOK, [Next]_vars
    PROVE  SeqTypes'
<1> USE DEF SeqTypes
<1>0. SeqTypes /\ PlainTypes /\ SenderTypes
  BY TypeParts DEF SeqTypes
<1>a. \A k \in Kinds : /\ items[k] \in Seq(Message) /\ inflight[k] \in Seq(Message)
                       /\ queue[k] \in Seq(Message)
  BY <1>0
<1>b. "steering" \in Kinds /\ "follow_up" \in Kinds
  BY DEF Kinds
<1>c. \A k \in Kinds : Drain(k) => /\ items' \in [Kinds -> Seq(Message)]
                                   /\ inflight' \in [Kinds -> Seq(Message)]
                                   /\ Drained(items[k]) \in Seq(Message)
  <2> SUFFICES ASSUME NEW k \in Kinds, Drain(k)
               PROVE  /\ items' \in [Kinds -> Seq(Message)]
                      /\ inflight' \in [Kinds -> Seq(Message)]
                      /\ Drained(items[k]) \in Seq(Message)
    OBVIOUS
  <2>1. Drained(items[k]) \in Seq(Message) /\ Left(items[k]) \in Seq(Message)
    BY <1>a, DrainFacts
  <2>2. inflight[k] \o Drained(items[k]) \in Seq(Message)
    BY <1>a, <2>1, SeqFacts
  <2> QED
    BY <1>0, <2>1, <2>2 DEF Drain
<1>d. \A k \in Kinds : Clear(k) => /\ items' \in [Kinds -> Seq(Message)]
                                   /\ inflight' \in [Kinds -> Seq(Message)]
  BY <1>0, SeqFacts DEF Clear
<1>e. \A k \in Kinds : /\ Drained(queue[k]) \in Seq(Message)
                       /\ [queue EXCEPT ![k] = Left(@)] \in [Kinds -> Seq(Message)]
  <2> SUFFICES ASSUME NEW k \in Kinds
               PROVE  /\ Drained(queue[k]) \in Seq(Message)
                      /\ [queue EXCEPT ![k] = Left(@)] \in [Kinds -> Seq(Message)]
    OBVIOUS
  <2>1. Drained(queue[k]) \in Seq(Message) /\ Left(queue[k]) \in Seq(Message)
    BY <1>a, DrainFacts
  <2> QED
    BY <1>0, <2>1
<1>1. ASSUME NEW s \in Senders, NEW k \in Kinds, SenderEnqueues(s, k)
      PROVE  SeqTypes'
  <2> DEFINE m == [kind |-> k, n |-> sent + 1]
  <2>1. m \in Message /\ m.kind = k /\ Append(items[k], m) \in Seq(Message)
    BY <1>1, <1>0, <1>a, MessageForm, SeqFacts, MailboxAssumption DEF SenderEnqueues, PlainTypes
  <2>2. items' = [items EXCEPT ![k] = Append(@, m)]
            /\ UNCHANGED <<inflight, queue, hand, pending, delivered>>
    BY <1>1, <2>1 DEF SenderEnqueues, Enqueue, runVars
  <2> HIDE DEF m
  <2> QED
    BY <1>0, <2>1, <2>2
<1>2. ASSUME NEW s \in Senders, SenderChecks(s)
      PROVE  SeqTypes'
  BY <1>2, <1>0 DEF SenderChecks, boxVars, runVars, counters, RunOnly
<1>3. ASSUME NEW s \in Senders, SenderDrains(s)
      PROVE  SeqTypes'
  BY <1>3, <1>0, <1>c DEF SenderDrains, SenderTypes, boxVars, runVars, counters, RunOnly
<1>4. ASSUME NEW s \in Senders, SenderSends(s)
      PROVE  SeqTypes'
  <2>1. CASE sender[s].hand = <<>>
    BY <1>4, <1>0, <2>1 DEF SenderSends, boxVars, runVars
  <2>2. CASE sender[s].hand # <<>>
    <3>1. Head(sender[s].hand) \in Message /\ sender[s].kind \in Kinds
      BY <1>0, <2>2, SeqFacts DEF SenderTypes
    <3>2. Append(queue[sender[s].kind], Head(sender[s].hand)) \in Seq(Message)
      BY <1>a, <3>1, SeqFacts
    <3> QED
      BY <1>4, <1>0, <2>2, <3>1, <3>2 DEF SenderSends, boxVars, runVars
  <2> QED
    BY <2>1, <2>2
<1>5. ASSUME NEW s \in Senders, SenderClears(s)
      PROVE  SeqTypes'
  BY <1>5, <1>0, <1>b, <1>d DEF SenderClears, boxVars, runVars, counters, RunOnly
<1>6. ASSUME NEW s \in Senders, SenderClearsFollowUp(s)
      PROVE  SeqTypes'
  BY <1>6, <1>0, <1>b, <1>d DEF SenderClearsFollowUp, boxVars, runVars, counters, RunOnly
<1>7. ASSUME NEW s \in Senders, SenderClearsAgent(s)
      PROVE  SeqTypes'
  BY <1>7, <1>0, SeqFacts DEF SenderClearsAgent, SenderTypes, boxVars, runVars, counters, RunOnly
<1>8. ASSUME RunBegins
      PROVE  SeqTypes'
  BY <1>8, <1>0, <1>b, <1>e DEF RunBegins, boxVars, runVars, counters, RunOnly
<1>9. ASSUME RunDelivers
      PROVE  SeqTypes'
  <2>1. /\ Head(pending) \in Message /\ Tail(pending) \in Seq(Message)
        /\ Append(delivered, Head(pending)) \in Seq(Message)
    BY <1>9, <1>0, SeqFacts DEF RunDelivers
  <2>2. Without(inflight[Head(pending).kind], {Head(pending).n}) \in Seq(Message)
    BY <1>a, <2>1, WithoutFacts, MessageForm
  <2>3. items' = items /\ inflight' \in [Kinds -> Seq(Message)]
    BY <1>9, <1>0, <2>2 DEF RunDelivers, Acknowledge, boxVars
  <2>4. pending' \in Seq(Message)
    BY <1>9, <1>0, <2>1, SeqFacts DEF RunDelivers
  <2> QED
    BY <1>9, <1>0, <2>1, <2>3, <2>4 DEF RunDelivers
<1>10. ASSUME RunPollsFirst
       PROVE  SeqTypes'
  BY <1>10, <1>0, <1>b, <1>e DEF RunPollsFirst, boxVars, runVars, counters, RunOnly
<1>11. ASSUME RunTurn
       PROVE  SeqTypes'
  BY <1>11, <1>0 DEF RunTurn, boxVars, runVars, counters, RunOnly
<1>12. ASSUME RunDrains
       PROVE  SeqTypes'
  BY <1>12, <1>0, <1>c DEF RunDrains, PlainTypes, boxVars, runVars, counters, RunOnly
<1>13. ASSUME RunSends
       PROVE  SeqTypes'
  <2>1. Head(hand) \in Message /\ Tail(hand) \in Seq(Message) /\ at \in Kinds
    BY <1>13, <1>0, SeqFacts DEF RunSends, PlainTypes
  <2>2. Append(queue[at], Head(hand)) \in Seq(Message)
    BY <1>a, <2>1, SeqFacts
  <2> QED
    BY <1>13, <1>0, <2>1, <2>2 DEF RunSends, boxVars
<1>14. ASSUME RunFlushed
       PROVE  SeqTypes'
  BY <1>14, <1>0 DEF RunFlushed, boxVars, runVars, counters, RunOnly
<1>15. ASSUME RunPolls
       PROVE  SeqTypes'
  BY <1>15, <1>0, <1>b, <1>e DEF RunPolls, boxVars, runVars, counters, RunOnly
<1>16. ASSUME RunPollsFollowUp
       PROVE  SeqTypes'
  BY <1>16, <1>0, <1>b, <1>e DEF RunPollsFollowUp, boxVars, runVars, counters, RunOnly
<1>17. ASSUME RunRestores
       PROVE  SeqTypes'
  <2>1. \A k \in Kinds : inflight[k] \o items[k] \in Seq(Message)
    BY <1>a, SeqFacts
  <2> QED
    BY ZenonT(60), <1>17, <1>0, <2>1, SeqFacts DEF RunRestores, RestoreUnacknowledged, boxVars
<1>18. ASSUME RunRemoves
       PROVE  SeqTypes'
  <2>1. Without(queue[at], restored) \in Seq(Message) /\ at \in Kinds
    BY <1>0, <1>a, WithoutFacts DEF PlainTypes
  <2> QED
    BY <1>18, <1>0, <2>1 DEF RunRemoves, boxVars
<1>19. ASSUME RunFails
       PROVE  SeqTypes'
  BY <1>19, <1>0 DEF RunFails, boxVars, runVars, counters, RunOnly
<1>20. ASSUME RunFinishes
       PROVE  SeqTypes'
  BY <1>20, <1>0, SeqFacts DEF RunFinishes, boxVars, runVars, counters, RunOnly
<1>21. ASSUME Shutdown
       PROVE  SeqTypes'
  BY <1>21, <1>0 DEF Shutdown, boxVars, runVars, counters, RunOnly
<1>22. ASSUME Dispose
       PROVE  SeqTypes'
  BY <1>22, <1>0 DEF Dispose, boxVars, runVars, counters, RunOnly
<1>23. CASE UNCHANGED vars
  BY <1>23, <1>0 DEF vars, boxVars, runVars, counters
<1> QED
  BY <1>1, <1>2, <1>3, <1>4, <1>5, <1>6, <1>7, <1>8, <1>9, <1>10, <1>11, <1>12, <1>13, <1>14,
     <1>15, <1>16, <1>17, <1>18, <1>19, <1>20, <1>21, <1>22, <1>23 DEF Next, SenderStep, RunStep

\* The other values stay in their sets.
LEMMA PlainStep ==
    ASSUME TypeOK, Control, [Next]_vars
    PROVE  PlainTypes'
<1> USE DEF PlainTypes
<1>0. SeqTypes /\ PlainTypes /\ SenderTypes
  BY TypeParts DEF PlainTypes
<1>a. crossed' \in BOOLEAN
  BY <1>0 DEF Next, vars, Overlap, Holds, Clears, IsStreaming
<1>b. MaxMessages \in Nat /\ MaxTurns \in Nat /\ MaxRuns \in Nat
      /\ "steering" \in Kinds /\ "follow_up" \in Kinds
  BY MailboxAssumption DEF Kinds
<1>c. \A k \in Kinds : Numbers(inflight[k] \o items[k]) \subseteq 1..MaxMessages
  BY <1>0, SeqFacts, NumbersOf DEF SeqTypes
<1>d. Numbers(Both(inflight)) \subseteq 1..MaxMessages
  BY <1>0, <1>b, SeqFacts, NumbersOf DEF SeqTypes, Both
<1>1. ASSUME NEW s \in Senders, NEW k \in Kinds, SenderEnqueues(s, k)
      PROVE  PlainTypes'
  BY <1>1, <1>0, <1>a, <1>b DEF SenderEnqueues, boxVars, runVars, counters, RunOnly
<1>2. ASSUME NEW s \in Senders, SenderChecks(s)
      PROVE  PlainTypes'
  BY <1>2, <1>0, <1>a, <1>b DEF SenderChecks, boxVars, runVars, counters, RunOnly
<1>3. ASSUME NEW s \in Senders, SenderDrains(s)
      PROVE  PlainTypes'
  BY <1>3, <1>0, <1>a, <1>b DEF SenderDrains, boxVars, runVars, counters, RunOnly
<1>4. ASSUME NEW s \in Senders, SenderSends(s)
      PROVE  PlainTypes'
  BY <1>4, <1>0, <1>a, <1>b DEF SenderSends, boxVars, runVars, counters, RunOnly
<1>5. ASSUME NEW s \in Senders, SenderClears(s)
      PROVE  PlainTypes'
  BY <1>5, <1>0, <1>a, <1>b, <1>c DEF SenderClears, Clear, boxVars, runVars, counters, RunOnly
<1>6. ASSUME NEW s \in Senders, SenderClearsFollowUp(s)
      PROVE  PlainTypes'
  BY <1>6, <1>0, <1>a, <1>b, <1>c DEF SenderClearsFollowUp, Clear, boxVars, runVars, counters,
     RunOnly
<1>7. ASSUME NEW s \in Senders, SenderClearsAgent(s)
      PROVE  PlainTypes'
  BY <1>7, <1>0, <1>a, <1>b DEF SenderClearsAgent, boxVars, runVars, counters, RunOnly
<1>8. ASSUME RunBegins
      PROVE  PlainTypes'
  BY <1>8, <1>0, <1>a, <1>b DEF RunBegins, boxVars, runVars, counters, RunOnly
<1>9. ASSUME RunDelivers
      PROVE  PlainTypes'
  BY <1>9, <1>0, <1>a, <1>b DEF RunDelivers, boxVars, runVars, counters, RunOnly
<1>10. ASSUME RunPollsFirst
       PROVE  PlainTypes'
  BY <1>10, <1>0, <1>a, <1>b DEF RunPollsFirst, boxVars, runVars, counters, RunOnly
<1>11. ASSUME RunTurn
       PROVE  PlainTypes'
  BY <1>11, <1>0, <1>a, <1>b DEF RunTurn, Control, boxVars, runVars, counters, RunOnly
<1>12. ASSUME RunDrains
       PROVE  PlainTypes'
  BY <1>12, <1>0, <1>a, <1>b DEF RunDrains, boxVars, runVars, counters, RunOnly
<1>13. ASSUME RunSends
       PROVE  PlainTypes'
  BY <1>13, <1>0, <1>a, <1>b DEF RunSends, boxVars, runVars, counters, RunOnly
<1>14. ASSUME RunFlushed
       PROVE  PlainTypes'
  BY <1>14, <1>0, <1>a, <1>b DEF RunFlushed, boxVars, runVars, counters, RunOnly
<1>15. ASSUME RunPolls
       PROVE  PlainTypes'
  BY <1>15, <1>0, <1>a, <1>b DEF RunPolls, boxVars, runVars, counters, RunOnly
<1>16. ASSUME RunPollsFollowUp
       PROVE  PlainTypes'
  BY <1>16, <1>0, <1>a, <1>b DEF RunPollsFollowUp, boxVars, runVars, counters, RunOnly
<1>17. ASSUME RunRestores
       PROVE  PlainTypes'
  BY <1>17, <1>0, <1>a, <1>b, <1>d DEF RunRestores, boxVars, runVars, counters, RunOnly
<1>18. ASSUME RunRemoves
       PROVE  PlainTypes'
  BY <1>18, <1>0, <1>a, <1>b DEF RunRemoves, boxVars, runVars, counters, RunOnly
<1>19. ASSUME RunFails
       PROVE  PlainTypes'
  BY <1>19, <1>0, <1>a, <1>b DEF RunFails, boxVars, runVars, counters, RunOnly
<1>20. ASSUME RunFinishes
       PROVE  PlainTypes'
  BY <1>20, <1>0, <1>a, <1>b DEF RunFinishes, boxVars, runVars, counters, RunOnly
<1>21. ASSUME Shutdown
       PROVE  PlainTypes'
  BY <1>21, <1>0, <1>a, <1>b DEF Shutdown, boxVars, runVars, counters, RunOnly
<1>22. ASSUME Dispose
       PROVE  PlainTypes'
  BY <1>22, <1>0, <1>a, <1>b DEF Dispose, boxVars, runVars, counters, RunOnly
<1>23. CASE UNCHANGED vars
  BY <1>23, <1>0 DEF vars, boxVars, runVars, counters
<1> QED
  BY <1>1, <1>2, <1>3, <1>4, <1>5, <1>6, <1>7, <1>8, <1>9, <1>10, <1>11, <1>12, <1>13, <1>14,
     <1>15, <1>16, <1>17, <1>18, <1>19, <1>20, <1>21, <1>22, <1>23 DEF Next, SenderStep, RunStep

\* What a sender holds are messages.
LEMMA SenderStepTypes ==
    ASSUME TypeOK, [Next]_vars
    PROVE  SenderTypes'
<1> USE DEF SenderTypes
<1>0. SeqTypes /\ PlainTypes /\ SenderTypes
  BY TypeParts DEF SenderTypes
<1>b. "steering" \in Kinds /\ "follow_up" \in Kinds
  BY DEF Kinds
<1>1. ASSUME NEW s \in Senders, NEW k \in Kinds, SenderEnqueues(s, k)
      PROVE  SenderTypes'
  BY <1>1, <1>0, SeqFacts DEF SenderEnqueues
<1>2. ASSUME NEW s \in Senders, SenderChecks(s)
      PROVE  SenderTypes'
  BY <1>2, <1>0 DEF SenderChecks, At
<1>3. ASSUME NEW s \in Senders, SenderDrains(s)
      PROVE  SenderTypes'
  <2>1. Drained(items[sender[s].kind]) \in Seq(Message)
    BY <1>0, DrainFacts DEF SeqTypes
  <2> QED
    BY <1>3, <1>0, <2>1 DEF SenderDrains
<1>4. ASSUME NEW s \in Senders, SenderSends(s)
      PROVE  SenderTypes'
  <2>1. sender[s].hand # <<>> => Tail(sender[s].hand) \in Seq(Message)
    BY <1>0, SeqFacts
  <2> QED
    BY <1>4, <1>0, <2>1 DEF SenderSends, At
<1>5. ASSUME NEW s \in Senders, SenderClears(s)
      PROVE  SenderTypes'
  BY <1>5, <1>0, <1>b, SeqFacts DEF SenderClears
<1>6. ASSUME NEW s \in Senders, SenderClearsFollowUp(s)
      PROVE  SenderTypes'
  BY <1>6, <1>0, <1>b DEF SenderClearsFollowUp
<1>7. ASSUME NEW s \in Senders, SenderClearsAgent(s)
      PROVE  SenderTypes'
  BY <1>7, <1>0, <1>b, SeqFacts DEF SenderClearsAgent, Resting
<1>8. ASSUME RunBegins
      PROVE  SenderTypes'
  BY <1>8, <1>0 DEF RunBegins, boxVars, runVars, counters, RunOnly
<1>9. ASSUME RunDelivers
      PROVE  SenderTypes'
  BY <1>9, <1>0 DEF RunDelivers, boxVars, runVars, counters, RunOnly
<1>10. ASSUME RunPollsFirst
       PROVE  SenderTypes'
  BY <1>10, <1>0 DEF RunPollsFirst, boxVars, runVars, counters, RunOnly
<1>11. ASSUME RunTurn
       PROVE  SenderTypes'
  BY <1>11, <1>0 DEF RunTurn, boxVars, runVars, counters, RunOnly
<1>12. ASSUME RunDrains
       PROVE  SenderTypes'
  BY <1>12, <1>0 DEF RunDrains, boxVars, runVars, counters, RunOnly
<1>13. ASSUME RunSends
       PROVE  SenderTypes'
  BY <1>13, <1>0 DEF RunSends, boxVars, runVars, counters, RunOnly
<1>14. ASSUME RunFlushed
       PROVE  SenderTypes'
  BY <1>14, <1>0 DEF RunFlushed, boxVars, runVars, counters, RunOnly
<1>15. ASSUME RunPolls
       PROVE  SenderTypes'
  BY <1>15, <1>0 DEF RunPolls, boxVars, runVars, counters, RunOnly
<1>16. ASSUME RunPollsFollowUp
       PROVE  SenderTypes'
  BY <1>16, <1>0 DEF RunPollsFollowUp, boxVars, runVars, counters, RunOnly
<1>17. ASSUME RunRestores
       PROVE  SenderTypes'
  BY <1>17, <1>0 DEF RunRestores, boxVars, runVars, counters, RunOnly
<1>18. ASSUME RunRemoves
       PROVE  SenderTypes'
  BY <1>18, <1>0 DEF RunRemoves, boxVars, runVars, counters, RunOnly
<1>19. ASSUME RunFails
       PROVE  SenderTypes'
  BY <1>19, <1>0 DEF RunFails, boxVars, runVars, counters, RunOnly
<1>20. ASSUME RunFinishes
       PROVE  SenderTypes'
  BY <1>20, <1>0 DEF RunFinishes, boxVars, runVars, counters, RunOnly
<1>21. ASSUME Shutdown
       PROVE  SenderTypes'
  BY <1>21, <1>0 DEF Shutdown, boxVars, runVars, counters, RunOnly
<1>22. ASSUME Dispose
       PROVE  SenderTypes'
  BY <1>22, <1>0 DEF Dispose, boxVars, runVars, counters, RunOnly
<1>23. CASE UNCHANGED vars
  BY <1>23, <1>0 DEF vars, boxVars, runVars, counters
<1> QED
  BY <1>1, <1>2, <1>3, <1>4, <1>5, <1>6, <1>7, <1>8, <1>9, <1>10, <1>11, <1>12, <1>13, <1>14,
     <1>15, <1>16, <1>17, <1>18, <1>19, <1>20, <1>21, <1>22, <1>23 DEF Next, SenderStep, RunStep

-----------------------------------------------------------------------------
(* Where messages are.                                                     *)

\* The operations on queues keep the kind of the messages.
LEMMA OfKindFacts ==
    ASSUME NEW k
    PROVE  /\ OfKind(<<>>, k)
           /\ \A q \in Seq(Message), m \in Message : OfKind(q, k) /\ m.kind = k
                  => OfKind(Append(q, m), k)
           /\ \A p, q \in Seq(Message) : OfKind(p, k) /\ OfKind(q, k) => OfKind(p \o q, k)
           /\ \A q \in Seq(Message) : OfKind(q, k) /\ q # <<>> => Head(q).kind = k
                  /\ OfKind(Tail(q), k)
           /\ \A q \in Seq(Message) : OfKind(q, k) => OfKind(Drained(q), k) /\ OfKind(Left(q), k)
           /\ \A q \in Seq(Message) : \A S : OfKind(q, k) => OfKind(Without(q, S), k)
<1>1. OfKind(<<>>, k)
  BY SeqFacts DEF OfKind
<1>2. \A q \in Seq(Message), m \in Message : OfKind(q, k) /\ m.kind = k => OfKind(Append(q, m), k)
  BY AppendElements DEF OfKind
<1>3. \A p, q \in Seq(Message) : OfKind(p, k) /\ OfKind(q, k) => OfKind(p \o q, k)
  BY ConcatFacts DEF OfKind
<1>4. \A q \in Seq(Message) : OfKind(q, k) /\ q # <<>> => Head(q).kind = k /\ OfKind(Tail(q), k)
  BY TailFacts DEF OfKind
<1>5. \A q \in Seq(Message) : OfKind(q, k) => OfKind(Drained(q), k) /\ OfKind(Left(q), k)
  BY DrainFacts DEF OfKind
<1>6. \A q \in Seq(Message) : \A S : OfKind(q, k) => OfKind(Without(q, S), k)
  BY WithoutFacts DEF OfKind
<1> QED
  BY <1>1, <1>2, <1>3, <1>4, <1>5, <1>6

\* A message is in the queue of its kind.
LEMMA KindedStep ==
    ASSUME TypeOK, Kinded, Control, [Next]_vars
    PROVE  Kinded'
<1>0. SeqTypes /\ PlainTypes /\ SenderTypes
  BY TypeParts
<1>a. \A k \in Kinds : /\ items[k] \in Seq(Message) /\ inflight[k] \in Seq(Message)
                       /\ queue[k] \in Seq(Message)
  BY <1>0 DEF SeqTypes
<1>b. "steering" \in Kinds /\ "follow_up" \in Kinds /\ at \in Kinds
      /\ \A s \in Senders : sender[s].kind \in Kinds /\ sender[s].hand \in Seq(Message)
  BY <1>0 DEF Kinds, PlainTypes, SenderTypes

<1>f. items \in [Kinds -> Seq(Message)] /\ inflight \in [Kinds -> Seq(Message)]
      /\ queue \in [Kinds -> Seq(Message)] /\ hand \in Seq(Message)
  BY <1>0 DEF SeqTypes
<1>k. \A k \in Kinds : OfKind(items[k], k) /\ OfKind(inflight[k], k) /\ OfKind(queue[k], k)
  BY DEF Kinded
<1>i. ASSUME UNCHANGED <<items, inflight, queue, hand, at>>,
             \A s \in Senders : OfKind(sender'[s].hand, sender'[s].kind)
      PROVE  Kinded'
  BY <1>i DEF Kinded, OfKind
<1>q. ASSUME UNCHANGED <<items, inflight, hand, at, sender>>,
             queue' = queue \/ \E k \in Kinds : queue' = [queue EXCEPT ![k] = Left(@)]
      PROVE  Kinded'
  <2>1. \A j \in Kinds : OfKind(queue'[j], j)
    <3>1. CASE queue' = queue
      BY <1>k, <3>1
    <3>2. ASSUME NEW k \in Kinds, queue' = [queue EXCEPT ![k] = Left(@)]
          PROVE  \A j \in Kinds : OfKind(queue'[j], j)
      <4>1. OfKind(Left(queue[k]), k)
        BY <1>a, <1>k, OfKindFacts
      <4> QED
        BY <1>f, <1>k, <3>2, <4>1
    <3> QED
      BY <1>q, <3>1, <3>2
  <2> QED
    BY <1>q, <2>1 DEF Kinded, OfKind
<1>d. ASSUME NEW k \in Kinds, Drain(k)
      PROVE  /\ \A j \in Kinds : OfKind(items'[j], j) /\ OfKind(inflight'[j], j)
             /\ OfKind(Drained(items[k]), k)
  <2>1. /\ OfKind(Left(items[k]), k) /\ OfKind(Drained(items[k]), k)
        /\ Drained(items[k]) \in Seq(Message)
    BY <1>a, <1>k, OfKindFacts, DrainFacts
  <2>2. OfKind(inflight[k] \o Drained(items[k]), k)
    BY <1>a, <1>k, <2>1, OfKindFacts
  <2> QED
    BY <1>d, <1>f, <1>k, <2>1, <2>2 DEF Drain
<1>l. ASSUME NEW k \in Kinds, Clear(k)
      PROVE  \A j \in Kinds : OfKind(items'[j], j) /\ OfKind(inflight'[j], j)
  BY <1>l, <1>f, <1>k, OfKindFacts DEF Clear
<1>1. ASSUME NEW s \in Senders, NEW k \in Kinds, SenderEnqueues(s, k)
      PROVE  Kinded'
  <2> DEFINE m == [kind |-> k, n |-> sent + 1]
  <2>1. m \in Message /\ m.kind = k
    BY <1>1, <1>0, MessageForm, MailboxAssumption DEF SenderEnqueues, PlainTypes
  <2>2. /\ items' = [items EXCEPT ![k] = Append(@, m)] /\ UNCHANGED <<inflight, queue, hand, at>>
        /\ sender' = [sender EXCEPT ![s] = [pc |-> "check", kind |-> k, hand |-> <<>>]]
    BY <1>1, <2>1 DEF SenderEnqueues, Enqueue, runVars
  <2> HIDE DEF m
  <2>3. \A j \in Kinds : OfKind(items'[j], j)
    BY <1>f, <1>k, <2>1, <2>2, OfKindFacts
  <2>4. \A t \in Senders : OfKind(sender'[t].hand, sender'[t].kind)
    BY <1>0, <2>2, OfKindFacts DEF Kinded, SenderTypes
  <2> QED
    BY <2>2, <2>3, <2>4 DEF Kinded, OfKind
<1>2. ASSUME NEW s \in Senders, SenderChecks(s)
      PROVE  Kinded'
  <2>1. \A t \in Senders : sender'[t].hand = sender[t].hand /\ sender'[t].kind = sender[t].kind
    BY <1>2, <1>0 DEF SenderChecks, At, SenderTypes
  <2>2. UNCHANGED <<items, inflight, queue, hand, at>>
    BY <1>2 DEF SenderChecks, boxVars, runVars
  <2> QED
    BY <1>i, <2>1, <2>2 DEF Kinded
<1>3. ASSUME NEW s \in Senders, SenderDrains(s)
      PROVE  Kinded'
  <2>1. /\ Drain(sender[s].kind) /\ UNCHANGED <<queue, hand, at>>
        /\ sender' = [sender EXCEPT ![s].pc = "send", ![s].hand = Drained(items[sender[s].kind])]
    BY <1>3 DEF SenderDrains, runVars
  <2>2. /\ \A j \in Kinds : OfKind(items'[j], j) /\ OfKind(inflight'[j], j)
        /\ OfKind(Drained(items[sender[s].kind]), sender[s].kind)
    BY <1>b, <1>d, <2>1
  <2>3. \A t \in Senders : OfKind(sender'[t].hand, sender'[t].kind)
    BY <1>0, <2>1, <2>2 DEF Kinded, SenderTypes
  <2> QED
    BY <2>1, <2>2, <2>3 DEF Kinded, OfKind
<1>4. ASSUME NEW s \in Senders, SenderSends(s)
      PROVE  Kinded'
  <2>1. CASE sender[s].hand = <<>>
    <3>1. \A t \in Senders : sender'[t].hand = sender[t].hand /\ sender'[t].kind = sender[t].kind
      BY <1>4, <1>0, <2>1 DEF SenderSends, At, SenderTypes
    <3>2. UNCHANGED <<items, inflight, queue, hand, at>>
      BY <1>4, <2>1 DEF SenderSends, boxVars, runVars
    <3> QED
      BY <1>i, <3>1, <3>2 DEF Kinded
  <2>2. CASE sender[s].hand # <<>>
    <3>1. /\ queue' = [queue EXCEPT ![sender[s].kind] = Append(@, Head(sender[s].hand))]
          /\ sender' = [sender EXCEPT ![s].hand = Tail(@)]
          /\ UNCHANGED <<items, inflight, hand, at>>
      BY <1>4, <2>2 DEF SenderSends, boxVars, runVars
    <3>2. /\ Head(sender[s].hand).kind = sender[s].kind
                 /\ OfKind(Tail(sender[s].hand), sender[s].kind)
          /\ Head(sender[s].hand) \in Message
      <4>1. OfKind(sender[s].hand, sender[s].kind) /\ sender[s].hand \in Seq(Message)
        BY <1>b DEF Kinded
      <4>2. Head(sender[s].hand).kind = sender[s].kind
                /\ OfKind(Tail(sender[s].hand), sender[s].kind)
        BY <2>2, <4>1, OfKindFacts
      <4> QED
        BY <2>2, <4>1, <4>2, SeqFacts
    <3>3. \A j \in Kinds : OfKind(queue'[j], j)
      BY <1>b, <1>f, <1>k, <3>1, <3>2, OfKindFacts
    <3>4. \A t \in Senders : OfKind(sender'[t].hand, sender'[t].kind)
      BY <1>0, <3>1, <3>2 DEF Kinded, SenderTypes
    <3> QED
      BY <3>1, <3>3, <3>4 DEF Kinded, OfKind
  <2> QED
    BY <2>1, <2>2
<1>5. ASSUME NEW s \in Senders, SenderClears(s)
      PROVE  Kinded'
  <2>1. /\ Clear("steering") /\ UNCHANGED <<queue, hand, at>>
        /\ sender' = [sender EXCEPT ![s] = [pc |-> "clear", kind |-> "follow_up", hand |-> <<>>]]
    BY <1>5 DEF SenderClears, runVars
  <2>2. \A t \in Senders : OfKind(sender'[t].hand, sender'[t].kind)
    BY <1>0, <2>1, OfKindFacts DEF Kinded, SenderTypes
  <2>3. \A j \in Kinds : OfKind(items'[j], j) /\ OfKind(inflight'[j], j)
    BY <1>b, <1>l, <2>1
  <2> QED
    BY <2>1, <2>2, <2>3 DEF Kinded, OfKind
<1>6. ASSUME NEW s \in Senders, SenderClearsFollowUp(s)
      PROVE  Kinded'
  <2>1. /\ Clear("follow_up") /\ UNCHANGED <<queue, hand, at>>
        /\ sender' = [sender EXCEPT ![s].pc = "clear_agent", ![s].kind = "steering"]
        /\ sender[s].hand = <<>>
    BY <1>6 DEF SenderClearsFollowUp, runVars, Control
  <2>2. \A t \in Senders : OfKind(sender'[t].hand, sender'[t].kind)
    BY <1>0, <2>1, OfKindFacts DEF Kinded, SenderTypes
  <2>3. \A j \in Kinds : OfKind(items'[j], j) /\ OfKind(inflight'[j], j)
    BY <1>b, <1>l, <2>1
  <2> QED
    BY <2>1, <2>2, <2>3 DEF Kinded, OfKind
<1>7. ASSUME NEW s \in Senders, SenderClearsAgent(s)
      PROVE  Kinded'
  <2>1. /\ queue' = [queue EXCEPT ![sender[s].kind] = <<>>]
               /\ UNCHANGED <<items, inflight, hand, at>>
        /\ \A t \in Senders : t # s => sender'[t] = sender[t]
        /\ sender'[s].hand = <<>>
    BY <1>7, <1>0 DEF SenderClearsAgent, boxVars, runVars, Control, SenderTypes, Resting
  <2>2. \A t \in Senders : OfKind(sender'[t].hand, sender'[t].kind)
    BY <2>1, OfKindFacts DEF Kinded
  <2>3. \A j \in Kinds : OfKind(queue'[j], j)
    BY <1>f, <1>k, <2>1, OfKindFacts
  <2> QED
    BY <2>1, <2>2, <2>3 DEF Kinded, OfKind
<1>8. ASSUME RunBegins
      PROVE  Kinded'
  <2>1. /\ UNCHANGED <<items, inflight, hand, at, sender>>
        /\ queue' = queue \/ \E k \in Kinds : queue' = [queue EXCEPT ![k] = Left(@)]
    BY <1>8, <1>b DEF RunBegins, boxVars, runVars, counters, RunOnly
  <2> QED
    BY <1>q, <2>1
<1>9. ASSUME RunDelivers
      PROVE  Kinded'
  <2>1. UNCHANGED <<items, queue, hand, at, sender>>
    BY <1>9 DEF RunDelivers, Acknowledge, boxVars, RunOnly
  <2>2. \A j \in Kinds : OfKind(inflight'[j], j)
    <3>1. \A j \in Kinds : OfKind(Without(inflight[j], {Head(pending).n}), j)
      BY <1>a, <1>k, OfKindFacts
    <3> QED
      BY <1>9, <1>f, <1>k, <3>1 DEF RunDelivers, Acknowledge, boxVars
  <2> QED
    BY <2>1, <2>2 DEF Kinded, OfKind
<1>10. ASSUME RunPollsFirst
       PROVE  Kinded'
  <2>1. /\ UNCHANGED <<items, inflight, hand, at, sender>>
        /\ queue' = queue \/ \E k \in Kinds : queue' = [queue EXCEPT ![k] = Left(@)]
    BY <1>10, <1>b DEF RunPollsFirst, boxVars, runVars, counters, RunOnly
  <2> QED
    BY <1>q, <2>1
<1>11. ASSUME RunTurn
       PROVE  Kinded'
  <2>1. UNCHANGED <<items, inflight, queue, hand, sender>> /\ hand = <<>>
    BY <1>11 DEF RunTurn, boxVars, RunOnly, Control
  <2>2. OfKind(hand', at')
    BY <2>1, OfKindFacts
  <2> QED
    BY <2>1, <2>2 DEF Kinded, OfKind
<1>12. ASSUME RunDrains
       PROVE  Kinded'
  <2>1. Drain(at) /\ hand' = Drained(items[at]) /\ UNCHANGED <<queue, at, sender>>
    BY <1>12 DEF RunDrains, RunOnly
  <2>2. /\ \A j \in Kinds : OfKind(items'[j], j) /\ OfKind(inflight'[j], j)
        /\ OfKind(Drained(items[at]), at)
    BY <1>b, <1>d, <2>1
  <2> QED
    BY <2>1, <2>2 DEF Kinded, OfKind
<1>13. ASSUME RunSends
       PROVE  Kinded'
  <2>1. /\ queue' = [queue EXCEPT ![at] = Append(@, Head(hand))] /\ hand' = Tail(hand)
               /\ hand # <<>>
        /\ UNCHANGED <<items, inflight, at, sender>>
    BY <1>13 DEF RunSends, boxVars, RunOnly
  <2>2. Head(hand).kind = at /\ OfKind(Tail(hand), at) /\ Head(hand) \in Message
    BY <1>f, <2>1, OfKindFacts, SeqFacts DEF Kinded
  <2>3. \A j \in Kinds : OfKind(queue'[j], j)
    BY <1>b, <1>f, <1>k, <2>1, <2>2, OfKindFacts
  <2> QED
    BY <2>1, <2>2, <2>3 DEF Kinded, OfKind
<1>14. ASSUME RunFlushed
       PROVE  Kinded'
  <2>1. UNCHANGED <<items, inflight, queue, hand, sender>> /\ hand = <<>>
    BY <1>14 DEF RunFlushed, boxVars, RunOnly
  <2>2. OfKind(hand', at')
    BY <2>1, OfKindFacts
  <2> QED
    BY <2>1, <2>2 DEF Kinded, OfKind
<1>15. ASSUME RunPolls
       PROVE  Kinded'
  <2>1. /\ UNCHANGED <<items, inflight, hand, at, sender>>
        /\ queue' = queue \/ \E k \in Kinds : queue' = [queue EXCEPT ![k] = Left(@)]
    BY <1>15, <1>b DEF RunPolls, boxVars, runVars, counters, RunOnly
  <2> QED
    BY <1>q, <2>1
<1>16. ASSUME RunPollsFollowUp
       PROVE  Kinded'
  <2>1. /\ UNCHANGED <<items, inflight, hand, at, sender>>
        /\ queue' = queue \/ \E k \in Kinds : queue' = [queue EXCEPT ![k] = Left(@)]
    BY <1>16, <1>b DEF RunPollsFollowUp, boxVars, runVars, counters, RunOnly
  <2> QED
    BY <1>q, <2>1
<1>17. ASSUME RunRestores
       PROVE  Kinded'
  <2>1. UNCHANGED <<queue, hand, sender>> /\ hand = <<>>
    BY <1>17 DEF RunRestores, RunOnly, Control
  <2>2. OfKind(hand', at')
    BY <2>1, OfKindFacts
  <2>3. \A j \in Kinds : OfKind(items'[j], j) /\ OfKind(inflight'[j], j)
    <3>1. \A j \in Kinds : OfKind(inflight[j] \o items[j], j) /\ OfKind(<<>>, j)
      BY <1>a, <1>k, OfKindFacts
    <3> QED
      BY <1>17, <1>k, <3>1 DEF RunRestores, RestoreUnacknowledged, boxVars
  <2> QED
    BY <2>1, <2>2, <2>3 DEF Kinded, OfKind
<1>18. ASSUME RunRemoves
       PROVE  Kinded'
  <2>1. UNCHANGED <<items, inflight, hand, sender>> /\ hand = <<>>
    BY <1>18 DEF RunRemoves, boxVars, RunOnly, Control
  <2>2. OfKind(hand', at')
    BY <2>1, OfKindFacts
  <2>3. \A j \in Kinds : OfKind(queue'[j], j)
    BY <1>18, <1>f, <1>k, OfKindFacts DEF RunRemoves
  <2> QED
    BY <2>1, <2>2, <2>3 DEF Kinded, OfKind
<1>19. ASSUME RunFails
       PROVE  Kinded'
  <2>1. UNCHANGED <<items, inflight, queue, hand, at, sender>>
    BY <1>19 DEF RunFails, boxVars, runVars, counters, RunOnly
  <2> QED
    BY <1>i, <2>1 DEF Kinded
<1>20. ASSUME RunFinishes
       PROVE  Kinded'
  <2>1. UNCHANGED <<items, inflight, queue, hand, sender>> /\ hand = <<>>
    BY <1>20 DEF RunFinishes, boxVars, RunOnly, Control
  <2>2. OfKind(hand', at')
    BY <2>1, OfKindFacts
  <2> QED
    BY <2>1, <2>2 DEF Kinded, OfKind
<1>21. ASSUME Shutdown
       PROVE  Kinded'
  <2>1. UNCHANGED <<items, inflight, queue, hand, at, sender>>
    BY <1>21 DEF Shutdown, boxVars, runVars, counters, RunOnly
  <2> QED
    BY <1>i, <2>1 DEF Kinded
<1>22. ASSUME Dispose
       PROVE  Kinded'
  <2>1. UNCHANGED <<items, inflight, queue, hand, at, sender>>
    BY <1>22 DEF Dispose, boxVars, runVars, counters, RunOnly
  <2> QED
    BY <1>i, <2>1 DEF Kinded
<1>23. CASE UNCHANGED vars
  BY <1>23, <1>0 DEF vars, boxVars, runVars, counters, Kinded, OfKind
<1> QED
  BY <1>1, <1>2, <1>3, <1>4, <1>5, <1>6, <1>7, <1>8, <1>9, <1>10, <1>11, <1>12, <1>13, <1>14,
     <1>15, <1>16, <1>17, <1>18, <1>19, <1>20, <1>21, <1>22, <1>23 DEF Next, SenderStep, RunStep

\* A thread holds messages only where it moves them, and that two did so at once is remembered.
LEMMA ControlStep ==
    ASSUME TypeOK, Control, [Next]_vars
    PROVE  Control'
<1>0. SeqTypes /\ PlainTypes /\ SenderTypes
  BY TypeParts
<1>c. (Overlap => crossed)'
  <2>1. CASE Next
    BY <2>1 DEF Next
  <2>2. CASE UNCHANGED vars
    BY <2>2 DEF vars, runVars, Control, Overlap, Holds, Clears, IsStreaming
  <2> QED
    BY <2>1, <2>2
<1>d. <<>> \in Seq(Message) /\ Drained(<<>>) = <<>>
  BY SeqFacts, DrainFacts
<1> USE DEF PlainTypes
<1>1. ASSUME NEW s \in Senders, NEW k \in Kinds, SenderEnqueues(s, k)
      PROVE  Control'
  BY <1>1, <1>0, <1>c, MailboxAssumption DEF SenderEnqueues, boxVars, runVars, counters,
     RunOnly, Control, SenderTypes, At, Resting
<1>2. ASSUME NEW s \in Senders, SenderChecks(s)
      PROVE  Control'
  BY <1>2, <1>0, <1>c, MailboxAssumption DEF SenderChecks, boxVars, runVars, counters, RunOnly,
     Control, SenderTypes, At, Resting
<1>3. ASSUME NEW s \in Senders, SenderDrains(s)
      PROVE  Control'
  BY <1>3, <1>0, <1>c, MailboxAssumption DEF SenderDrains, boxVars, runVars, counters, RunOnly,
     Control, SenderTypes, At, Resting
<1>4. ASSUME NEW s \in Senders, SenderSends(s)
      PROVE  Control'
  BY <1>4, <1>0, <1>c, MailboxAssumption DEF SenderSends, boxVars, runVars, counters, RunOnly,
     Control, SenderTypes, At, Resting
<1>5. ASSUME NEW s \in Senders, SenderClears(s)
      PROVE  Control'
  BY <1>5, <1>0, <1>c, MailboxAssumption DEF SenderClears, boxVars, runVars, counters, RunOnly,
     Control, SenderTypes, At, Resting
<1>6. ASSUME NEW s \in Senders, SenderClearsFollowUp(s)
      PROVE  Control'
  BY <1>6, <1>0, <1>c, MailboxAssumption DEF SenderClearsFollowUp, boxVars, runVars, counters,
     RunOnly, Control, SenderTypes, At, Resting
<1>7. ASSUME NEW s \in Senders, SenderClearsAgent(s)
      PROVE  Control'
  BY <1>7, <1>0, <1>c, MailboxAssumption DEF SenderClearsAgent, boxVars, runVars, counters,
     RunOnly, Control, SenderTypes, At, Resting
<1>8. ASSUME RunBegins
      PROVE  Control'
  BY <1>8, <1>0, <1>c, MailboxAssumption DEF RunBegins, boxVars, runVars, counters, RunOnly,
     Control, SenderTypes, At, Resting
<1>9. ASSUME RunDelivers
      PROVE  Control'
  BY <1>9, <1>0, <1>c, MailboxAssumption DEF RunDelivers, boxVars, runVars, counters, RunOnly,
     Control, SenderTypes, At, Resting
<1>10. ASSUME RunPollsFirst
       PROVE  Control'
  BY <1>10, <1>0, <1>c, MailboxAssumption DEF RunPollsFirst, boxVars, runVars, counters,
     RunOnly, Control, SenderTypes, At, Resting
<1>11. ASSUME RunTurn
       PROVE  Control'
  BY <1>11, <1>0, <1>c, MailboxAssumption DEF RunTurn, boxVars, runVars, counters, RunOnly,
     Control, SenderTypes, At, Resting
<1>12. ASSUME RunDrains
       PROVE  Control'
  BY <1>12, <1>0, <1>c, MailboxAssumption DEF RunDrains, boxVars, runVars, counters, RunOnly,
     Control, SenderTypes, At, Resting
<1>13. ASSUME RunSends
       PROVE  Control'
  BY <1>13, <1>0, <1>c, MailboxAssumption DEF RunSends, boxVars, runVars, counters, RunOnly,
     Control, SenderTypes, At, Resting
<1>14. ASSUME RunFlushed
       PROVE  Control'
  BY <1>14, <1>0, <1>c, MailboxAssumption DEF RunFlushed, boxVars, runVars, counters, RunOnly,
     Control, SenderTypes, At, Resting
<1>15. ASSUME RunPolls
       PROVE  Control'
  BY <1>15, <1>0, <1>c, <1>d, MailboxAssumption DEF RunPolls, boxVars, runVars, counters,
     RunOnly, Control
<1>16. ASSUME RunPollsFollowUp
       PROVE  Control'
  BY <1>16, <1>0, <1>c, <1>d, MailboxAssumption DEF RunPollsFollowUp, boxVars, runVars,
     counters, RunOnly, Control
<1>17. ASSUME RunRestores
       PROVE  Control'
  BY <1>17, <1>0, <1>c, MailboxAssumption DEF RunRestores, boxVars, runVars, counters, RunOnly,
     Control, SenderTypes, At, Resting
<1>18. ASSUME RunRemoves
       PROVE  Control'
  BY <1>18, <1>0, <1>c, MailboxAssumption DEF RunRemoves, boxVars, runVars, counters, RunOnly,
     Control, SenderTypes, At, Resting
<1>19. ASSUME RunFails
       PROVE  Control'
  BY <1>19, <1>0, <1>c, MailboxAssumption DEF RunFails, boxVars, runVars, counters, RunOnly,
     Control, SenderTypes, At, Resting
<1>20. ASSUME RunFinishes
       PROVE  Control'
  BY <1>20, <1>0, <1>c, MailboxAssumption DEF RunFinishes, boxVars, runVars, counters, RunOnly,
     Control, SenderTypes, At, Resting
<1>21. ASSUME Shutdown
       PROVE  Control'
  BY <1>21, <1>0, <1>c, MailboxAssumption DEF Shutdown, boxVars, runVars, counters, RunOnly,
     Control, SenderTypes, At, Resting
<1>22. ASSUME Dispose
       PROVE  Control'
  BY <1>22, <1>0, <1>c, MailboxAssumption DEF Dispose, boxVars, runVars, counters, RunOnly,
     Control, SenderTypes, At, Resting
<1>23. CASE UNCHANGED vars
  BY <1>23, <1>0 DEF vars, boxVars, runVars, counters, Control, Overlap, Holds, Clears,
     IsStreaming
<1> QED
  BY <1>1, <1>2, <1>3, <1>4, <1>5, <1>6, <1>7, <1>8, <1>9, <1>10, <1>11, <1>12, <1>13, <1>14,
     <1>15, <1>16, <1>17, <1>18, <1>19, <1>20, <1>21, <1>22, <1>23 DEF Next, SenderStep, RunStep

-----------------------------------------------------------------------------
(* What the operations do to the sets of messages.                         *)

LEMMA SameViews ==
    /\ items' = items => Items' = Items
    /\ inflight' = inflight => Inflight' = Inflight
    /\ queue' = queue => Queued' = Queued
    /\ (\A s \in Senders : sender'[s].hand = sender[s].hand) => Hands' = Hands
BY DEF Items, Inflight, Queued, Hands

\* One sender's hand changes.
LEMMA HandView ==
    ASSUME NEW s \in Senders, \A t \in Senders : t # s => sender'[t] = sender[t]
    PROVE  /\ Hands' \cup Elements(sender[s].hand) = Hands \cup Elements(sender'[s].hand)
           /\ sender[s].hand = <<>> => Hands' = Hands \cup Elements(sender'[s].hand)
<1>1. \A x : x \in Hands <=> \E t \in Senders : x \in Elements(sender[t].hand)
  BY DEF Hands
<1>2. \A x : x \in Hands' <=> \E t \in Senders : x \in Elements(sender'[t].hand)
  BY DEF Hands
<1>3. ASSUME NEW x \in Hands' PROVE x \in Hands \cup Elements(sender'[s].hand)
  BY <1>1, <1>2, <1>3
<1>4. ASSUME NEW x \in Hands PROVE x \in Hands' \cup Elements(sender[s].hand)
  BY <1>1, <1>2, <1>4
<1>5. Elements(sender[s].hand) \subseteq Hands /\ Elements(sender'[s].hand) \subseteq Hands'
  BY <1>1, <1>2
<1>6. Elements(<<>>) = {}
  BY SeqFacts
<1>7. Hands' \cup Elements(sender[s].hand) = Hands \cup Elements(sender'[s].hand)
  BY <1>3, <1>4, <1>5
<1>8. sender[s].hand = <<>> => Elements(sender[s].hand) = {}
  BY <1>6
<1> QED
  BY <1>7, <1>8

LEMMA BothKinds == \A k \in Kinds : k = "steering" \/ k = "follow_up"
BY DEF Kinds

LEMMA EnqueueView ==
    ASSUME SeqTypes, NEW m \in Message, Enqueue(m)
    PROVE  Items' = Items \cup {m} /\ Inflight' = Inflight
<1>1. \A k \in Kinds : items[k] \in Seq(Message)
  BY DEF SeqTypes
<1>2. \A k \in Kinds : Elements(items'[k]) = IF k = m.kind THEN Elements(items[k]) \cup {m}
                                             ELSE Elements(items[k])
  BY <1>1, AppendElements DEF Enqueue, SeqTypes
<1>3. m.kind \in Kinds /\ "steering" \in Kinds /\ "follow_up" \in Kinds
  BY MessageForm DEF Kinds
<1>4. Items' = Items \cup {m}
  BY <1>2, <1>3, BothKinds DEF Items
<1> QED
  BY <1>4, SameViews DEF Enqueue

LEMMA DrainView ==
    ASSUME SeqTypes, NEW k \in Kinds, Drain(k)
    PROVE  /\ Items = Items' \cup Elements(Drained(items[k]))
           /\ Inflight' = Inflight \cup Elements(Drained(items[k]))
<1>1. \A j \in Kinds : items[j] \in Seq(Message) /\ inflight[j] \in Seq(Message)
  BY DEF SeqTypes
<1>2. /\ Elements(items[k]) = Elements(Drained(items[k])) \cup Elements(Left(items[k]))
      /\ Elements(inflight[k] \o Drained(items[k])) =
             Elements(inflight[k]) \cup Elements(Drained(items[k]))
  BY <1>1, DrainFacts, ConcatFacts
<1>3. /\ items'[k] = Left(items[k]) /\ inflight'[k] = inflight[k] \o Drained(items[k])
      /\ \A j \in Kinds : j # k => items'[j] = items[j] /\ inflight'[j] = inflight[j]
  BY DEF Drain, SeqTypes
<1>4. CASE k = "steering"
  BY <1>2, <1>3, <1>4 DEF Items, Inflight, Kinds
<1>5. CASE k = "follow_up"
  BY <1>2, <1>3, <1>5 DEF Items, Inflight, Kinds
<1> QED
  BY <1>4, <1>5, BothKinds

LEMMA AcknowledgeView ==
    ASSUME SeqTypes, Kinded, NEW m \in Message, Acknowledge(m)
    PROVE  Items' = Items /\ Inflight' = Inflight \ {m}
<1>1. \A j \in Kinds : inflight[j] \in Seq(Message) /\ Elements(inflight[j]) \subseteq Message
                       /\ \A x \in Elements(inflight[j]) : x.kind = j
  BY SeqFacts DEF SeqTypes, Kinded, OfKind
<1>2. m.kind \in Kinds
  BY MessageForm
<1>3. Elements(Without(inflight[m.kind], {m.n})) = {x \in Elements(inflight[m.kind]) :
          x.n \notin {m.n}}
  BY <1>1, <1>2, WithoutFacts
<1>4. {x \in Elements(inflight[m.kind]) : x.n \notin {m.n}} = Elements(inflight[m.kind]) \ {m}
  BY <1>1, <1>2, MessageForm
<1>5. \A j \in Kinds : j # m.kind => inflight'[j] = inflight[j] /\ m \notin Elements(inflight[j])
  BY <1>1 DEF Acknowledge, SeqTypes
<1>6. Elements(inflight'[m.kind]) = Elements(inflight[m.kind]) \ {m}
  BY <1>2, <1>3, <1>4 DEF Acknowledge, SeqTypes
<1>7. \A j \in Kinds : Elements(inflight'[j]) = Elements(inflight[j]) \ {m}
  BY <1>5, <1>6
<1>8. Inflight' = Inflight \ {m}
  BY <1>7 DEF Inflight, Kinds
<1> QED
  BY <1>8, SameViews DEF Acknowledge

LEMMA RestoreView ==
    ASSUME SeqTypes, RestoreUnacknowledged
    PROVE  Items' = Items \cup Inflight /\ Inflight' = {}
<1>1. \A j \in Kinds :
          Elements(inflight[j] \o items[j]) = Elements(inflight[j]) \cup Elements(items[j])
  BY ConcatFacts DEF SeqTypes
<1>2. \A j \in Kinds : items'[j] = inflight[j] \o items[j] /\ inflight'[j] = <<>>
  BY DEF RestoreUnacknowledged
<1>3. \A j \in Kinds : Elements(items'[j]) = Elements(inflight[j]) \cup Elements(items[j])
                       /\ Elements(inflight'[j]) = {}
  BY <1>1, <1>2, SeqFacts
<1> QED
  BY <1>3 DEF Items, Inflight, Kinds

LEMMA ClearView ==
    ASSUME SeqTypes, Kinded, NEW k \in Kinds, Clear(k)
    PROVE  /\ Items' = {m \in Items : m.kind # k}
           /\ Inflight' = {m \in Inflight : m.kind # k}
           /\ cleared' = cleared \cup {m.n : m \in {x \in Items \cup Inflight : x.kind = k}}
<1>1. \A j \in Kinds : items[j] \in Seq(Message) /\ inflight[j] \in Seq(Message)
  BY DEF SeqTypes
<1>2. \A j \in Kinds : \A m \in Elements(items[j]) \cup Elements(inflight[j]) : m.kind = j
  BY DEF Kinded, OfKind
<1>3. Numbers(inflight[k] \o items[k]) = {m.n :
          m \in Elements(inflight[k]) \cup Elements(items[k])}
  BY <1>1, NumbersOf, ConcatFacts, SeqFacts
<1>4. /\ Elements(items'[k]) = {} /\ Elements(inflight'[k]) = {}
      /\ \A j \in Kinds : j # k => items'[j] = items[j] /\ inflight'[j] = inflight[j]
  BY SeqFacts DEF Clear, SeqTypes
<1>5. {x \in Items \cup Inflight : x.kind = k} = Elements(inflight[k]) \cup Elements(items[k])
  BY <1>2, BothKinds DEF Items, Inflight, Kinds
<1>6. Items' = {m \in Items : m.kind # k} /\ Inflight' = {m \in Inflight : m.kind # k}
  <2>1. CASE k = "steering"
    BY <1>2, <1>4, <2>1 DEF Items, Inflight, Kinds
  <2>2. CASE k = "follow_up"
    BY <1>2, <1>4, <2>2 DEF Items, Inflight, Kinds
  <2> QED
    BY <2>1, <2>2, BothKinds
<1> QED
  BY <1>3, <1>5, <1>6 DEF Clear

LEMMA SendView ==
    ASSUME SeqTypes, NEW k \in Kinds, NEW x, queue' = [queue EXCEPT ![k] = Append(@, x)]
    PROVE  Queued' = Queued \cup {x}
<1>1. Elements(queue'[k]) = Elements(queue[k]) \cup {x}
  BY AppendElements DEF SeqTypes
<1>2. \A j \in Kinds : j # k => queue'[j] = queue[j]
  BY DEF SeqTypes
<1> QED
  BY <1>1, <1>2, BothKinds DEF Queued, Kinds

LEMMA PollView ==
    ASSUME SeqTypes, NEW k \in Kinds, queue' = [queue EXCEPT ![k] = Left(@)]
    PROVE  Queued = Queued' \cup Elements(Drained(queue[k]))
<1>1. Elements(queue[k]) = Elements(queue'[k]) \cup Elements(Drained(queue[k]))
  BY DrainFacts DEF SeqTypes
<1>2. \A j \in Kinds : j # k => queue'[j] = queue[j]
  BY DEF SeqTypes
<1> QED
  BY <1>1, <1>2, BothKinds DEF Queued, Kinds

LEMMA RemoveView ==
    ASSUME SeqTypes, Kinded, NEW k \in Kinds, NEW S, queue' = [queue EXCEPT ![k] = Without(@, S)]
    PROVE  Queued' = {m \in Queued : m.kind # k \/ m.n \notin S}
<1>1. Elements(queue'[k]) = {m \in Elements(queue[k]) : m.n \notin S}
  BY WithoutFacts DEF SeqTypes
<1>2. \A j \in Kinds : j # k => queue'[j] = queue[j]
  BY DEF SeqTypes
<1>3. \A j \in Kinds : \A m \in Elements(queue[j]) : m.kind = j
  BY DEF Kinded, OfKind
<1>4. CASE k = "steering"
  BY <1>1, <1>2, <1>3, <1>4 DEF Queued, Kinds
<1>5. CASE k = "follow_up"
  BY <1>1, <1>2, <1>3, <1>5 DEF Queued, Kinds
<1> QED
  BY <1>4, <1>5, BothKinds

LEMMA EmptyView ==
    ASSUME SeqTypes, Kinded, NEW k \in Kinds, queue' = [queue EXCEPT ![k] = <<>>]
    PROVE  Queued' = {m \in Queued : m.kind # k}
<1>1. Elements(queue'[k]) = {}
  BY SeqFacts DEF SeqTypes
<1>2. \A j \in Kinds : j # k => queue'[j] = queue[j]
  BY DEF SeqTypes
<1>3. \A j \in Kinds : \A m \in Elements(queue[j]) : m.kind = j
  BY DEF Kinded, OfKind
<1>4. CASE k = "steering"
  BY <1>1, <1>2, <1>3, <1>4 DEF Queued, Kinds
<1>5. CASE k = "follow_up"
  BY <1>1, <1>2, <1>3, <1>5 DEF Queued, Kinds
<1> QED
  BY <1>4, <1>5, BothKinds

\* The messages are messages.
LEMMA ViewTypes ==
    ASSUME TypeOK
    PROVE  /\ Items \subseteq Message /\ Inflight \subseteq Message /\ Queued \subseteq Message
           /\ Elements(pending) \subseteq Message /\ Elements(hand) \subseteq Message
           /\ Hands \subseteq Message /\ Way \subseteq Message
                  /\ Elements(delivered) \subseteq Message
<1>0. SeqTypes /\ SenderTypes
  BY TypeParts
<1>1. /\ \A k \in Kinds : /\ Elements(items[k]) \subseteq Message
             /\ Elements(inflight[k]) \subseteq Message
                          /\ Elements(queue[k]) \subseteq Message
      /\ Elements(pending) \subseteq Message /\ Elements(hand) \subseteq Message
      /\ Elements(delivered) \subseteq Message
  BY <1>0, SeqFacts DEF SeqTypes
<1>2. \A s \in Senders : Elements(sender[s].hand) \subseteq Message
  BY <1>0, SeqFacts DEF SenderTypes
<1>3. Items \subseteq Message /\ Inflight \subseteq Message /\ Queued \subseteq Message
  BY <1>1 DEF Items, Inflight, Queued, Kinds
<1>4. Hands \subseteq Message
  BY <1>2 DEF Hands
<1> QED
  BY <1>1, <1>3, <1>4 DEF Way

-----------------------------------------------------------------------------
(* The steps, by what they do to the sets of messages.                     *)

Rest == delivered' = delivered /\ cleared' = cleared /\ sent' = sent
Box == Items \cup Inflight
Boxes == Items' = Items /\ Inflight' = Inflight

\* Nothing moves.
Still == Rest /\ Boxes /\ Queued' = Queued /\ Hands' = Hands /\ pending' = pending /\ hand' = hand

\* A message is sent.
SendMove(m) ==
    /\ m.n = sent + 1 /\ sent' = sent + 1 /\ delivered' = delivered /\ cleared' = cleared
    /\ Items' = Items \cup {m} /\ Inflight' = Inflight
    /\ Queued' = Queued /\ Hands' = Hands /\ pending' = pending /\ hand' = hand

\* The messages D leave the mailbox for the hand of a thread.
DrainMove(D) ==
    /\ Rest /\ Items = Items' \cup D /\ Inflight' = Inflight \cup D
    /\ Queued' = Queued /\ pending' = pending
    /\ \/ Hands' = Hands \cup D /\ hand' = hand
       \/ Hands' = Hands /\ Elements(hand') = D /\ hand = <<>>

\* A thread hands message x to the agent.
HandMove(x) ==
    /\ Rest /\ Boxes /\ Queued' = Queued \cup {x} /\ pending' = pending
    /\ \/ Hands = Hands' \cup {x} /\ hand' = hand
       \/ Hands' = Hands /\ Elements(hand) = Elements(hand') \cup {x}

\* The mailbox, or the agent's queue, loses the messages of kind k.
ClearMove(k) ==
    /\ Items' = {m \in Items : m.kind # k} /\ Inflight' = {m \in Inflight : m.kind # k}
    /\ cleared' = cleared \cup {m.n : m \in {x \in Box : x.kind = k}}
    /\ delivered' = delivered /\ sent' = sent
    /\ Queued' = Queued /\ Hands' = Hands /\ pending' = pending /\ hand' = hand
EmptyMove(k) ==
    /\ Rest /\ Boxes /\ Queued' = {m \in Queued : m.kind # k}
    /\ Hands' = Hands /\ pending' = pending /\ hand' = hand

\* The run takes the messages D from the agent's queue.
PollMove(D) ==
    /\ Rest /\ Boxes /\ Queued = Queued' \cup D /\ Hands' = Hands /\ hand' = hand
    /\ pending = <<>> /\ Elements(pending') = D

\* Message m is delivered.
DeliverMove(m) ==
    /\ pending # <<>> /\ m = Head(pending) /\ delivered' = Append(delivered, m)
    /\ Elements(delivered') = Elements(delivered) \cup {m}
    /\ pending' = Tail(pending) \/ pending' = <<>>
    /\ Elements(pending') \subseteq Elements(Tail(pending))
    /\ Elements(pending) = {m} \cup Elements(Tail(pending))
    /\ Items' = Items /\ Inflight' = IF subscribed THEN Inflight \ {m} ELSE Inflight
    /\ cleared' = cleared /\ sent' = sent
    /\ Queued' = Queued /\ Hands' = Hands /\ hand' = hand

\* What is inflight goes back to the mailbox; and is removed from the agent's queue of kind k.
RestoreMove ==
    /\ Rest /\ Items' = Items \cup Inflight /\ Inflight' = {}
    /\ Queued' = Queued /\ Hands' = Hands /\ pending' = pending /\ hand' = hand
RemoveMove(k) ==
    /\ Rest /\ Boxes /\ Queued' = {m \in Queued : m.kind # k \/ m.n \notin restored}
    /\ Hands' = Hands /\ pending' = pending /\ hand' = hand

LEMMA SenderChecksView ==
    ASSUME TypeOK, Kinded, Control, NEW s \in Senders, SenderChecks(s)
    PROVE  Still
<1>0. SeqTypes /\ PlainTypes /\ SenderTypes
  BY TypeParts
<1>1. UNCHANGED <<items, inflight, queue, pending, hand, delivered, cleared, sent>>
  BY DEF SenderChecks, boxVars, runVars, counters, RunOnly, Control
<1>2. \A t \in Senders : sender'[t].hand = sender[t].hand
  BY <1>0 DEF SenderChecks, boxVars, runVars, counters, RunOnly, SenderTypes, At
<1> QED
  BY <1>1, <1>2, SameViews DEF Still, Rest, Boxes

LEMMA RunTurnView ==
    ASSUME TypeOK, Kinded, Control, RunTurn
    PROVE  Still
<1>0. SeqTypes /\ PlainTypes /\ SenderTypes
  BY TypeParts
<1>1. UNCHANGED <<items, inflight, queue, pending, hand, delivered, cleared, sent>>
  BY DEF RunTurn, boxVars, runVars, counters, RunOnly, Control
<1>2. \A t \in Senders : sender'[t].hand = sender[t].hand
  BY <1>0 DEF RunTurn, boxVars, runVars, counters, RunOnly, SenderTypes, At
<1> QED
  BY <1>1, <1>2, SameViews DEF Still, Rest, Boxes

LEMMA RunFlushedView ==
    ASSUME TypeOK, Kinded, Control, RunFlushed
    PROVE  Still
<1>0. SeqTypes /\ PlainTypes /\ SenderTypes
  BY TypeParts
<1>1. UNCHANGED <<items, inflight, queue, pending, hand, delivered, cleared, sent>>
  BY DEF RunFlushed, boxVars, runVars, counters, RunOnly, Control
<1>2. \A t \in Senders : sender'[t].hand = sender[t].hand
  BY <1>0 DEF RunFlushed, boxVars, runVars, counters, RunOnly, SenderTypes, At
<1> QED
  BY <1>1, <1>2, SameViews DEF Still, Rest, Boxes

LEMMA RunFailsView ==
    ASSUME TypeOK, Kinded, Control, RunFails
    PROVE  Still
<1>0. SeqTypes /\ PlainTypes /\ SenderTypes
  BY TypeParts
<1>1. UNCHANGED <<items, inflight, queue, pending, hand, delivered, cleared, sent>>
  BY DEF RunFails, boxVars, runVars, counters, RunOnly, Control
<1>2. \A t \in Senders : sender'[t].hand = sender[t].hand
  BY <1>0 DEF RunFails, boxVars, runVars, counters, RunOnly, SenderTypes, At
<1> QED
  BY <1>1, <1>2, SameViews DEF Still, Rest, Boxes

LEMMA RunFinishesView ==
    ASSUME TypeOK, Kinded, Control, RunFinishes
    PROVE  Still
<1>0. SeqTypes /\ PlainTypes /\ SenderTypes
  BY TypeParts
<1>1. UNCHANGED <<items, inflight, queue, pending, hand, delivered, cleared, sent>>
  BY DEF RunFinishes, boxVars, runVars, counters, RunOnly, Control
<1>2. \A t \in Senders : sender'[t].hand = sender[t].hand
  BY <1>0 DEF RunFinishes, boxVars, runVars, counters, RunOnly, SenderTypes, At
<1> QED
  BY <1>1, <1>2, SameViews DEF Still, Rest, Boxes

LEMMA ShutdownView ==
    ASSUME TypeOK, Kinded, Control, Shutdown
    PROVE  Still
<1>0. SeqTypes /\ PlainTypes /\ SenderTypes
  BY TypeParts
<1>1. UNCHANGED <<items, inflight, queue, pending, hand, delivered, cleared, sent>>
  BY DEF Shutdown, boxVars, runVars, counters, RunOnly, Control
<1>2. \A t \in Senders : sender'[t].hand = sender[t].hand
  BY <1>0 DEF Shutdown, boxVars, runVars, counters, RunOnly, SenderTypes, At
<1> QED
  BY <1>1, <1>2, SameViews DEF Still, Rest, Boxes

LEMMA DisposeView ==
    ASSUME TypeOK, Kinded, Control, Dispose
    PROVE  Still
<1>0. SeqTypes /\ PlainTypes /\ SenderTypes
  BY TypeParts
<1>1. UNCHANGED <<items, inflight, queue, pending, hand, delivered, cleared, sent>>
  BY DEF Dispose, boxVars, runVars, counters, RunOnly, Control
<1>2. \A t \in Senders : sender'[t].hand = sender[t].hand
  BY <1>0 DEF Dispose, boxVars, runVars, counters, RunOnly, SenderTypes, At
<1> QED
  BY <1>1, <1>2, SameViews DEF Still, Rest, Boxes

LEMMA SenderEnqueuesView ==
    ASSUME TypeOK, Kinded, Control, NEW s \in Senders, NEW k \in Kinds, SenderEnqueues(s, k)
    PROVE  \E m \in Message : m.kind = k /\ SendMove(m) /\ Enqueue(m)
<1>0. SeqTypes /\ PlainTypes /\ SenderTypes
  BY TypeParts
<1> DEFINE m == [kind |-> k, n |-> sent + 1]
<1>1. m \in Message /\ m.kind = k /\ m.n = sent + 1
  BY <1>0, MessageForm, MailboxAssumption DEF SenderEnqueues, PlainTypes
<1>2. /\ Enqueue(m) /\ sent' = sent + 1
      /\ UNCHANGED <<queue, pending, hand, delivered, cleared>>
  BY DEF SenderEnqueues, runVars
<1>3. sender[s].hand = <<>> /\ sender'[s].hand = <<>> /\ \A t \in Senders : t # s
          => sender'[t] = sender[t]
  BY <1>0 DEF SenderEnqueues, SenderTypes, Control
<1> HIDE DEF m
<1>4. Items' = Items \cup {m} /\ Inflight' = Inflight
  BY <1>0, <1>1, <1>2, EnqueueView
<1>5. Hands' = Hands /\ Queued' = Queued
  BY <1>2, <1>3, SameViews
<1> QED
  BY <1>1, <1>2, <1>4, <1>5 DEF SendMove

LEMMA SenderDrainsView ==
    ASSUME TypeOK, Kinded, Control, NEW s \in Senders, SenderDrains(s)
    PROVE  /\ DrainMove(Elements(Drained(items[sender[s].kind])))
           /\ Hands' = Hands \cup Elements(Drained(items[sender[s].kind])) /\ hand' = hand
<1>0. SeqTypes /\ PlainTypes /\ SenderTypes
  BY TypeParts
<1>1. /\ sender[s].kind \in Kinds /\ Drain(sender[s].kind)
      /\ UNCHANGED <<queue, pending, hand, delivered, cleared, sent>>
  BY <1>0 DEF SenderDrains, SenderTypes, runVars, counters
<1>2. /\ sender[s].hand = <<>> /\ sender'[s].hand = Drained(items[sender[s].kind])
      /\ \A t \in Senders : t # s => sender'[t] = sender[t]
  BY <1>0 DEF SenderDrains, SenderTypes, Control
<1>3. Hands' = Hands \cup Elements(Drained(items[sender[s].kind]))
  BY <1>2, HandView
<1>4. /\ Items = Items' \cup Elements(Drained(items[sender[s].kind]))
      /\ Inflight' = Inflight \cup Elements(Drained(items[sender[s].kind]))
  BY <1>0, <1>1, DrainView
<1> QED
  BY <1>1, <1>3, <1>4, SameViews DEF DrainMove, Rest

LEMMA RunDrainsView ==
    ASSUME TypeOK, Kinded, Control, RunDrains
    PROVE  /\ DrainMove(Elements(Drained(items[at])))
           /\ Hands' = Hands /\ hand = <<>> /\ hand' = Drained(items[at])
<1>0. SeqTypes /\ PlainTypes /\ SenderTypes
  BY TypeParts
<1>1. /\ at \in Kinds /\ Drain(at) /\ hand' = Drained(items[at]) /\ hand = <<>>
      /\ UNCHANGED <<queue, pending, sender, delivered, cleared, sent>>
  BY <1>0 DEF RunDrains, RunOnly, PlainTypes, Control
<1>2. /\ Items = Items' \cup Elements(Drained(items[at]))
      /\ Inflight' = Inflight \cup Elements(Drained(items[at]))
  BY <1>0, <1>1, DrainView
<1> QED
  BY <1>1, <1>2, SameViews DEF DrainMove, Rest

LEMMA SenderSendsView ==
    ASSUME TypeOK, Kinded, Control, NEW s \in Senders, SenderSends(s)
    PROVE  /\ sender[s].hand = <<>> => Still
           /\ sender[s].hand # <<>> => /\ HandMove(Head(sender[s].hand)) /\ hand' = hand
                                       /\ Hands = Hands' \cup {Head(sender[s].hand)}
<1>0. SeqTypes /\ PlainTypes /\ SenderTypes
  BY TypeParts
<1>1. /\ sender[s].kind \in Kinds /\ sender[s].hand \in Seq(Message)
      /\ UNCHANGED <<items, inflight, pending, hand, delivered, cleared, sent>>
  BY <1>0 DEF SenderSends, SenderTypes, boxVars, runVars, counters
<1>2. CASE sender[s].hand = <<>>
  <2>1. queue' = queue /\ \A t \in Senders : sender'[t].hand = sender[t].hand
    BY <1>0, <1>2 DEF SenderSends, SenderTypes, At
  <2> QED
    BY <1>1, <1>2, <2>1, SameViews DEF Still, Rest, Boxes
<1>3. CASE sender[s].hand # <<>>
  <2>1. /\ queue' = [queue EXCEPT ![sender[s].kind] = Append(@, Head(sender[s].hand))]
        /\ sender'[s].hand = Tail(sender[s].hand)
        /\ \A t \in Senders : t # s => sender'[t] = sender[t]
    BY <1>0, <1>3 DEF SenderSends, SenderTypes
  <2>2. Queued' = Queued \cup {Head(sender[s].hand)}
    BY <1>0, <1>1, <2>1, SendView
  <2>3. Elements(sender[s].hand) = {Head(sender[s].hand)} \cup Elements(sender'[s].hand)
    BY <1>1, <1>3, <2>1, TailFacts
  <2>4. Hands' \cup Elements(sender[s].hand) = Hands \cup Elements(sender'[s].hand)
    BY <2>1, HandView
  <2>5. Elements(sender[s].hand) \subseteq Hands /\ Elements(sender'[s].hand) \subseteq Hands'
    BY DEF Hands
  <2>6. Hands = Hands' \cup {Head(sender[s].hand)}
    BY <2>3, <2>4, <2>5
  <2> QED
    BY <1>1, <1>3, <2>2, <2>6, SameViews DEF HandMove, Rest, Boxes
<1> QED
  BY <1>2, <1>3

LEMMA RunSendsView ==
    ASSUME TypeOK, Kinded, Control, RunSends
    PROVE  /\ HandMove(Head(hand)) /\ Hands' = Hands
           /\ Elements(hand) = Elements(hand') \cup {Head(hand)}
<1>0. SeqTypes /\ PlainTypes /\ SenderTypes
  BY TypeParts
<1>1. /\ at \in Kinds /\ hand \in Seq(Message) /\ hand # <<>> /\ hand' = Tail(hand)
      /\ queue' = [queue EXCEPT ![at] = Append(@, Head(hand))]
      /\ UNCHANGED <<items, inflight, pending, sender, delivered, cleared, sent>>
  BY <1>0 DEF RunSends, RunOnly, PlainTypes, SeqTypes, boxVars
<1>2. Queued' = Queued \cup {Head(hand)}
  BY <1>0, <1>1, SendView
<1>3. Elements(hand) = Elements(hand') \cup {Head(hand)}
  BY <1>1, TailFacts
<1> QED
  BY <1>1, <1>2, <1>3, SameViews DEF HandMove, Rest, Boxes

LEMMA SenderClearsView ==
    ASSUME TypeOK, Kinded, Control, NEW s \in Senders, SenderClears(s)
    PROVE  ClearMove("steering")
<1>0. SeqTypes /\ PlainTypes /\ SenderTypes
  BY TypeParts
<1>1. "steering" \in Kinds /\ Clear("steering")
          /\ UNCHANGED <<queue, pending, hand, delivered, sent>>
  BY DEF SenderClears, runVars, counters, Kinds
<1>2. \A t \in Senders : sender'[t].hand = sender[t].hand
  BY <1>0 DEF SenderClears, SenderTypes, Control
<1>3. /\ Items' = {m \in Items : m.kind # "steering"} /\ Inflight' = {m \in Inflight :
             m.kind # "steering"}
      /\ cleared' = cleared \cup {m.n : m \in {x \in Items \cup Inflight : x.kind = "steering"}}
  BY <1>0, <1>1, ClearView
<1> QED
  BY <1>1, <1>2, <1>3, SameViews DEF ClearMove, Box

LEMMA SenderClearsFollowUpView ==
    ASSUME TypeOK, Kinded, Control, NEW s \in Senders, SenderClearsFollowUp(s)
    PROVE  ClearMove("follow_up")
<1>0. SeqTypes /\ PlainTypes /\ SenderTypes
  BY TypeParts
<1>1. "follow_up" \in Kinds /\ Clear("follow_up")
          /\ UNCHANGED <<queue, pending, hand, delivered, sent>>
  BY DEF SenderClearsFollowUp, runVars, counters, Kinds
<1>2. \A t \in Senders : sender'[t].hand = sender[t].hand
  BY <1>0 DEF SenderClearsFollowUp, SenderTypes, Control
<1>3. /\ Items' = {m \in Items : m.kind # "follow_up"} /\ Inflight' = {m \in Inflight :
             m.kind # "follow_up"}
      /\ cleared' = cleared \cup {m.n : m \in {x \in Items \cup Inflight : x.kind = "follow_up"}}
  BY <1>0, <1>1, ClearView
<1> QED
  BY <1>1, <1>2, <1>3, SameViews DEF ClearMove, Box

LEMMA SenderClearsAgentView ==
    ASSUME TypeOK, Kinded, Control, NEW s \in Senders, SenderClearsAgent(s)
    PROVE  EmptyMove(sender[s].kind)
<1>0. SeqTypes /\ PlainTypes /\ SenderTypes
  BY TypeParts
<1>1. /\ sender[s].kind \in Kinds /\ queue' = [queue EXCEPT ![sender[s].kind] = <<>>]
      /\ UNCHANGED <<items, inflight, pending, hand, delivered, cleared, sent>>
  BY <1>0 DEF SenderClearsAgent, SenderTypes, boxVars, runVars, counters
<1>2. \A t \in Senders : sender'[t].hand = sender[t].hand
  BY <1>0 DEF SenderClearsAgent, SenderTypes, Control, Resting
<1>3. Queued' = {m \in Queued : m.kind # sender[s].kind}
  BY <1>0, <1>1, EmptyView
<1> QED
  BY <1>1, <1>2, <1>3, SameViews DEF EmptyMove, Rest, Boxes

LEMMA RunPollsFirstView ==
    ASSUME TypeOK, Kinded, Control, RunPollsFirst
    PROVE  PollMove(Elements(pending'))
<1>0. SeqTypes /\ PlainTypes /\ SenderTypes
  BY TypeParts
<1>1. /\ "steering" \in Kinds /\ queue' = [queue EXCEPT !["steering"] = Left(@)]
      /\ pending = <<>> /\ pending' = Drained(queue["steering"])
      /\ UNCHANGED <<items, inflight, hand, sender, delivered, cleared, sent>>
  BY DEF RunPollsFirst, RunOnly, boxVars, Control, Kinds
<1>2. Queued = Queued' \cup Elements(pending')
  BY <1>0, <1>1, PollView
<1> QED
  BY <1>1, <1>2, SameViews DEF PollMove, Rest, Boxes

LEMMA RunPollsView ==
    ASSUME TypeOK, Kinded, Control, RunPolls
    PROVE  PollMove(Elements(pending'))
<1>0. SeqTypes /\ PlainTypes /\ SenderTypes
  BY TypeParts
<1>1. /\ "steering" \in Kinds /\ queue' = [queue EXCEPT !["steering"] = Left(@)]
      /\ pending = <<>> /\ pending' = Drained(queue["steering"])
      /\ UNCHANGED <<items, inflight, hand, sender, delivered, cleared, sent>>
  BY DEF RunPolls, RunOnly, boxVars, Control, Kinds
<1>2. Queued = Queued' \cup Elements(pending')
  BY <1>0, <1>1, PollView
<1> QED
  BY <1>1, <1>2, SameViews DEF PollMove, Rest, Boxes

LEMMA RunPollsFollowUpView ==
    ASSUME TypeOK, Kinded, Control, RunPollsFollowUp
    PROVE  PollMove(Elements(pending'))
<1>0. SeqTypes /\ PlainTypes /\ SenderTypes
  BY TypeParts
<1>1. /\ "follow_up" \in Kinds /\ queue' = [queue EXCEPT !["follow_up"] = Left(@)]
      /\ pending = <<>> /\ pending' = Drained(queue["follow_up"])
      /\ UNCHANGED <<items, inflight, hand, sender, delivered, cleared, sent>>
  BY DEF RunPollsFollowUp, RunOnly, boxVars, Control, Kinds
<1>2. Queued = Queued' \cup Elements(pending')
  BY <1>0, <1>1, PollView
<1> QED
  BY <1>1, <1>2, SameViews DEF PollMove, Rest, Boxes

LEMMA RunBeginsView ==
    ASSUME TypeOK, Kinded, Control, RunBegins
    PROVE  Still \/ PollMove(Elements(pending'))
<1>0. SeqTypes /\ PlainTypes /\ SenderTypes
  BY TypeParts
<1>1. /\ UNCHANGED <<items, inflight, hand, sender, delivered, cleared, sent>> /\ pending = <<>>
      /\ "steering" \in Kinds /\ "follow_up" \in Kinds
  BY DEF RunBegins, RunOnly, boxVars, Control, Kinds
<1>2. CASE UNCHANGED <<queue, pending>>
  BY <1>1, <1>2, SameViews DEF Still, Rest, Boxes
<1>3. ASSUME NEW k \in Kinds, queue' = [queue EXCEPT ![k] = Left(@)], pending' = Drained(queue[k])
      PROVE  PollMove(Elements(pending'))
  <2>1. Queued = Queued' \cup Elements(pending')
    BY <1>0, <1>3, PollView
  <2> QED
    BY <1>1, <2>1, SameViews DEF PollMove, Rest, Boxes
<1> QED
  BY <1>1, <1>2, <1>3 DEF RunBegins

LEMMA RunDeliversView ==
    ASSUME TypeOK, Kinded, Control, RunDelivers
    PROVE  DeliverMove(Head(pending))
<1>0. SeqTypes /\ PlainTypes /\ SenderTypes
  BY TypeParts
<1>1. /\ pending \in Seq(Message) /\ pending # <<>> /\ delivered \in Seq(Message)
      /\ delivered' = Append(delivered, Head(pending))
      /\ UNCHANGED <<queue, hand, sender, cleared, sent>>
      /\ pending' = Tail(pending) \/ pending' = <<>>
  BY <1>0 DEF RunDelivers, RunOnly, SeqTypes
<1>2. Head(pending) \in Message
  BY <1>1, SeqFacts
<1>3. /\ Elements(delivered') = Elements(delivered) \cup {Head(pending)}
      /\ Elements(pending) = {Head(pending)} \cup Elements(Tail(pending))
  BY <1>1, TailFacts, AppendElements
<1>4. Elements(pending') \subseteq Elements(Tail(pending))
  BY <1>1, SeqFacts
<1>5. Items' = Items /\ Inflight' = IF subscribed THEN Inflight \ {Head(pending)} ELSE Inflight
  <2>1. CASE subscribed
    BY <1>0, <1>2, <2>1, AcknowledgeView DEF RunDelivers
  <2>2. CASE ~subscribed
    BY <2>2, SameViews DEF RunDelivers, boxVars
  <2> QED
    BY <2>1, <2>2
<1> QED
  BY <1>1, <1>3, <1>4, <1>5, SameViews DEF DeliverMove

LEMMA RunRestoresView ==
    ASSUME TypeOK, Kinded, Control, RunRestores
    PROVE  \/ Still /\ run' = "finish" /\ (subscribed => Inflight = {})
           \/ /\ RestoreMove /\ run' = "remove" /\ at' = "steering" /\ subscribed
              /\ restored' = {m.n : m \in Inflight}
<1>0. SeqTypes /\ PlainTypes /\ SenderTypes
  BY TypeParts
<1>1. UNCHANGED <<queue, pending, hand, sender, delivered, cleared, sent>>
  BY DEF RunRestores, RunOnly
<1>2. /\ inflight["steering"] \in Seq(Message) /\ inflight["follow_up"] \in Seq(Message)
      /\ Both(inflight) \in Seq(Message) /\ Elements(Both(inflight)) = Inflight
  BY <1>0, SeqFacts, ConcatFacts DEF SeqTypes, Kinds, Both, Inflight
<1>3. CASE subscribed /\ Both(inflight) # <<>>
  <2>1. RestoreUnacknowledged /\ run' = "remove" /\ at' = "steering"
            /\ restored' = Numbers(Both(inflight))
    BY <1>3 DEF RunRestores
  <2>2. Items' = Items \cup Inflight /\ Inflight' = {}
    BY <1>0, <2>1, RestoreView
  <2>3. restored' = {m.n : m \in Inflight}
    BY <1>2, <2>1, NumbersOf
  <2> QED
    BY <1>1, <1>3, <2>1, <2>2, <2>3, SameViews DEF RestoreMove, Rest
<1>4. CASE ~(subscribed /\ Both(inflight) # <<>>)
  <2>1. run' = "finish" /\ UNCHANGED <<items, inflight>>
    BY <1>4 DEF RunRestores, boxVars
  <2>2. subscribed => Inflight = {}
    BY <1>2, <1>4, SeqFacts
  <2> QED
    BY <1>1, <2>1, <2>2, SameViews DEF Still, Rest, Boxes
<1> QED
  BY <1>3, <1>4

LEMMA RunRemovesView ==
    ASSUME TypeOK, Kinded, Control, RunRemoves
    PROVE  RemoveMove(at)
<1>0. SeqTypes /\ PlainTypes /\ SenderTypes
  BY TypeParts
<1>1. /\ at \in Kinds /\ queue' = [queue EXCEPT ![at] = Without(@, restored)]
      /\ UNCHANGED <<items, inflight, hand, pending, sender, delivered, cleared, sent>>
  BY <1>0 DEF RunRemoves, RunOnly, boxVars, PlainTypes
<1>2. Queued' = {m \in Queued : m.kind # at \/ m.n \notin restored}
  BY <1>0, <1>1, RemoveView
<1> QED
  BY <1>1, <1>2, SameViews DEF RemoveMove, Rest, Boxes

-----------------------------------------------------------------------------
(* No message is lost, whatever the threads do.                            *)

\* Messages move between the mailbox and the agent, and some of the agent's are dropped.
Shift == Rest /\ Box' = Box /\ Way' \subseteq Way \cup Box
Moved ==
    \/ Shift
    \/ \E m \in Message : SendMove(m) /\ Way' = Way
    \/ \E k \in Kinds : ClearMove(k) /\ Way' = Way
    \/ DeliverMove(Head(pending)) /\ Head(pending) \in Way /\ Way' \subseteq Way

LEMMA ShiftMoves ==
    ASSUME \/ Still \/ RestoreMove
           \/ \E D : DrainMove(D) \/ PollMove(D)
           \/ \E x : HandMove(x)
           \/ \E k : EmptyMove(k) \/ RemoveMove(k)
    PROVE  Shift
<1>0. Elements(<<>>) = {}
  BY SeqFacts
<1>1. CASE Still
  BY <1>1 DEF Still, Shift, Boxes, Box, Way
<1>2. CASE RestoreMove
  BY <1>2 DEF RestoreMove, Shift, Box, Way
<1>3. ASSUME NEW D, DrainMove(D) PROVE Shift
  BY <1>0, <1>3 DEF DrainMove, Shift, Box, Way
<1>4. ASSUME NEW D, PollMove(D) PROVE Shift
  BY <1>0, <1>4 DEF PollMove, Shift, Boxes, Box, Way
<1>5. ASSUME NEW x, HandMove(x) PROVE Shift
  BY <1>5 DEF HandMove, Shift, Boxes, Box, Way
<1>6. ASSUME NEW k, EmptyMove(k) PROVE Shift
  BY <1>6 DEF EmptyMove, Shift, Boxes, Box, Way
<1>7. ASSUME NEW k, RemoveMove(k) PROVE Shift
  BY <1>7 DEF RemoveMove, Shift, Boxes, Box, Way
<1> QED
  BY <1>1, <1>2, <1>3, <1>4, <1>5, <1>6, <1>7

\* Every step moves messages in one of these ways.
LEMMA StepMoves ==
    ASSUME TypeOK, Kinded, Control, [Next]_vars
    PROVE  Moved
<1>1. ASSUME NEW s \in Senders, NEW k \in Kinds, SenderEnqueues(s, k)
      PROVE  Moved
  BY <1>1, SenderEnqueuesView DEF SendMove, Way, Moved
<1>2. ASSUME NEW s \in Senders, SenderChecks(s)
      PROVE  Moved
  BY <1>2, SenderChecksView, ShiftMoves DEF Moved
<1>3. ASSUME NEW s \in Senders, SenderDrains(s)
      PROVE  Moved
  BY <1>3, SenderDrainsView, ShiftMoves DEF Moved
<1>4. ASSUME NEW s \in Senders, SenderSends(s)
      PROVE  Moved
  BY <1>4, SenderSendsView, ShiftMoves DEF Moved
<1>5. ASSUME NEW s \in Senders, SenderClears(s)
      PROVE  Moved
  BY <1>5, SenderClearsView DEF ClearMove, Way, Moved, Kinds
<1>6. ASSUME NEW s \in Senders, SenderClearsFollowUp(s)
      PROVE  Moved
  BY <1>6, SenderClearsFollowUpView DEF ClearMove, Way, Moved, Kinds
<1>7. ASSUME NEW s \in Senders, SenderClearsAgent(s)
      PROVE  Moved
  BY <1>7, SenderClearsAgentView, ShiftMoves DEF Moved
<1>8. ASSUME RunBegins
      PROVE  Moved
  BY <1>8, RunBeginsView, ShiftMoves DEF Moved
<1>9. ASSUME RunDelivers
      PROVE  Moved
  <2>1. DeliverMove(Head(pending))
    BY <1>9, RunDeliversView
  <2>2. Head(pending) \in Way /\ Way' \subseteq Way
    BY <2>1 DEF DeliverMove, Way
  <2> QED
    BY <2>1, <2>2 DEF Moved
<1>10. ASSUME RunPollsFirst
       PROVE  Moved
  BY <1>10, RunPollsFirstView, ShiftMoves DEF Moved
<1>11. ASSUME RunTurn
       PROVE  Moved
  BY <1>11, RunTurnView, ShiftMoves DEF Moved
<1>12. ASSUME RunDrains
       PROVE  Moved
  BY <1>12, RunDrainsView, ShiftMoves DEF Moved
<1>13. ASSUME RunSends
       PROVE  Moved
  BY <1>13, RunSendsView, ShiftMoves DEF Moved
<1>14. ASSUME RunFlushed
       PROVE  Moved
  BY <1>14, RunFlushedView, ShiftMoves DEF Moved
<1>15. ASSUME RunPolls
       PROVE  Moved
  BY <1>15, RunPollsView, ShiftMoves DEF Moved
<1>16. ASSUME RunPollsFollowUp
       PROVE  Moved
  BY <1>16, RunPollsFollowUpView, ShiftMoves DEF Moved
<1>17. ASSUME RunRestores
       PROVE  Moved
  BY <1>17, RunRestoresView, ShiftMoves DEF Moved
<1>18. ASSUME RunRemoves
       PROVE  Moved
  BY <1>18, RunRemovesView, ShiftMoves DEF Moved
<1>19. ASSUME RunFails
       PROVE  Moved
  BY <1>19, RunFailsView, ShiftMoves DEF Moved
<1>20. ASSUME RunFinishes
       PROVE  Moved
  BY <1>20, RunFinishesView, ShiftMoves DEF Moved
<1>21. ASSUME Shutdown
       PROVE  Moved
  BY <1>21, ShutdownView, ShiftMoves DEF Moved
<1>22. ASSUME Dispose
       PROVE  Moved
  BY <1>22, DisposeView, ShiftMoves DEF Moved
<1>23. CASE UNCHANGED vars
  BY <1>23 DEF vars, boxVars, runVars, counters, Moved, Shift, Rest, Box, Items, Inflight, Way,
     Queued, Hands
<1> QED
  BY <1>1, <1>2, <1>3, <1>4, <1>5, <1>6, <1>7, <1>8, <1>9, <1>10, <1>11, <1>12, <1>13, <1>14,
     <1>15, <1>16, <1>17, <1>18, <1>19, <1>20, <1>21, <1>22, <1>23 DEF Next, SenderStep, RunStep

\* Numbers stay unique, and what is cleared is not in the mailbox.
LEMMA KnownStep ==
    ASSUME TypeOK, Known, Moved
    PROVE  Known'
<1>0. /\ Box \subseteq Message /\ Way \subseteq Message /\ Elements(delivered) \subseteq Message
      /\ sent \in Nat /\ cleared \subseteq Nat
      /\ \A m \in Message : m.n \in Nat
  BY ViewTypes, MessageForm, MailboxAssumption DEF TypeOK, Box
<1>1. /\ \A m \in Box \cup Way \cup Elements(delivered) : m.n <= sent
      /\ \A a, b \in Box \cup Way : a.n = b.n => a = b
      /\ \A n \in cleared : n <= sent
      /\ \A m \in Box : m.n \notin cleared
  BY DEF Known, Box
<1>2. SUFFICES /\ \A m \in Box' \cup Way' \cup Elements(delivered') : m.n <= sent'
               /\ \A a, b \in Box' \cup Way' : a.n = b.n => a = b
               /\ \A n \in cleared' : n <= sent'
               /\ \A m \in Box' : m.n \notin cleared'
  BY DEF Known, Box
<1>3. CASE Shift
  BY <1>1, <1>3 DEF Shift, Rest
<1>4. ASSUME NEW m \in Message, SendMove(m), Way' = Way
      PROVE  /\ \A x \in Box' \cup Way' \cup Elements(delivered') : x.n <= sent'
             /\ \A a, b \in Box' \cup Way' : a.n = b.n => a = b
             /\ \A n \in cleared' : n <= sent'
             /\ \A x \in Box' : x.n \notin cleared'
  <2>1. /\ Box' = Box \cup {m} /\ m.n = sent + 1 /\ sent' = sent + 1
        /\ delivered' = delivered /\ cleared' = cleared
    BY <1>4 DEF SendMove, Box
  <2>2. \A x \in Box \cup Way \cup Elements(delivered) : x.n \in Nat /\ x.n <= sent
    BY <1>0, <1>1
  <2>3. \A x \in Box' \cup Way' \cup Elements(delivered') : x.n <= sent'
    BY <1>0, <1>4, <2>1, <2>2
  <2>4. \A a, b \in Box' \cup Way' : a.n = b.n => a = b
    <3> SUFFICES ASSUME NEW a \in Box' \cup Way', NEW b \in Box' \cup Way', a.n = b.n PROVE a = b
      OBVIOUS
    <3>1. a \in Box \cup Way \/ a = m
      BY <1>4, <2>1
    <3>2. b \in Box \cup Way \/ b = m
      BY <1>4, <2>1
    <3>3. \A x \in Box \cup Way : x.n # m.n
      BY <1>0, <2>1, <2>2
    <3> QED
      BY <1>1, <3>1, <3>2, <3>3
  <2>5. \A n \in cleared' : n \in Nat /\ n <= sent
    BY <1>0, <1>1, <2>1
  <2>6. \A x \in Box' : x.n \notin cleared'
    BY <1>0, <1>1, <2>1, <2>5
  <2> QED
    BY <1>0, <2>1, <2>3, <2>4, <2>5, <2>6
<1>5. ASSUME NEW k \in Kinds, ClearMove(k), Way' = Way
      PROVE  /\ \A x \in Box' \cup Way' \cup Elements(delivered') : x.n <= sent'
             /\ \A a, b \in Box' \cup Way' : a.n = b.n => a = b
             /\ \A n \in cleared' : n <= sent'
             /\ \A x \in Box' : x.n \notin cleared'
  <2>1. /\ Box' = {x \in Box : x.kind # k} /\ sent' = sent /\ delivered' = delivered
        /\ cleared' = cleared \cup {x.n : x \in {y \in Box : y.kind = k}}
    BY <1>5 DEF ClearMove, Box
  <2>2. \A n \in cleared' : n \in cleared \/ \E x \in Box : x.kind = k /\ n = x.n
    BY <2>1
  <2>3. \A x \in Box' : x.n \notin cleared'
    BY <1>1, <2>1, <2>2
  <2> QED
    BY <1>1, <1>5, <2>1, <2>2, <2>3
<1>6. ASSUME DeliverMove(Head(pending)), Head(pending) \in Way, Way' \subseteq Way
      PROVE  /\ \A x \in Box' \cup Way' \cup Elements(delivered') : x.n <= sent'
             /\ \A a, b \in Box' \cup Way' : a.n = b.n => a = b
             /\ \A n \in cleared' : n <= sent'
             /\ \A x \in Box' : x.n \notin cleared'
  <2>1. /\ Box' \subseteq Box /\ sent' = sent /\ cleared' = cleared
        /\ Elements(delivered') = Elements(delivered) \cup {Head(pending)}
    BY <1>6 DEF DeliverMove, Box
  <2> QED
    BY <1>1, <1>6, <2>1
<1> QED
  BY <1>3, <1>4, <1>5, <1>6 DEF Moved

\* What is in two pairs of queues, as numbers.
LEMMA BothNumbers ==
    ASSUME NEW p \in [Kinds -> Seq(Message)], NEW q \in [Kinds -> Seq(Message)]
    PROVE  Numbers(Both(p) \o Both(q)) =
               {m.n : m \in (Elements(p["steering"]) \cup Elements(p["follow_up"]))
                            \cup (Elements(q["steering"]) \cup Elements(q["follow_up"]))}
<1>0. /\ p["steering"] \in Seq(Message) /\ p["follow_up"] \in Seq(Message)
      /\ q["steering"] \in Seq(Message) /\ q["follow_up"] \in Seq(Message)
  BY DEF Kinds
<1>1. /\ Both(p) \in Seq(Message)
      /\ Elements(Both(p)) = Elements(p["steering"]) \cup Elements(p["follow_up"])
      /\ Both(q) \in Seq(Message)
      /\ Elements(Both(q)) = Elements(q["steering"]) \cup Elements(q["follow_up"])
  BY <1>0, SeqFacts, ConcatFacts DEF Both
<1>2. /\ Both(p) \o Both(q) \in Seq(Message)
      /\ Elements(Both(p) \o Both(q)) = Elements(Both(p)) \cup Elements(Both(q))
  BY <1>1, SeqFacts, ConcatFacts
<1>3. Numbers(Both(p) \o Both(q)) = {m.n : m \in Elements(Both(p) \o Both(q))}
  BY <1>2, NumbersOf
<1> QED
  BY <1>1, <1>2, <1>3

\* A delivered message left the mailbox before or leaves it now; the others stay.
LEMMA NothingLostStep ==
    ASSUME TypeOK, TypeOK', Known, NothingLost, Moved
    PROVE  NothingLost'
<1>0. /\ Way \subseteq Message /\ sent \in Nat
      /\ \A m \in Message : m.n \in Nat /\ 1 <= m.n
  <2>1. Way \subseteq Message /\ \A m \in Message : m.n \in 1..MaxMessages
    BY ViewTypes, MessageForm
  <2>2. sent \in Nat
    BY MailboxAssumption DEF TypeOK
  <2> QED
    BY <2>1, <2>2, MailboxAssumption
<1>1. \A n : n \in 1..sent <=> \/ \E m \in Box : m.n = n
                               \/ \E m \in Elements(delivered) : m.n = n
                               \/ n \in cleared
  <2>1. InMailbox = {m.n : m \in Box} /\ Numbers(delivered) = {m.n : m \in Elements(delivered)}
    BY BothNumbers, NumbersOf DEF InMailbox, Box, Items, Inflight, TypeOK
  <2> QED
    BY <2>1 DEF NothingLost
<1> DEFINE Kept == \A n : n \in 1..sent' <=> \/ \E m \in Box' : m.n = n
                                             \/ \E m \in Elements(delivered') : m.n = n
                                             \/ n \in cleared'
<1>2. Kept => NothingLost'
  <2>1. /\ InMailbox' = {m.n : m \in Box'}
        /\ Numbers(delivered') = {m.n : m \in Elements(delivered')}
    BY BothNumbers, NumbersOf DEF InMailbox, Box, Items, Inflight, TypeOK
  <2>2. Kept => 1..sent' = {m.n : m \in Box'} \cup {m.n :
            m \in Elements(delivered')} \cup cleared'
    OBVIOUS
  <2> QED
    BY <2>1, <2>2 DEF NothingLost
<1>3. CASE Shift
  BY <1>1, <1>2, <1>3 DEF Shift, Rest
<1>4. ASSUME NEW m \in Message, SendMove(m) PROVE Kept
  <2>1. /\ Box' = Box \cup {m} /\ m.n = sent + 1 /\ sent' = sent + 1
        /\ delivered' = delivered /\ cleared' = cleared
    BY <1>4 DEF SendMove, Box
  <2>2. \A n : n \in 1..sent' <=> n \in 1..sent \/ n = sent + 1
    BY <1>0, <2>1
  <2> QED
    BY <1>1, <2>1, <2>2
<1>5. ASSUME NEW k \in Kinds, ClearMove(k) PROVE Kept
  <2>1. /\ Box' = {x \in Box : x.kind # k} /\ sent' = sent /\ delivered' = delivered
        /\ \A n : n \in cleared' <=> n \in cleared \/ \E x \in Box : x.kind = k /\ x.n = n
    BY <1>5 DEF ClearMove, Box
  <2>2. \A n : (\E x \in Box : x.n = n) <=>
                 (\E x \in Box' : x.n = n) \/ (\E x \in Box : x.kind = k /\ x.n = n)
    BY <2>1
  <2> QED
    BY <1>1, <2>1, <2>2
<1>6. ASSUME DeliverMove(Head(pending)), Head(pending) \in Way PROVE Kept
  <2>1. /\ Box' \subseteq Box /\ Box \subseteq Box' \cup {Head(pending)}
        /\ sent' = sent /\ cleared' = cleared
        /\ Elements(delivered') = Elements(delivered) \cup {Head(pending)}
    BY <1>6 DEF DeliverMove, Box
  <2>2. Head(pending).n \in 1..sent
    BY <1>0, <1>6 DEF Known
  <2> QED
    BY <1>1, <2>1, <2>2
<1> QED
  BY <1>2, <1>3, <1>4, <1>5, <1>6 DEF Moved

-----------------------------------------------------------------------------
(* The order within the mailbox.                                           *)

LEMMA BeforeFacts ==
    /\ \A A, B, C : Before(A, B) /\ Before(A, C) <=> Before(A, B \cup C)
    /\ \A A, B, C : Before(A, C) /\ Before(B, C) <=> Before(A \cup B, C)
    /\ \A A, B, C, D : Before(A, B) /\ C \subseteq A /\ D \subseteq B => Before(C, D)
    /\ \A A : Before(A, {}) /\ Before({}, A)
BY DEF Before

\* A message that is sent now comes after all others.
LEMMA NewestLast ==
    ASSUME TypeOK, Known, NEW m, m.n = sent + 1
    PROVE  Before(Box \cup Way \cup Elements(delivered), {m})
<1>1. \A x \in Box \cup Way \cup Elements(delivered) : x.n \in Nat /\ x.n <= sent
  BY ViewTypes, MessageForm DEF Known, Box
<1>2. sent \in Nat
  BY MailboxAssumption DEF TypeOK
<1> QED
  BY <1>1, <1>2 DEF Before

LEMMA EnqueueMailbox ==
    ASSUME TypeOK, Known, Mailbox, NEW m \in Message, m.n = sent + 1, Enqueue(m)
    PROVE  Mailbox'
<1>1. SUFFICES ASSUME NEW k \in Kinds
               PROVE  /\ Sorted(items'[k]) /\ Sorted(inflight'[k])
                      /\ Before(Elements(inflight'[k]), Elements(items'[k]))
  BY DEF Mailbox
<1>2. /\ Sorted(items[k]) /\ Sorted(inflight[k]) /\ items[k] \in Seq(Message)
      /\ Before(Elements(inflight[k]), Elements(items[k]))
  BY DEF Mailbox, TypeOK
<1>3. inflight' = inflight /\ items'[k] = IF k = m.kind THEN Append(items[k], m) ELSE items[k]
  BY DEF Enqueue, TypeOK
<1>4. Before(Elements(items[k]), {m}) /\ Before(Elements(inflight[k]), {m})
  <2>1. Elements(items[k]) \subseteq Box /\ Elements(inflight[k]) \subseteq Box
    BY BothKinds DEF Box, Items, Inflight
  <2>2. Before(Box, {m})
    BY NewestLast, BeforeFacts
  <2> QED
    BY <2>1, <2>2, BeforeFacts
<1>5. Sorted(Append(items[k], m)) /\ Elements(Append(items[k], m)) = Elements(items[k]) \cup {m}
  BY <1>2, <1>4, AppendSorted, AppendElements
<1> QED
  BY <1>2, <1>3, <1>4, <1>5, BeforeFacts

LEMMA DrainMailbox ==
    ASSUME TypeOK, Mailbox, NEW k \in Kinds, Drain(k)
    PROVE  Mailbox'
<1>1. SUFFICES ASSUME NEW j \in Kinds
               PROVE  /\ Sorted(items'[j]) /\ Sorted(inflight'[j])
                      /\ Before(Elements(inflight'[j]), Elements(items'[j]))
  BY DEF Mailbox
<1>2. /\ Sorted(items[j]) /\ Sorted(inflight[j])
      /\ items[j] \in Seq(Message) /\ inflight[j] \in Seq(Message)
      /\ Before(Elements(inflight[j]), Elements(items[j]))
  BY DEF Mailbox, TypeOK
<1>3. CASE j = k
  <2>1. items'[j] = Left(items[j]) /\ inflight'[j] = inflight[j] \o Drained(items[j])
    BY <1>3 DEF Drain, TypeOK
  <2>2. /\ Drained(items[j]) \in Seq(Message) /\ Sorted(Drained(items[j]))
               /\ Sorted(Left(items[j]))
        /\ Elements(items[j]) = Elements(Drained(items[j])) \cup Elements(Left(items[j]))
        /\ Before(Elements(Drained(items[j])), Elements(Left(items[j])))
    BY <1>2, DrainFacts
  <2>3. /\ Before(Elements(inflight[j]), Elements(Drained(items[j])))
        /\ Before(Elements(inflight[j]), Elements(Left(items[j])))
    BY <1>2, <2>2, BeforeFacts
  <2>4. /\ Sorted(inflight[j] \o Drained(items[j]))
        /\ Elements(inflight[j] \o Drained(items[j])) =
               Elements(inflight[j]) \cup Elements(Drained(items[j]))
    BY <1>2, <2>2, <2>3, ConcatFacts
  <2> QED
    BY <2>1, <2>2, <2>3, <2>4, BeforeFacts
<1>4. CASE j # k
  BY <1>2, <1>4 DEF Drain, TypeOK
<1> QED
  BY <1>3, <1>4

LEMMA AcknowledgeMailbox ==
    ASSUME TypeOK, Mailbox, NEW m \in Message, Acknowledge(m)
    PROVE  Mailbox'
<1>1. SUFFICES ASSUME NEW j \in Kinds
               PROVE  /\ Sorted(items'[j]) /\ Sorted(inflight'[j])
                      /\ Before(Elements(inflight'[j]), Elements(items'[j]))
  BY DEF Mailbox
<1>2. /\ Sorted(items[j]) /\ Sorted(inflight[j]) /\ inflight[j] \in Seq(Message)
      /\ Before(Elements(inflight[j]), Elements(items[j]))
  BY DEF Mailbox, TypeOK
<1>3. items' = items
          /\ inflight'[j] = IF j = m.kind THEN Without(inflight[j], {m.n}) ELSE inflight[j]
  BY DEF Acknowledge, TypeOK
<1>4. /\ Sorted(Without(inflight[j], {m.n}))
      /\ Elements(Without(inflight[j], {m.n})) \subseteq Elements(inflight[j])
  BY <1>2, WithoutFacts
<1>5. Before(Elements(Without(inflight[j], {m.n})), Elements(items[j]))
  BY <1>2, <1>4 DEF Before
<1> QED
  BY <1>2, <1>3, <1>4, <1>5

LEMMA RestoreMailbox ==
    ASSUME TypeOK, Mailbox, RestoreUnacknowledged
    PROVE  Mailbox'
<1>1. SUFFICES ASSUME NEW j \in Kinds
               PROVE  /\ Sorted(items'[j]) /\ Sorted(inflight'[j])
                      /\ Before(Elements(inflight'[j]), Elements(items'[j]))
  BY DEF Mailbox
<1>2. /\ Sorted(items[j]) /\ Sorted(inflight[j])
      /\ items[j] \in Seq(Message) /\ inflight[j] \in Seq(Message)
      /\ Before(Elements(inflight[j]), Elements(items[j]))
  BY DEF Mailbox, TypeOK
<1>3. items'[j] = inflight[j] \o items[j] /\ inflight'[j] = <<>>
  BY DEF RestoreUnacknowledged
<1>4. Sorted(inflight[j] \o items[j])
  BY <1>2, ConcatFacts
<1> QED
  BY <1>3, <1>4, SeqFacts, BeforeFacts

LEMMA ClearMailbox ==
    ASSUME TypeOK, Mailbox, NEW k \in Kinds, Clear(k)
    PROVE  Mailbox'
<1>1. SUFFICES ASSUME NEW j \in Kinds
               PROVE  /\ Sorted(items'[j]) /\ Sorted(inflight'[j])
                      /\ Before(Elements(inflight'[j]), Elements(items'[j]))
  BY DEF Mailbox
<1>2. \/ items'[j] = <<>> /\ inflight'[j] = <<>>
      \/ items'[j] = items[j] /\ inflight'[j] = inflight[j]
  BY DEF Clear, TypeOK
<1> QED
  BY <1>2, SeqFacts, BeforeFacts DEF Mailbox

\* The mailbox keeps the order in which messages were sent.
LEMMA MailboxStep ==
    ASSUME TypeOK, Kinded, Control, Known, Mailbox, [Next]_vars
    PROVE  Mailbox'
<1>0. SeqTypes /\ PlainTypes /\ SenderTypes
  BY TypeParts
<1>1. ASSUME NEW s \in Senders, NEW k \in Kinds, SenderEnqueues(s, k)
      PROVE  Mailbox'
  <2>1. PICK m \in Message : m.kind = k /\ SendMove(m) /\ Enqueue(m)
    BY <1>1, SenderEnqueuesView
  <2> QED
    BY <2>1, EnqueueMailbox DEF SendMove
<1>2. ASSUME NEW s \in Senders, SenderChecks(s)
      PROVE  Mailbox'
  <2>1. items' = items /\ inflight' = inflight
    BY <1>2 DEF SenderChecks, boxVars, runVars, counters, RunOnly
  <2> QED
    BY <2>1 DEF Mailbox
<1>3. ASSUME NEW s \in Senders, SenderDrains(s)
      PROVE  Mailbox'
  BY <1>0, <1>3, DrainMailbox DEF SenderDrains, SenderTypes
<1>4. ASSUME NEW s \in Senders, SenderSends(s)
      PROVE  Mailbox'
  <2>1. items' = items /\ inflight' = inflight
    BY <1>4 DEF SenderSends, boxVars, runVars, counters, RunOnly
  <2> QED
    BY <2>1 DEF Mailbox
<1>5. ASSUME NEW s \in Senders, SenderClears(s)
      PROVE  Mailbox'
  BY <1>5, ClearMailbox DEF SenderClears, Kinds
<1>6. ASSUME NEW s \in Senders, SenderClearsFollowUp(s)
      PROVE  Mailbox'
  BY <1>6, ClearMailbox DEF SenderClearsFollowUp, Kinds
<1>7. ASSUME NEW s \in Senders, SenderClearsAgent(s)
      PROVE  Mailbox'
  <2>1. items' = items /\ inflight' = inflight
    BY <1>7 DEF SenderClearsAgent, boxVars, runVars, counters, RunOnly
  <2> QED
    BY <2>1 DEF Mailbox
<1>8. ASSUME RunBegins
      PROVE  Mailbox'
  <2>1. items' = items /\ inflight' = inflight
    BY <1>8 DEF RunBegins, boxVars, runVars, counters, RunOnly
  <2> QED
    BY <2>1 DEF Mailbox
<1>9. ASSUME RunDelivers
      PROVE  Mailbox'
  <2>1. Head(pending) \in Message
    BY <1>0, <1>9, SeqFacts DEF RunDelivers, SeqTypes
  <2>2. CASE subscribed
    BY <1>9, <2>1, <2>2, AcknowledgeMailbox DEF RunDelivers
  <2>3. CASE ~subscribed
    BY <1>9, <2>3 DEF RunDelivers, boxVars, Mailbox
  <2> QED
    BY <2>2, <2>3
<1>10. ASSUME RunPollsFirst
       PROVE  Mailbox'
  <2>1. items' = items /\ inflight' = inflight
    BY <1>10 DEF RunPollsFirst, boxVars, runVars, counters, RunOnly
  <2> QED
    BY <2>1 DEF Mailbox
<1>11. ASSUME RunTurn
       PROVE  Mailbox'
  <2>1. items' = items /\ inflight' = inflight
    BY <1>11 DEF RunTurn, boxVars, runVars, counters, RunOnly
  <2> QED
    BY <2>1 DEF Mailbox
<1>12. ASSUME RunDrains
       PROVE  Mailbox'
  BY <1>0, <1>12, DrainMailbox DEF RunDrains, PlainTypes
<1>13. ASSUME RunSends
       PROVE  Mailbox'
  <2>1. items' = items /\ inflight' = inflight
    BY <1>13 DEF RunSends, boxVars, runVars, counters, RunOnly
  <2> QED
    BY <2>1 DEF Mailbox
<1>14. ASSUME RunFlushed
       PROVE  Mailbox'
  <2>1. items' = items /\ inflight' = inflight
    BY <1>14 DEF RunFlushed, boxVars, runVars, counters, RunOnly
  <2> QED
    BY <2>1 DEF Mailbox
<1>15. ASSUME RunPolls
       PROVE  Mailbox'
  <2>1. items' = items /\ inflight' = inflight
    BY <1>15 DEF RunPolls, boxVars, runVars, counters, RunOnly
  <2> QED
    BY <2>1 DEF Mailbox
<1>16. ASSUME RunPollsFollowUp
       PROVE  Mailbox'
  <2>1. items' = items /\ inflight' = inflight
    BY <1>16 DEF RunPollsFollowUp, boxVars, runVars, counters, RunOnly
  <2> QED
    BY <2>1 DEF Mailbox
<1>17. ASSUME RunRestores
       PROVE  Mailbox'
  <2>1. CASE subscribed /\ Both(inflight) # <<>>
    BY <1>17, <2>1, RestoreMailbox DEF RunRestores
  <2>2. CASE ~(subscribed /\ Both(inflight) # <<>>)
    BY <1>17, <2>2 DEF RunRestores, boxVars, Mailbox
  <2> QED
    BY <2>1, <2>2
<1>18. ASSUME RunRemoves
       PROVE  Mailbox'
  <2>1. items' = items /\ inflight' = inflight
    BY <1>18 DEF RunRemoves, boxVars, runVars, counters, RunOnly
  <2> QED
    BY <2>1 DEF Mailbox
<1>19. ASSUME RunFails
       PROVE  Mailbox'
  <2>1. items' = items /\ inflight' = inflight
    BY <1>19 DEF RunFails, boxVars, runVars, counters, RunOnly
  <2> QED
    BY <2>1 DEF Mailbox
<1>20. ASSUME RunFinishes
       PROVE  Mailbox'
  <2>1. items' = items /\ inflight' = inflight
    BY <1>20 DEF RunFinishes, boxVars, runVars, counters, RunOnly
  <2> QED
    BY <2>1 DEF Mailbox
<1>21. ASSUME Shutdown
       PROVE  Mailbox'
  <2>1. items' = items /\ inflight' = inflight
    BY <1>21 DEF Shutdown, boxVars, runVars, counters, RunOnly
  <2> QED
    BY <2>1 DEF Mailbox
<1>22. ASSUME Dispose
       PROVE  Mailbox'
  <2>1. items' = items /\ inflight' = inflight
    BY <1>22 DEF Dispose, boxVars, runVars, counters, RunOnly
  <2> QED
    BY <2>1 DEF Mailbox
<1>23. CASE UNCHANGED vars
  BY <1>23, <1>0 DEF vars, boxVars, runVars, counters, Mailbox
<1> QED
  BY <1>1, <1>2, <1>3, <1>4, <1>5, <1>6, <1>7, <1>8, <1>9, <1>10, <1>11, <1>12, <1>13, <1>14,
     <1>15, <1>16, <1>17, <1>18, <1>19, <1>20, <1>21, <1>22, <1>23 DEF Next, SenderStep, RunStep

-----------------------------------------------------------------------------
(* What is on its way.                                                     *)

\* As long as no two threads moved messages at once, a run is alone with the agent.
LEMMA QuietStep ==
    ASSUME TypeOK, Control, Control', [Next]_vars, Quiet'
    PROVE  Quiet /\ ~Overlap /\ ~Overlap'
<1>1. unsettled \in BOOLEAN /\ crossed \in BOOLEAN
  BY DEF TypeOK
<1>2. CASE UNCHANGED vars
  BY <1>1, <1>2 DEF vars, Quiet, Control
<1>3. CASE Next
  <2>1. crossed' = (crossed \/ Overlap')
    BY <1>3 DEF Next
  <2>2. unsettled' = unsettled \/ unsettled' = TRUE
    BY <1>3 DEF Next, SenderStep, RunStep, SenderEnqueues, SenderChecks, SenderDrains,
       SenderSends,
                SenderClears, SenderClearsFollowUp, SenderClearsAgent, RunBegins, RunDelivers,
                RunPollsFirst, RunTurn, RunDrains, RunSends, RunFlushed, RunPolls,
                            RunPollsFollowUp,
                RunRestores, RunRemoves, RunFails, RunFinishes, Shutdown, Dispose
  <2> QED
    BY <1>1, <2>1, <2>2 DEF Quiet, Control
<1> QED
  BY <1>2, <1>3

LEMMA RunAlone ==
    ASSUME ~Overlap, run # "none"
    PROVE  /\ Hands = {} /\ \A s \in Senders : sender[s].hand = <<>> /\ ~Clears(s)
           /\ \A s \in Senders, k \in Kinds : ~Empties(s, k)
<1>1. \A s \in Senders : sender[s].hand = <<>> /\ ~Clears(s)
  BY DEF Overlap, IsStreaming, Holds
<1>2. Hands = {}
  BY <1>1, SeqFacts DEF Hands
<1> QED
  BY <1>1, <1>2 DEF Clears, Empties

\* A sender that holds messages, or clears, is alone with them.
LEMMA SenderAlone ==
    ASSUME TypeOK, Control, ~Overlap, NEW s \in Senders
    PROVE  /\ Holds(s) \/ Clears(s) => run = "none" /\ hand = <<>> /\ pending = <<>>
           /\ Holds(s) \/ Clears(s) => \A t \in Senders : t # s => sender[t].hand = <<>>
           /\ Holds(s) => Hands = Elements(sender[s].hand) /\ \A t \in Senders : ~Clears(t)
           /\ Clears(s) => Hands = {}
<1>1. Holds(s) \/ Clears(s) => run = "none" /\ hand = <<>> /\ pending = <<>>
  BY DEF Overlap, IsStreaming, Control
<1>2. Holds(s) \/ Clears(s) => \A t \in Senders : t # s => sender[t].hand = <<>>
  BY DEF Overlap, Holds
<1>3. sender[s].pc # "send" => sender[s].hand = <<>>
  BY DEF Control
<1>4. Holds(s) => Hands = Elements(sender[s].hand)
  BY <1>2, SeqFacts DEF Hands
<1>5. Holds(s) => \A t \in Senders : ~Clears(t)
  BY <1>3 DEF Overlap, Holds, Clears
<1>6. Clears(s) => Hands = {}
  BY <1>2, <1>3, SeqFacts DEF Hands, Clears
<1> QED
  BY <1>1, <1>2, <1>4, <1>5, <1>6

\* The same, of what is cleared.
LEMMA NoneCleared ==
    ASSUME TypeOK, Quiet, Tracked, ~Overlap, run # "none", run # "remove"
    PROVE  \A m \in Way : m.n \notin cleared
<1>1. \A m \in Way : m.kind \in Kinds
  BY ViewTypes, MessageForm
<1> QED
  BY <1>1, RunAlone DEF Tracked, Clearing

\* The clearings that are under way stay so.
SendersKeep ==
    \A t \in Senders :
        /\ \A k \in Kinds : Empties(t, k) => Empties(t, k)'
        /\ Clears(t)' => Clears(t) /\ sender'[t].pc = sender[t].pc

LEMMA SenderKeeps ==
    ASSUME NEW s \in Senders, ~Clears(s), ~Clears(s)', \A t \in Senders : t # s
        => sender'[t] = sender[t]
    PROVE  SendersKeep
BY DEF SendersKeep, Clears, Empties

LEMMA RunKeeps ==
    ASSUME sender' = sender
    PROVE  SendersKeep
BY DEF SendersKeep, Clears, Empties

\* A step that leaves alone what is inflight and what is on its way.
LEMMA SameTracked ==
    ASSUME TypeOK, Quiet, Tracked, Way' = Way, Inflight' = Inflight, cleared' = cleared,
           subscribed' => subscribed, SendersKeep,
           Queued \subseteq Queued' \/ \A m \in Way : m.n \notin cleared,
           \/ run' = run /\ at' = at /\ restored' = restored /\ Queued' = Queued
           \/ /\ run # "remove" /\ run' # "remove"
              /\ run \in {"failing", "agent_end"} => run' \in {"failing", "agent_end"}
    PROVE  Tracked'
<1>1. Listed /\ Ending /\ Removing /\ Clearing
  BY DEF Tracked
<1>2. Listed' /\ Ending'
  BY <1>1 DEF Listed, Ending
<1>3. Removing'
  BY <1>1 DEF Removing
<1>4. Clearing'
  <2>1. \A m \in Way' : m.n \in cleared' /\ run' # "remove" =>
            m \in Queued' /\ \E t \in Senders : Empties(t, m.kind)'
    <3> SUFFICES ASSUME NEW m \in Way', m.n \in cleared', run' # "remove"
                 PROVE  m \in Queued' /\ \E t \in Senders : Empties(t, m.kind)'
      OBVIOUS
    <3>1. m \in Way /\ m.n \in cleared /\ run # "remove" /\ m.kind \in Kinds
      BY ViewTypes, MessageForm
    <3>2. PICK t \in Senders : Empties(t, m.kind)
      BY <1>1, <3>1 DEF Clearing
    <3>3. m \in Queued /\ m \in Queued'
      BY <1>1, <3>1 DEF Clearing
    <3>4. Empties(t, m.kind)'
      BY <3>1, <3>2 DEF SendersKeep
    <3> QED
      BY <3>3, <3>4
  <2>2. \A t \in Senders : Clears(t)' =>
            \A m \in Inflight' : sender'[t].pc = "clear" /\ m.kind = "follow_up"
    BY <1>1 DEF Clearing, SendersKeep
  <2> QED
    BY <2>1, <2>2 DEF Clearing
<1> QED
  BY <1>2, <1>3, <1>4 DEF Tracked

\* Messages that a thread drains are inflight and on their way from then on.
LEMMA DrainTracked ==
    ASSUME TypeOK, Known, Quiet, Tracked, NEW D, DrainMove(D), Way' = Way \cup D,
                D \subseteq Items,
           subscribed' = subscribed, SendersKeep, run \notin {"failing", "agent_end", "remove"},
           run' \notin {"failing", "agent_end", "remove"}, \A t \in Senders : D # {}
               => ~Clears(t)'
    PROVE  Tracked'
<1>1. Listed /\ Clearing
  BY DEF Tracked
<1>2. /\ Inflight' = Inflight \cup D /\ cleared' = cleared /\ Queued' = Queued
      /\ \A m \in D : m.n \notin cleared
  BY DEF DrainMove, Rest, Known
<1>3. Listed' /\ Ending' /\ Removing'
  BY <1>1, <1>2 DEF Listed, Ending, Removing
<1>4. Clearing'
  <2>1. \A m \in Way' : m.n \in cleared' /\ run' # "remove" =>
            m \in Queued' /\ \E t \in Senders : Empties(t, m.kind)'
    <3> SUFFICES ASSUME NEW m \in Way', m.n \in cleared'
                 PROVE  m \in Queued' /\ \E t \in Senders : Empties(t, m.kind)'
      OBVIOUS
    <3>1. m \in Way /\ m.n \in cleared /\ m.kind \in Kinds
      BY <1>2, ViewTypes, MessageForm
    <3>2. PICK t \in Senders : Empties(t, m.kind)
      BY <1>1, <3>1 DEF Clearing
    <3>3. m \in Queued'
      BY <1>1, <1>2, <3>1 DEF Clearing
    <3> QED
      BY <3>1, <3>2, <3>3 DEF SendersKeep
  <2>2. \A t \in Senders : Clears(t)' =>
            \A m \in Inflight' : sender'[t].pc = "clear" /\ m.kind = "follow_up"
    BY <1>1, <1>2 DEF Clearing, SendersKeep
  <2> QED
    BY <2>1, <2>2 DEF Clearing
<1> QED
  BY <1>3, <1>4 DEF Tracked

\* The mailbox loses the messages of kind k, those inflight included.
LEMMA ClearTracked ==
    ASSUME TypeOK, Known, Quiet, Tracked, NEW k \in Kinds, ClearMove(k), NEW s \in Senders,
           subscribed' = subscribed, Way = Queued, run = "none", run' = "none",
           \A j \in Kinds : Empties(s, j)',
           \A t \in Senders : Clears(t)' =>
               \A m \in Inflight' : sender'[t].pc = "clear" /\ m.kind = "follow_up"
    PROVE  Tracked'
<1>1. Listed /\ Clearing
  BY DEF Tracked
<1>2. /\ Inflight' = {m \in Inflight : m.kind # k} /\ Queued' = Queued /\ Way' = Way
      /\ \A n : n \in cleared' <=> n \in cleared \/ \E x \in Box : x.kind = k /\ n = x.n
  BY DEF ClearMove, Way
<1>3. \A m \in Inflight : m.n \in cleared' <=> m.kind = k
  <2>1. /\ \A m \in Inflight : m.n \notin cleared /\ m \in Box
        /\ \A a, b \in Box : a.n = b.n => a = b
    BY DEF Known, Box
  <2> QED
    BY <1>2, <2>1
<1>4. Listed'
  <2>1. CASE subscribed
    <3>1. Inflight = {m \in Way : m.n \notin cleared}
      BY <1>1, <2>1 DEF Listed
    <3>2. Inflight' = {m \in Way' : m.n \notin cleared'}
      BY <1>2, <1>3, <3>1
    <3> QED
      BY <3>2 DEF Listed
  <2>2. CASE ~subscribed
    BY <2>2 DEF Listed
  <2> QED
    BY <2>1, <2>2
<1>5. Ending' /\ Removing'
  BY DEF Ending, Removing
<1>6. Clearing'
  <2>1. \A m \in Way' : m \in Queued' /\ m.kind \in Kinds
    BY <1>2, ViewTypes, MessageForm
  <2> QED
    BY <2>1 DEF Clearing
<1> QED
  BY <1>4, <1>5, <1>6 DEF Tracked

\* Polling takes messages from the agent's queue, which are on their way still.
LEMMA PollWay ==
    ASSUME NEW D, PollMove(D)
    PROVE  Way' = Way /\ Inflight' = Inflight /\ cleared' = cleared
BY SeqFacts DEF PollMove, Boxes, Rest, Way

\* What is delivered next is only in one place.
LEMMA NextInOnePlace ==
    ASSUME TypeOK, Control, Quiet, Ordered, ~Overlap, run \in {"prompts", "turn"},
           DeliverMove(Head(pending))
    PROVE  /\ Way = {Head(pending)} \cup Elements(Tail(pending)) \cup Queued
           /\ Way' = Elements(pending') \cup Queued
           /\ Head(pending) \notin Elements(Tail(pending)) \cup Queued
           /\ Before({Head(pending)}, Elements(Tail(pending)) \cup Queued)
<1>1. /\ pending \in Seq(Message) /\ pending # <<>> /\ Queued \subseteq Message
      /\ Elements(Tail(pending)) \subseteq Message
      /\ \A m \in Message : m.n \in Nat
  BY ViewTypes, SeqFacts, MessageForm DEF DeliverMove, TypeOK
<1>2. hand = <<>> /\ Hands = {} /\ Elements(<<>>) = {}
  BY RunAlone, SeqFacts DEF Control
<1>3. /\ Elements(pending) = {Head(pending)} \cup Elements(Tail(pending))
      /\ Before({Head(pending)}, Elements(Tail(pending)))
  BY <1>1, TailFacts DEF Ordered, Underway, Arranged
<1>4. Before({Head(pending)}, Queued)
  BY <1>3, BeforeFacts DEF Ordered, Underway, Arranged
<1>5. Before({Head(pending)}, Elements(Tail(pending)) \cup Queued)
  BY <1>3, <1>4, BeforeFacts
<1>6. \A m \in Elements(Tail(pending)) \cup Queued : m.n \in Nat /\ ~(m.n < m.n)
  BY <1>1
<1>7. Head(pending) \notin Elements(Tail(pending)) \cup Queued
  BY <1>5, <1>6 DEF Before
<1>8. Way = {Head(pending)} \cup Elements(Tail(pending)) \cup Queued
  BY <1>2, <1>3 DEF Way
<1>9. Way' = Elements(pending') \cup Queued
  BY <1>2 DEF Way, DeliverMove
<1> QED
  BY <1>5, <1>7, <1>8, <1>9

\* The last queue is cleaned, and nothing is on its way.
LEMMA AllRemoved ==
    ASSUME TypeOK, Kinded, Control, Quiet, Tracked, ~Overlap, RunRemoves, at = "follow_up"
    PROVE  Way' = {} /\ Queued' = {}
<1>1. run = "remove" /\ RemoveMove(at)
  BY RunRemovesView DEF RunRemoves
<1>2. hand = <<>> /\ pending = <<>> /\ Hands = {} /\ Elements(<<>>) = {}
  BY <1>1, RunAlone, SeqFacts DEF Control
<1>3. \A m \in Queued : m.n \in restored /\ m.kind = "follow_up"
  BY <1>1 DEF Tracked, Removing, Way
<1>4. Queued' = {}
  BY <1>1, <1>3 DEF RemoveMove
<1> QED
  BY <1>1, <1>2, <1>4 DEF Way, RemoveMove

\* The mailbox knows what is on its way to the conversation.
LEMMA TrackedStep ==
    ASSUME TypeOK, Kinded, Control, Control', Known, Tracked, Ordered, [Next]_vars
    PROVE  Tracked'
<1>0. SeqTypes /\ PlainTypes /\ SenderTypes
  BY TypeParts
<1>q. SUFFICES ASSUME Quiet' PROVE Tracked'
  BY DEF Tracked
<1>o. Quiet /\ ~Overlap /\ ~Overlap'
  BY <1>q, QuietStep
<1>n. run # "none" /\ run # "remove" => \A m \in Way : m.n \notin cleared
  BY <1>o, NoneCleared
<1>1. ASSUME NEW s \in Senders, NEW k \in Kinds, SenderEnqueues(s, k)
      PROVE  Tracked'
  <2>1. PICK m \in Message : SendMove(m)
    BY <1>1, SenderEnqueuesView
  <2>2. Way' = Way /\ Inflight' = Inflight /\ cleared' = cleared /\ Queued' = Queued
    BY <2>1 DEF SendMove, Way
  <2>3. /\ ~Clears(s) /\ ~Clears(s)' /\ \A t \in Senders : t # s => sender'[t] = sender[t]
        /\ UNCHANGED <<run, at, restored, subscribed>>
    BY <1>0, <1>1 DEF SenderEnqueues, runVars, SenderTypes, Clears
  <2> QED
    BY <1>o, <2>2, <2>3, SenderKeeps, SameTracked
<1>2. ASSUME NEW s \in Senders, SenderChecks(s)
      PROVE  Tracked'
  <2>1. Still
    BY <1>2, SenderChecksView
  <2>2. Way' = Way /\ Inflight' = Inflight /\ cleared' = cleared /\ Queued' = Queued
    BY <2>1 DEF Still, Boxes, Rest, Way
  <2>3. /\ ~Clears(s) /\ ~Clears(s)' /\ \A t \in Senders : t # s => sender'[t] = sender[t]
        /\ UNCHANGED <<run, at, restored, subscribed>>
    BY <1>0, <1>2 DEF SenderChecks, runVars, SenderTypes, Clears, At
  <2> QED
    BY <1>o, <2>2, <2>3, SenderKeeps, SameTracked
<1>3. ASSUME NEW s \in Senders, SenderDrains(s)
      PROVE  Tracked'
  <2> DEFINE D == Elements(Drained(items[sender[s].kind]))
  <2>1. DrainMove(D) /\ Hands' = Hands \cup D /\ hand' = hand
    BY <1>3, SenderDrainsView
  <2>2. /\ ~Clears(s) /\ ~Clears(s)' /\ \A t \in Senders : t # s => sender'[t] = sender[t]
        /\ sender'[s].hand = Drained(items[sender[s].kind])
        /\ UNCHANGED <<run, at, restored, subscribed>>
    BY <1>0, <1>3 DEF SenderDrains, runVars, SenderTypes, Clears
  <2>3. D # {} => run' = "none" /\ \A t \in Senders : ~Clears(t)'
    <3>1. D # {} => Holds(s)'
      BY <2>2, SeqFacts DEF Holds
    <3> QED
      BY <1>o, <2>2, <3>1 DEF Overlap, IsStreaming
  <2> HIDE DEF D
  <2>4. Way' = Way \cup D /\ D \subseteq Items /\ Queued' = Queued /\ Inflight' = Inflight \cup D
        /\ cleared' = cleared
    BY <2>1 DEF DrainMove, Way, Rest
  <2>5. CASE D = {}
    BY <1>o, <2>2, <2>4, <2>5, SenderKeeps, SameTracked
  <2>6. CASE D # {}
    BY <1>o, <2>1, <2>2, <2>3, <2>4, <2>6, SenderKeeps, DrainTracked
  <2> QED
    BY <2>5, <2>6
<1>4. ASSUME NEW s \in Senders, SenderSends(s)
      PROVE  Tracked'
  <2>1. /\ ~Clears(s) /\ ~Clears(s)' /\ \A t \in Senders : t # s => sender'[t] = sender[t]
        /\ UNCHANGED <<run, at, restored, subscribed>>
    BY SMTT(60), <1>0, <1>4 DEF SenderSends, runVars, SenderTypes, Clears, At
  <2>2. CASE sender[s].hand = <<>>
    <3>1. Still
      BY <1>4, <2>2, SenderSendsView
    <3>2. Way' = Way /\ Inflight' = Inflight /\ cleared' = cleared /\ Queued' = Queued
      BY <3>1 DEF Still, Boxes, Rest, Way
    <3> QED
      BY <1>o, <2>1, <3>2, SenderKeeps, SameTracked
  <2>3. CASE sender[s].hand # <<>>
    <3>1. /\ HandMove(Head(sender[s].hand)) /\ hand' = hand
          /\ Hands = Hands' \cup {Head(sender[s].hand)}
      BY <1>4, <2>3, SenderSendsView
    <3>2. Way' = Way /\ Inflight' = Inflight /\ cleared' = cleared /\ Queued \subseteq Queued'
      BY <3>1 DEF HandMove, Boxes, Rest, Way
    <3>3. run = "none" /\ run' = "none"
      BY <1>o, <2>1, <2>3 DEF Overlap, IsStreaming, Holds
    <3> QED
      BY <1>o, <2>1, <3>2, <3>3, SenderKeeps, SameTracked
  <2> QED
    BY <2>2, <2>3
<1>5. ASSUME NEW s \in Senders, SenderClears(s)
      PROVE  Tracked'
  <2>1. ClearMove("steering") /\ "steering" \in Kinds
    BY <1>5, SenderClearsView DEF Kinds
  <2>2. /\ sender[s].hand = <<>> /\ sender'[s].pc = "clear" /\ UNCHANGED <<run, subscribed>>
        /\ \A t \in Senders : t # s => sender'[t] = sender[t]
    BY <1>0, <1>5 DEF SenderClears, runVars, SenderTypes, Control
  <2>3. /\ run = "none" /\ \A t \in Senders : sender[t].hand = <<>>
    BY <1>o, <2>2 DEF Overlap, IsStreaming, Holds, Clears
  <2>4. Way = Queued
    BY <2>3, SeqFacts DEF Way, Hands, Control
  <2>5. \A t \in Senders : Clears(t)' =>
            \A m \in Inflight' : sender'[t].pc = "clear" /\ m.kind = "follow_up"
    <3>1. \A m \in Inflight' : m \in Inflight /\ m.kind = "follow_up"
      BY <2>1, ViewTypes, MessageForm, BothKinds DEF ClearMove
    <3>2. \A t \in Senders : t # s /\ Clears(t)' => Clears(t)
      BY <2>2 DEF Clears
    <3>3. \A t \in Senders : Clears(t) => \A m \in Inflight : sender[t].pc = "clear"
      BY <1>o DEF Tracked, Clearing
    <3> QED
      BY <2>2, <3>1, <3>2, <3>3
  <2>6. \A j \in Kinds : Empties(s, j)'
    BY <2>2 DEF Empties
  <2> QED
    BY <1>o, <2>1, <2>2, <2>3, <2>4, <2>5, <2>6, ClearTracked
<1>6. ASSUME NEW s \in Senders, SenderClearsFollowUp(s)
      PROVE  Tracked'
  <2>1. ClearMove("follow_up") /\ "follow_up" \in Kinds
    BY <1>6, SenderClearsFollowUpView DEF Kinds
  <2>2. /\ Clears(s) /\ sender[s].hand = <<>>
        /\ sender'[s].pc = "clear_agent" /\ sender'[s].kind = "steering"
               /\ UNCHANGED <<run, subscribed>>
        /\ \A t \in Senders : t # s => sender'[t] = sender[t]
    BY <1>0, <1>6 DEF SenderClearsFollowUp, runVars, SenderTypes, Control, Clears
  <2>3. /\ run = "none" /\ \A t \in Senders : sender[t].hand = <<>>
    BY <1>o, <2>2 DEF Overlap, IsStreaming, Holds
  <2>4. Way = Queued
    BY <2>3, SeqFacts DEF Way, Hands, Control
  <2>5. Inflight' = {}
    <3>1. \A m \in Inflight : m.kind = "follow_up"
      BY <1>o, <2>2 DEF Tracked, Clearing
    <3> QED
      BY <2>1, <3>1 DEF ClearMove
  <2>6. \A j \in Kinds : Empties(s, j)'
    BY <2>2 DEF Empties
  <2> QED
    BY <1>o, <2>1, <2>2, <2>3, <2>4, <2>5, <2>6, ClearTracked
<1>7. ASSUME NEW s \in Senders, SenderClearsAgent(s)
      PROVE  Tracked'
  <2> DEFINE k == sender[s].kind
  <2>1. EmptyMove(k) /\ k \in Kinds
    BY <1>0, <1>7, SenderClearsAgentView DEF SenderTypes
  <2>2. /\ Clears(s) /\ sender[s].pc = "clear_agent" /\ UNCHANGED <<run, subscribed>>
        /\ \A t \in Senders : t # s => sender'[t] = sender[t]
        /\ k = "steering" => sender'[s].pc = "clear_agent" /\ sender'[s].kind = "follow_up"
        /\ k # "steering" => sender'[s].pc = "out"
    BY <1>0, <1>7 DEF SenderClearsAgent, runVars, SenderTypes, Clears, Resting
  <2>3. run = "none" /\ hand = <<>> /\ pending = <<>> /\ Hands = {} /\ Inflight = {}
    <3>1. run = "none" /\ hand = <<>> /\ pending = <<>> /\ Hands = {}
      BY <1>o, <2>2, SenderAlone
    <3>2. Inflight = {}
      BY <1>o, <2>2 DEF Tracked, Clearing
    <3> QED
      BY <3>1, <3>2
  <2>4. /\ Way = Queued /\ Way' = Queued' /\ Queued' = {m \in Queued : m.kind # k}
        /\ Inflight' = {} /\ cleared' = cleared
    BY <2>1, <2>3, SeqFacts DEF Way, EmptyMove, Boxes, Rest
  <2>5. Listed' /\ Ending' /\ Removing'
    <3>1. Listed
      BY <1>o DEF Tracked
    <3>2. subscribed => \A m \in Way : m.n \in cleared
      BY <2>3, <3>1 DEF Listed
    <3> QED
      BY <2>2, <2>3, <2>4, <3>2 DEF Listed, Ending, Removing
  <2>6. \A m \in Queued' : m.n \in cleared' => \E t \in Senders : Empties(t, m.kind)'
    <3> SUFFICES ASSUME NEW m \in Queued', m.n \in cleared'
                 PROVE  \E t \in Senders : Empties(t, m.kind)'
      OBVIOUS
    <3>1. m \in Way /\ m.n \in cleared /\ m.kind # k /\ m.kind \in Kinds
      BY <2>4, ViewTypes, MessageForm
    <3>2. PICK t \in Senders : Empties(t, m.kind)
      BY <1>o, <2>3, <3>1 DEF Tracked, Clearing
    <3>3. CASE t # s
      BY <2>2, <3>2, <3>3 DEF Empties
    <3>4. CASE t = s
      BY <2>1, <2>2, <3>1, <3>2, <3>4, BothKinds DEF Empties
    <3> QED
      BY <3>3, <3>4
  <2>7. Clearing'
    BY <2>4, <2>6 DEF Clearing
  <2> QED
    BY <2>5, <2>7 DEF Tracked
<1>8. ASSUME RunBegins
      PROVE  Tracked'
  <2>1. Still \/ PollMove(Elements(pending'))
    BY <1>8, RunBeginsView
  <2>2. Way' = Way /\ Inflight' = Inflight /\ cleared' = cleared
    BY <2>1, PollWay DEF Still, Boxes, Rest, Way
  <2>3. /\ run = "none" /\ run' \in {"first", "turn", "prompts"}
        /\ sender' = sender /\ subscribed' = subscribed
    BY <1>8 DEF RunBegins, RunOnly
  <2>4. \A m \in Way : m.n \notin cleared
    <3>1. \A t \in Senders : ~Clears(t)
      BY <1>o, <2>3 DEF Overlap, IsStreaming, Clears
    <3>2. \A t \in Senders : \A k : ~Empties(t, k)
      BY <3>1 DEF Empties, Clears
    <3> QED
      BY <1>o, <2>3, <3>2 DEF Tracked, Clearing
  <2> QED
    BY <1>o, <2>2, <2>3, <2>4, RunKeeps, SameTracked
<1>9. ASSUME RunDelivers
      PROVE  Tracked'
  <2>1. DeliverMove(Head(pending)) /\ run \in {"prompts", "turn"}
    BY <1>9, RunDeliversView DEF RunDelivers
  <2>2. /\ Way = {Head(pending)} \cup Elements(Tail(pending)) \cup Queued
        /\ Way' = Elements(pending') \cup Queued
        /\ Head(pending) \notin Elements(Tail(pending)) \cup Queued
    BY <1>o, <2>1, NextInOnePlace
  <2>3. /\ \A m \in Way : m.n \notin cleared
        /\ \A t \in Senders : ~Clears(t)
    BY <1>n, <1>o, <2>1, RunAlone
  <2>4. /\ Elements(pending') \subseteq Elements(Tail(pending)) /\ cleared' = cleared
        /\ Inflight' = IF subscribed THEN Inflight \ {Head(pending)} ELSE Inflight
    BY <2>1 DEF DeliverMove
  <2>5. /\ sender' = sender /\ subscribed' = subscribed
        /\ \/ pending' = Tail(pending) /\ run' = run
           \/ run' = "failing"
    BY <1>9 DEF RunDelivers, RunOnly
  <2>6. subscribed => Inflight = Way
    BY <1>o, <2>1, <2>3 DEF Tracked, Listed
  <2>7. \A m \in Way' : m \in Way /\ m # Head(pending) /\ m.n \notin cleared'
    BY <2>2, <2>3, <2>4
  <2>8. Listed' /\ Ending' /\ Removing'
    <3>1. CASE run' = "failing"
      BY <2>4, <2>5, <2>6, <2>7, <3>1 DEF Listed, Ending, Removing
    <3>2. CASE pending' = Tail(pending) /\ run' = run
      <4>1. subscribed => Inflight' = Way'
        BY <2>2, <2>4, <2>6, <3>2
      <4> QED
        BY <2>1, <2>5, <2>7, <3>2, <4>1 DEF Listed, Ending, Removing
    <3> QED
      BY <2>5, <3>1, <3>2
  <2>9. Clearing'
    BY <2>3, <2>5, <2>7 DEF Clearing, Clears
  <2> QED
    BY <2>8, <2>9 DEF Tracked
<1>10. ASSUME RunPollsFirst
       PROVE  Tracked'
  <2>1. PollMove(Elements(pending'))
    BY <1>10, RunPollsFirstView
  <2>2. Way' = Way /\ Inflight' = Inflight /\ cleared' = cleared
    BY <2>1, PollWay
  <2>3. /\ run \notin {"none", "remove", "failing", "agent_end"} /\ run' # "remove"
        /\ sender' = sender /\ subscribed' = subscribed
    BY <1>10 DEF RunPollsFirst, RunOnly
  <2> QED
    BY <1>n, <1>o, <2>2, <2>3, RunKeeps, SameTracked
<1>11. ASSUME RunTurn
       PROVE  Tracked'
  <2>1. Still
    BY <1>11, RunTurnView
  <2>2. Way' = Way /\ Inflight' = Inflight /\ cleared' = cleared /\ Queued' = Queued
    BY <2>1 DEF Still, Boxes, Rest, Way
  <2>3. /\ run # "remove" /\ run' # "remove" /\ sender' = sender /\ subscribed' = subscribed
        /\ run \in {"failing", "agent_end"} => run' \in {"failing", "agent_end"}
    BY <1>q, <1>11 DEF RunTurn, RunOnly, Quiet
  <2> QED
    BY <1>o, <2>2, <2>3, RunKeeps, SameTracked
<1>12. ASSUME RunDrains
       PROVE  Tracked'
  <2> DEFINE D == Elements(Drained(items[at]))
  <2>1. DrainMove(D) /\ Hands' = Hands /\ hand = <<>> /\ hand' = Drained(items[at])
    BY <1>12, RunDrainsView
  <2>2. run = "drain" /\ run' = "send" /\ sender' = sender /\ subscribed' = subscribed
    BY <1>12 DEF RunDrains, RunOnly
  <2>3. \A t \in Senders : ~Clears(t)'
    BY <1>o, <2>2 DEF Overlap, IsStreaming
  <2>4. Elements(hand') = D
    BY <2>1
  <2> HIDE DEF D
  <2>5. Way' = Way \cup D /\ D \subseteq Items
    BY <2>1, <2>4, SeqFacts DEF DrainMove, Way
  <2> QED
    BY <1>o, <2>1, <2>2, <2>3, <2>5, RunKeeps, DrainTracked
<1>13. ASSUME RunSends
       PROVE  Tracked'
  <2>1. /\ HandMove(Head(hand)) /\ Hands' = Hands
        /\ Elements(hand) = Elements(hand') \cup {Head(hand)}
    BY <1>13, RunSendsView
  <2>2. Way' = Way /\ Inflight' = Inflight /\ cleared' = cleared /\ Queued \subseteq Queued'
    BY <2>1 DEF HandMove, Boxes, Rest, Way
  <2>3. run = "send" /\ run' = "send" /\ sender' = sender /\ subscribed' = subscribed
    BY <1>13 DEF RunSends, RunOnly
  <2> QED
    BY <1>o, <2>2, <2>3, RunKeeps, SameTracked
<1>14. ASSUME RunFlushed
       PROVE  Tracked'
  <2>1. Still
    BY <1>14, RunFlushedView
  <2>2. Way' = Way /\ Inflight' = Inflight /\ cleared' = cleared /\ Queued' = Queued
    BY <2>1 DEF Still, Boxes, Rest, Way
  <2>3. /\ run # "remove" /\ run' # "remove" /\ sender' = sender /\ subscribed' = subscribed
        /\ run \in {"failing", "agent_end"} => run' \in {"failing", "agent_end"}
    BY <1>q, <1>14 DEF RunFlushed, RunOnly, Quiet
  <2> QED
    BY <1>o, <2>2, <2>3, RunKeeps, SameTracked
<1>15. ASSUME RunPolls
       PROVE  Tracked'
  <2>1. PollMove(Elements(pending'))
    BY <1>15, RunPollsView
  <2>2. Way' = Way /\ Inflight' = Inflight /\ cleared' = cleared
    BY <2>1, PollWay
  <2>3. /\ run \notin {"none", "remove", "failing", "agent_end"} /\ run' # "remove"
        /\ sender' = sender /\ subscribed' = subscribed
    BY <1>15 DEF RunPolls, RunOnly
  <2> QED
    BY <1>n, <1>o, <2>2, <2>3, RunKeeps, SameTracked
<1>16. ASSUME RunPollsFollowUp
       PROVE  Tracked'
  <2>1. PollMove(Elements(pending'))
    BY <1>16, RunPollsFollowUpView
  <2>2. Way' = Way /\ Inflight' = Inflight /\ cleared' = cleared
    BY <2>1, PollWay
  <2>3. /\ run \notin {"none", "remove", "failing", "agent_end"} /\ run' # "remove"
        /\ sender' = sender /\ subscribed' = subscribed
    BY <1>16 DEF RunPollsFollowUp, RunOnly
  <2> QED
    BY <1>n, <1>o, <2>2, <2>3, RunKeeps, SameTracked
<1>17. ASSUME RunRestores
       PROVE  Tracked'
  <2>1. /\ run = "agent_end" /\ sender' = sender /\ subscribed' = subscribed
    BY <1>17 DEF RunRestores, RunOnly
  <2>2. /\ \A m \in Way : m.n \notin cleared
        /\ \A t \in Senders : ~Clears(t)
    BY <1>n, <1>o, <2>1, RunAlone
  <2>3. subscribed => Way \subseteq Inflight
    BY <1>o, <2>1, <2>2 DEF Tracked, Ending
  <2>4. Still \/ RestoreMove
    BY <1>17, RunRestoresView
  <2>5. Way' = Way /\ cleared' = cleared
    BY <2>4 DEF Still, RestoreMove, Rest, Way
  <2>6. Clearing'
    BY <2>1, <2>2, <2>5 DEF Clearing, Clears
  <2>7. CASE Still /\ run' = "finish" /\ (subscribed => Inflight = {})
    <3>1. subscribed => Inflight' = {} /\ Way' = {}
      BY <2>3, <2>5, <2>7 DEF Still, Boxes
    <3>2. Listed' /\ Ending' /\ Removing'
      BY <2>1, <2>7, <3>1 DEF Listed, Ending, Removing
    <3> QED
      BY <2>6, <3>2 DEF Tracked
  <2>8. CASE /\ RestoreMove /\ run' = "remove" /\ at' = "steering" /\ subscribed
             /\ restored' = {m.n : m \in Inflight}
    <3>1. Listed' /\ Ending' /\ Removing'
      BY <2>3, <2>5, <2>8 DEF Listed, Ending, Removing, RestoreMove
    <3> QED
      BY <2>6, <3>1 DEF Tracked
  <2> QED
    BY <1>17, <2>7, <2>8, RunRestoresView
<1>18. ASSUME RunRemoves
       PROVE  Tracked'
  <2>1. /\ run = "remove" /\ sender' = sender /\ subscribed' = subscribed /\ RemoveMove(at)
        /\ at \in Kinds
    BY <1>0, <1>18, RunRemovesView DEF RunRemoves, RunOnly, PlainTypes
  <2>2. /\ Inflight = {} /\ Inflight' = {} /\ cleared' = cleared /\ Way' \subseteq Way
        /\ \A m \in Way : m.n \in restored
    BY <1>o, <2>1 DEF Tracked, Removing, RemoveMove, Boxes, Rest, Way
  <2>3. \A t \in Senders : ~Clears(t)'
    BY <1>o, <2>1, RunAlone DEF Clears
  <2>4. CASE at = "steering"
    <3>1. run' = "remove" /\ restored' = restored
      BY <1>18, <2>1, <2>4 DEF RunRemoves
    <3>2. \A m \in Queued' : m.kind = "follow_up"
      <4>1. \A m \in Queued : m \in Way /\ m.kind \in Kinds
        BY ViewTypes, MessageForm DEF Way
      <4> QED
        BY <2>1, <2>2, <2>4, <4>1, BothKinds DEF RemoveMove
    <3> QED
      BY <2>2, <2>3, <3>1, <3>2 DEF Tracked, Listed, Ending, Removing, Clearing
  <2>5. CASE at = "follow_up"
    <3>1. run' = "finish" /\ Way' = {}
      BY <1>o, <1>18, <2>5, AllRemoved DEF RunRemoves
    <3> QED
      BY <2>2, <2>3, <3>1 DEF Tracked, Listed, Ending, Removing, Clearing
  <2> QED
    BY <2>1, <2>4, <2>5, BothKinds
<1>19. ASSUME RunFails
       PROVE  Tracked'
  <2>1. Still
    BY <1>19, RunFailsView
  <2>2. Way' = Way /\ Inflight' = Inflight /\ cleared' = cleared /\ Queued' = Queued
    BY <2>1 DEF Still, Boxes, Rest, Way
  <2>3. /\ run # "remove" /\ run' # "remove" /\ sender' = sender /\ subscribed' = subscribed
        /\ run \in {"failing", "agent_end"} => run' \in {"failing", "agent_end"}
    BY <1>q, <1>19 DEF RunFails, RunOnly, Quiet
  <2> QED
    BY <1>o, <2>2, <2>3, RunKeeps, SameTracked
<1>20. ASSUME RunFinishes
       PROVE  Tracked'
  <2>1. Still
    BY <1>20, RunFinishesView
  <2>2. Way' = Way /\ Inflight' = Inflight /\ cleared' = cleared /\ Queued' = Queued
    BY <2>1 DEF Still, Boxes, Rest, Way
  <2>3. /\ run # "remove" /\ run' # "remove" /\ sender' = sender /\ subscribed' = subscribed
        /\ run \in {"failing", "agent_end"} => run' \in {"failing", "agent_end"}
    BY <1>q, <1>20 DEF RunFinishes, RunOnly, Quiet
  <2> QED
    BY <1>o, <2>2, <2>3, RunKeeps, SameTracked
<1>21. ASSUME Shutdown
       PROVE  Tracked'
  <2>1. Still
    BY <1>21, ShutdownView
  <2>2. Way' = Way /\ Inflight' = Inflight /\ cleared' = cleared /\ Queued' = Queued
    BY <2>1 DEF Still, Boxes, Rest, Way
  <2>3. sender' = sender /\ UNCHANGED <<run, at, restored>> /\ (subscribed' => subscribed)
    BY <1>21 DEF Shutdown, runVars
  <2> QED
    BY <1>o, <2>2, <2>3, RunKeeps, SameTracked
<1>22. ASSUME Dispose
       PROVE  Tracked'
  <2>1. Still
    BY <1>22, DisposeView
  <2>2. Way' = Way /\ Inflight' = Inflight /\ cleared' = cleared /\ Queued' = Queued
    BY <2>1 DEF Still, Boxes, Rest, Way
  <2>3. sender' = sender /\ UNCHANGED <<run, at, restored>> /\ (subscribed' => subscribed)
    BY <1>22 DEF Dispose, runVars
  <2> QED
    BY <1>o, <2>2, <2>3, RunKeeps, SameTracked
<1>23. CASE UNCHANGED vars
  BY <1>23, <1>0 DEF vars, boxVars, runVars, counters, Tracked, Quiet, Listed, Ending, Removing,
     Clearing, Empties, Clears, Items, Inflight, Way, Queued, Hands
<1> QED
  BY <1>1, <1>2, <1>3, <1>4, <1>5, <1>6, <1>7, <1>8, <1>9, <1>10, <1>11, <1>12, <1>13, <1>14,
     <1>15, <1>16, <1>17, <1>18, <1>19, <1>20, <1>21, <1>22, <1>23 DEF Next, SenderStep, RunStep

-----------------------------------------------------------------------------
(* The order of the messages.                                              *)

\* A step that at most drops messages.
LEMMA SameOrdered ==
    ASSUME Quiet, Ordered, delivered' = delivered, Items' \subseteq Items,
           Inflight' \subseteq Inflight, Way' \subseteq Way, Queued' \subseteq Queued,
           pending' = pending, hand' = hand, \A s \in Senders : sender'[s].hand = sender[s].hand,
           subscribed' => subscribed, run' # "remove" => run # "remove",
           \A k \in Kinds : Sorted(queue[k]) => Sorted(queue'[k])
    PROVE  Ordered'
<1>1. Behind /\ Underway /\ Hands' = Hands
  BY SameViews DEF Ordered
<1>2. Behind'
  BY <1>1 DEF Behind, Before
<1>3. CASE run' = "remove"
  BY <1>2, <1>3 DEF Ordered, Underway, Arranged
<1>4. CASE run' # "remove"
  <2>1. Arranged
    BY <1>1, <1>4 DEF Underway, Arranged
  <2>2. /\ Before(Elements(delivered'), Way') /\ Before(Elements(pending'), Queued')
        /\ Before(Queued', Elements(hand') \cup Hands') /\ Before(Way', Items')
    BY <1>1, <2>1 DEF Arranged, Before
  <2> QED
    BY <1>2, <2>1, <2>2 DEF Ordered, Underway, Arranged
<1> QED
  BY <1>3, <1>4

\* What is drained was sent before what stays in the mailbox.
LEMMA DrainOrder ==
    ASSUME TypeOK, Kinded, Mailbox, NEW k \in Kinds, Drain(k)
    PROVE  /\ Sorted(Drained(items[k]))
           /\ Before(Elements(Drained(items[k])), Items')
<1>1. /\ items[k] \in Seq(Message) /\ Sorted(items[k])
      /\ \A j \in Kinds : \A m \in Elements(items[j]) : m.kind = j
  BY DEF TypeOK, Mailbox, Kinded, OfKind
<1>2. /\ Sorted(Drained(items[k]))
             /\ Before(Elements(Drained(items[k])), Elements(Left(items[k])))
      /\ Elements(Drained(items[k])) \subseteq Elements(items[k])
  BY <1>1, DrainFacts
<1>3. items'[k] = Left(items[k]) /\ \A j \in Kinds : j # k => items'[j] = items[j]
  BY DEF Drain, TypeOK
<1>4. \A j \in Kinds : Before(Elements(Drained(items[k])), Elements(items'[j]))
  <2> SUFFICES ASSUME NEW j \in Kinds, j # k
               PROVE  Before(Elements(Drained(items[k])), Elements(items[j]))
    BY <1>2, <1>3
  <2> QED
    BY <1>1, <1>2 DEF Before
<1>5. "steering" \in Kinds /\ "follow_up" \in Kinds
  BY DEF Kinds
<1> QED
  BY <1>2, <1>4, <1>5, BeforeFacts DEF Items

\* A thread drains the messages D.
LEMMA DrainOrdered ==
    ASSUME Quiet, Ordered, NEW D, DrainMove(D), Way' = Way \cup D,
           Elements(hand') \cup Hands' = Elements(hand) \cup Hands \cup D,
           Before(D, Items'), Sorted(hand) => Sorted(hand'),
           \A s \in Senders : Sorted(sender[s].hand) => Sorted(sender'[s].hand),
           queue' = queue, subscribed' = subscribed, run' # "remove" => run # "remove"
    PROVE  Ordered'
<1>1. Behind /\ Underway
  BY DEF Ordered
<1>2. /\ D \subseteq Items /\ Items' \subseteq Items /\ Inflight' = Inflight \cup D
      /\ Queued' = Queued /\ pending' = pending /\ delivered' = delivered
  BY DEF DrainMove, Rest
<1>3. Behind'
  BY <1>1, <1>2 DEF Behind, Before
<1>4. CASE run' = "remove"
  BY <1>3, <1>4 DEF Ordered, Underway, Arranged
<1>5. CASE run' # "remove"
  <2>1. Arranged
    BY <1>1, <1>5 DEF Underway, Arranged
  <2>2. Before(Elements(delivered'), Way') /\ Before(Elements(pending'), Queued')
    BY <1>1, <1>2, <2>1 DEF Arranged, Behind, Before
  <2>3. Before(Queued, D)
    BY <1>2, <2>1 DEF Arranged, Before, Way
  <2>4. Before(Queued', Elements(hand') \cup Hands')
    BY <1>2, <2>1, <2>3, BeforeFacts DEF Arranged
  <2>5. Before(Way, Items')
    BY <1>2, <2>1 DEF Arranged, Before
  <2>6. Before(Way', Items')
    BY <2>5, BeforeFacts
  <2> QED
    BY <1>2, <1>3, <2>1, <2>2, <2>4, <2>6 DEF Ordered, Underway, Arranged
<1> QED
  BY <1>4, <1>5

\* A thread hands message x, the first that it holds, to the agent.
LEMMA HandOrdered ==
    ASSUME TypeOK, Quiet, Ordered, NEW k \in Kinds, NEW x, HandMove(x), Way' = Way,
           queue' = [queue EXCEPT ![k] = Append(@, x)], x \in Elements(hand) \cup Hands,
           Elements(hand') \cup Hands' \subseteq Elements(hand) \cup Hands,
           Before({x}, Elements(hand') \cup Hands'), pending = <<>>,
           Sorted(hand) => Sorted(hand'),
           \A s \in Senders : Sorted(sender[s].hand) => Sorted(sender'[s].hand),
           subscribed' = subscribed, run # "remove"
    PROVE  Ordered'
<1>1. Behind /\ Arranged
  BY DEF Ordered, Underway, Arranged
<1>2. /\ Items' = Items /\ Inflight' = Inflight /\ Queued' = Queued \cup {x} /\ pending' = pending
      /\ delivered' = delivered
  BY DEF HandMove, Rest, Boxes
<1>3. Behind'
  BY <1>1, <1>2 DEF Behind
<1>4. \A j \in Kinds : Sorted(queue'[j])
  <2>1. queue[k] \in Seq(Message) /\ Sorted(queue[k])
    BY <1>1 DEF TypeOK, Arranged
  <2>2. Elements(queue[k]) \subseteq Queued
    BY BothKinds DEF Queued
  <2>3. Before(Elements(queue[k]), {x})
    BY <1>1, <2>2 DEF Arranged, Before
  <2>4. Sorted(Append(queue[k], x))
    BY <2>1, <2>3, AppendSorted
  <2> QED
    BY <1>1, <2>4 DEF TypeOK, Arranged
<1>5. Before(Queued, Elements(hand') \cup Hands')
  BY <1>1 DEF Arranged, Before
<1>6. Before(Queued', Elements(hand') \cup Hands')
  BY <1>2, <1>5, BeforeFacts
<1>7. Before(Elements(pending'), Queued')
  BY <1>2, SeqFacts, BeforeFacts
<1>8. /\ Before(Elements(delivered'), Way') /\ Before(Way', Items') /\ Sorted(pending')
      /\ Sorted(hand') /\ \A s \in Senders : Sorted(sender'[s].hand)
  BY <1>1, <1>2 DEF Arranged
<1> QED
  BY <1>3, <1>4, <1>6, <1>7, <1>8 DEF Ordered, Underway, Arranged

\* The run takes messages of kind k from the agent.
LEMMA PollOrdered ==
    ASSUME TypeOK, Kinded, Quiet, Ordered, NEW k \in Kinds, pending' = Drained(queue[k]),
           queue' = [queue EXCEPT ![k] = Left(@)], PollMove(Elements(pending')), sender' = sender,
           subscribed' = subscribed, run # "remove"
    PROVE  Ordered'
<1>1. Behind /\ Arranged
  BY DEF Ordered, Underway, Arranged
<1>2. /\ Items' = Items /\ Inflight' = Inflight /\ Queued' \subseteq Queued /\ Way' = Way
      /\ delivered' = delivered /\ hand' = hand /\ Hands' = Hands
  BY PollWay DEF PollMove, Rest, Boxes
<1>3. Behind'
  BY <1>1, <1>2 DEF Behind
<1>4. /\ Sorted(pending') /\ Sorted(Left(queue[k]))
      /\ Before(Elements(pending'), Elements(Left(queue[k])))
      /\ Elements(pending') \subseteq Elements(queue[k])
  BY <1>1, DrainFacts DEF TypeOK, Arranged
<1>5. queue'[k] = Left(queue[k]) /\ \A j \in Kinds : j # k => queue'[j] = queue[j]
  BY DEF TypeOK
<1>6. \A j \in Kinds : Sorted(queue'[j])
  BY <1>1, <1>4, <1>5 DEF Arranged
<1>7. \A j \in Kinds : Before(Elements(pending'), Elements(queue'[j]))
  <2>1. \A j \in Kinds : \A m \in Elements(queue[j]) : m.kind = j
    BY DEF Kinded, OfKind
  <2> SUFFICES ASSUME NEW j \in Kinds, j # k
               PROVE  Before(Elements(pending'), Elements(queue[j]))
    BY <1>4, <1>5
  <2> QED
    BY <1>4, <2>1 DEF Before
<1>8. Before(Elements(pending'), Queued')
  <2>1. "steering" \in Kinds /\ "follow_up" \in Kinds
    BY DEF Kinds
  <2> QED
    BY <1>7, <2>1, BeforeFacts DEF Queued
<1>9. Before(Queued', Elements(hand') \cup Hands')
  BY <1>1, <1>2 DEF Arranged, Before
<1>10. /\ Before(Elements(delivered'), Way') /\ Before(Way', Items')
       /\ Sorted(hand') /\ \A s \in Senders : Sorted(sender'[s].hand)
  BY <1>1, <1>2 DEF Arranged
<1> QED
  BY <1>3, <1>4, <1>6, <1>8, <1>9, <1>10 DEF Ordered, Underway, Arranged

\* Messages of a kind stay in the order in which they were sent.
LEMMA OrderedStep ==
    ASSUME TypeOK, Kinded, Control, Control', Known, Mailbox, Tracked, Ordered, [Next]_vars
    PROVE  Ordered'
<1>0. SeqTypes /\ PlainTypes /\ SenderTypes
  BY TypeParts
<1>q. SUFFICES ASSUME Quiet' PROVE Ordered'
  BY DEF Ordered
<1>o. Quiet /\ ~Overlap /\ ~Overlap'
  BY <1>q, QuietStep
<1>1. ASSUME NEW s \in Senders, NEW k \in Kinds, SenderEnqueues(s, k)
      PROVE  Ordered'
  <2>1. PICK m \in Message : SendMove(m)
    BY <1>1, SenderEnqueuesView
  <2>2. /\ Items' = Items \cup {m} /\ Inflight' = Inflight /\ Way' = Way /\ Queued' = Queued
        /\ delivered' = delivered /\ pending' = pending /\ hand' = hand /\ Hands' = Hands
    BY <2>1 DEF SendMove, Way
  <2>3. /\ queue' = queue /\ subscribed' = subscribed /\ run' = run
        /\ \A t \in Senders : sender'[t].hand = sender[t].hand
    BY <1>0, <1>1 DEF SenderEnqueues, runVars, SenderTypes, Control
  <2>4. Before(Way, {m}) /\ Before(Elements(delivered), {m})
    BY <2>1, NewestLast, BeforeFacts DEF SendMove
  <2>5. Behind'
    BY <1>o, <2>2, <2>3, <2>4, BeforeFacts DEF Ordered, Behind
  <2>6. Underway'
    <3>1. run # "remove" => Arranged
      BY <1>o DEF Ordered, Underway, Arranged
    <3>2. run # "remove" => Before(Way', Items')
      BY <2>2, <2>4, <3>1, BeforeFacts DEF Arranged
    <3> QED
      BY <2>2, <2>3, <3>1, <3>2 DEF Underway, Arranged
  <2> QED
    BY <2>5, <2>6 DEF Ordered
<1>2. ASSUME NEW s \in Senders, SenderChecks(s)
      PROVE  Ordered'
  <2>1. Still
    BY <1>2, SenderChecksView
  <2>2. /\ Items' = Items /\ Inflight' = Inflight /\ Way' = Way /\ Queued' = Queued
        /\ delivered' = delivered /\ pending' = pending /\ hand' = hand
    BY <2>1 DEF Still, Boxes, Rest, Way
  <2>3. /\ \A t \in Senders : sender'[t].hand = sender[t].hand
        /\ queue' = queue /\ (subscribed' => subscribed) /\ (run' # "remove" => run # "remove")
    BY <1>0, <1>2 DEF SenderChecks, boxVars, runVars, counters, RunOnly, SenderTypes, At
  <2> QED
    BY <1>o, <2>2, <2>3, SameOrdered
<1>3. ASSUME NEW s \in Senders, SenderDrains(s)
      PROVE  Ordered'
  <2> DEFINE D == Elements(Drained(items[sender[s].kind]))
  <2>1. DrainMove(D) /\ Hands' = Hands \cup D /\ hand' = hand
    BY <1>3, SenderDrainsView
  <2>2. /\ sender[s].kind \in Kinds /\ Drain(sender[s].kind)
        /\ sender'[s].hand = Drained(items[sender[s].kind])
        /\ \A t \in Senders : t # s => sender'[t] = sender[t]
        /\ UNCHANGED <<run, queue, subscribed>>
    BY <1>0, <1>3 DEF SenderDrains, runVars, SenderTypes
  <2>3. Sorted(sender'[s].hand) /\ Before(D, Items')
    BY <2>2, DrainOrder
  <2> HIDE DEF D
  <2>4. /\ Way' = Way \cup D
        /\ Elements(hand') \cup Hands' = Elements(hand) \cup Hands \cup D
    BY <2>1 DEF DrainMove, Way
  <2> QED
    BY <1>o, <2>1, <2>2, <2>3, <2>4, DrainOrdered
<1>4. ASSUME NEW s \in Senders, SenderSends(s)
      PROVE  Ordered'
  <2>1. /\ sender[s].kind \in Kinds /\ sender[s].hand \in Seq(Message)
        /\ \A t \in Senders : t # s => sender'[t] = sender[t]
        /\ UNCHANGED <<run, subscribed>>
    BY <1>0, <1>4 DEF SenderSends, runVars, SenderTypes, At
  <2>2. CASE sender[s].hand = <<>>
    <3>1. Still
      BY <1>4, <2>2, SenderSendsView
    <3>2. /\ Items' = Items /\ Inflight' = Inflight /\ Way' = Way /\ Queued' = Queued
          /\ delivered' = delivered /\ pending' = pending /\ hand' = hand
      BY <3>1 DEF Still, Boxes, Rest, Way
    <3>3. queue' = queue /\ \A t \in Senders : sender'[t].hand = sender[t].hand
      BY <1>0, <1>4, <2>2 DEF SenderSends, SenderTypes, At
    <3> QED
      BY <1>o, <2>1, <3>2, <3>3, SameOrdered
  <2>3. CASE sender[s].hand # <<>>
    <3> DEFINE x == Head(sender[s].hand)
    <3>1. HandMove(x) /\ hand' = hand /\ Hands = Hands' \cup {x}
      BY <1>4, <2>3, SenderSendsView
    <3>2. /\ queue' = [queue EXCEPT ![sender[s].kind] = Append(@, x)]
          /\ sender'[s].hand = Tail(sender[s].hand)
      BY <1>0, <1>4, <2>3 DEF SenderSends, SenderTypes
    <3>3. /\ run = "none" /\ hand = <<>> /\ pending = <<>>
          /\ \A t \in Senders : t # s => sender'[t].hand = <<>>
      BY <1>o, <2>1, <2>3, SenderAlone DEF Holds
    <3>4. Hands' = Elements(sender'[s].hand)
      BY <3>3, SeqFacts DEF Hands
    <3>5. Sorted(sender[s].hand)
      BY <1>o, <3>3 DEF Ordered, Underway, Arranged
    <3>6. Sorted(sender'[s].hand) /\ Before({x}, Hands')
      BY <2>1, <2>3, <3>2, <3>4, <3>5, TailFacts
    <3> HIDE DEF x
    <3>7. Elements(hand') \cup Hands' = Hands'
      BY <3>1, <3>3, SeqFacts
    <3>8. Way' = Way
      BY <3>1 DEF HandMove, Way
    <3> QED
      BY <1>o, <2>1, <3>1, <3>2, <3>3, <3>6, <3>7, <3>8, HandOrdered
  <2> QED
    BY <2>2, <2>3
<1>5. ASSUME NEW s \in Senders, SenderClears(s)
      PROVE  Ordered'
  <2>1. ClearMove("steering")
    BY <1>5, SenderClearsView
  <2>2. /\ Items' \subseteq Items /\ Inflight' \subseteq Inflight /\ Way' = Way
               /\ Queued' = Queued
        /\ delivered' = delivered /\ pending' = pending /\ hand' = hand
    BY <2>1 DEF ClearMove, Way
  <2>3. /\ \A t \in Senders : sender'[t].hand = sender[t].hand
        /\ queue' = queue /\ subscribed' = subscribed /\ run' = run
    BY <1>0, <1>5 DEF SenderClears, runVars, SenderTypes, Control
  <2> QED
    BY <1>o, <2>2, <2>3, SameOrdered
<1>6. ASSUME NEW s \in Senders, SenderClearsFollowUp(s)
      PROVE  Ordered'
  <2>1. ClearMove("follow_up")
    BY <1>6, SenderClearsFollowUpView
  <2>2. /\ Items' \subseteq Items /\ Inflight' \subseteq Inflight /\ Way' = Way
               /\ Queued' = Queued
        /\ delivered' = delivered /\ pending' = pending /\ hand' = hand
    BY <2>1 DEF ClearMove, Way
  <2>3. /\ \A t \in Senders : sender'[t].hand = sender[t].hand
        /\ queue' = queue /\ subscribed' = subscribed /\ run' = run
    BY <1>0, <1>6 DEF SenderClearsFollowUp, runVars, SenderTypes, Control
  <2> QED
    BY <1>o, <2>2, <2>3, SameOrdered
<1>7. ASSUME NEW s \in Senders, SenderClearsAgent(s)
      PROVE  Ordered'
  <2>1. EmptyMove(sender[s].kind)
    BY <1>7, SenderClearsAgentView
  <2>2. /\ Items' = Items /\ Inflight' = Inflight /\ Way' \subseteq Way
               /\ Queued' \subseteq Queued
        /\ delivered' = delivered /\ pending' = pending /\ hand' = hand
    BY <2>1 DEF EmptyMove, Boxes, Rest, Way
  <2>3. /\ \A t \in Senders : sender'[t].hand = sender[t].hand
        /\ subscribed' = subscribed /\ run' = run
    BY <1>0, <1>7 DEF SenderClearsAgent, runVars, SenderTypes, Control, Resting
  <2>4. \A k \in Kinds : queue'[k] = queue[k] \/ queue'[k] = <<>>
    BY <1>0, <1>7 DEF SenderClearsAgent, SeqTypes
  <2>5. \A k \in Kinds : Sorted(queue[k]) => Sorted(queue'[k])
    BY <2>4, SeqFacts
  <2> QED
    BY <1>o, <2>2, <2>3, <2>5, SameOrdered
<1>8. ASSUME RunBegins
      PROVE  Ordered'
  <2>1. /\ run = "none" /\ run' # "remove" /\ sender' = sender /\ subscribed' = subscribed
        /\ "steering" \in Kinds /\ "follow_up" \in Kinds
    BY <1>8 DEF RunBegins, RunOnly, Kinds
  <2>2. UNCHANGED <<items, inflight, hand, delivered>> /\ pending = <<>>
    BY <1>8, <2>1 DEF RunBegins, boxVars, Control
  <2>3. CASE UNCHANGED <<queue, pending>>
    <3>1. Items' = Items /\ Inflight' = Inflight /\ Way' = Way /\ Queued' = Queued
      BY <2>1, <2>2, <2>3, SameViews DEF Way
    <3> QED
      BY <1>o, <2>1, <2>2, <2>3, <3>1, SameOrdered
  <2>4. ASSUME NEW k \in Kinds, queue' = [queue EXCEPT ![k] = Left(@)],
               pending' = Drained(queue[k])
        PROVE  Ordered'
    <3>1. Queued = Queued' \cup Elements(pending')
      BY <1>0, <2>4, PollView
    <3>2. PollMove(Elements(pending'))
      BY <1>8, <2>1, <2>2, <3>1, SameViews DEF PollMove, Rest, Boxes, RunBegins, RunOnly
    <3> QED
      BY <1>o, <2>1, <2>4, <3>2, PollOrdered
  <2> QED
    BY <1>8, <2>1, <2>3, <2>4 DEF RunBegins
<1>9. ASSUME RunDelivers
      PROVE  Ordered'
  <2> DEFINE m == Head(pending)
  <2>1. DeliverMove(m) /\ run \in {"prompts", "turn"}
    BY <1>9, RunDeliversView DEF RunDelivers
  <2>2. /\ Way = {m} \cup Elements(Tail(pending)) \cup Queued
        /\ Way' = Elements(pending') \cup Queued
        /\ Before({m}, Elements(Tail(pending)) \cup Queued)
    BY <1>o, <2>1, NextInOnePlace
  <2>3. \A x \in Way : x.n \notin cleared
    BY <1>o, <2>1, NoneCleared
  <2>4. /\ pending \in Seq(Message) /\ pending # <<>> /\ delivered \in Seq(Message)
        /\ Sorted(Tail(pending))
    BY <1>0, <1>o, <2>1, TailFacts DEF SeqTypes, DeliverMove, Ordered, Underway, Arranged
  <2>5. Behind /\ Arranged
    BY <1>o, <2>1 DEF Ordered, Underway, Arranged
  <2>6. sender' = sender /\ subscribed' = subscribed /\ queue' = queue /\ hand' = hand
    BY <1>9 DEF RunDelivers, RunOnly
  <2>7. /\ Elements(pending') \subseteq Elements(Tail(pending)) /\ Sorted(pending')
        /\ Elements(delivered') = Elements(delivered) \cup {m}
               /\ delivered' = Append(delivered, m)
        /\ Items' = Items /\ Queued' = Queued /\ Hands' = Hands
        /\ subscribed => Inflight' = Inflight \ {m}
    BY <2>1, <2>4, SeqFacts DEF DeliverMove
  <2> HIDE DEF m
  <2>8. subscribed => Inflight = Way
    BY <1>o, <2>1, <2>3 DEF Tracked, Listed
  <2>9. Before(Elements(delivered), Way) /\ Before(Elements(delivered), {m})
    BY <2>2, <2>5, BeforeFacts DEF Arranged
  <2>10. Sorted(delivered')
    BY <2>4, <2>5, <2>7, <2>9, AppendSorted DEF Behind
  <2>11. Before({m}, Items)
    BY <2>2, <2>5, BeforeFacts DEF Arranged
  <2>12. Before(Elements(delivered'), Items')
    BY <2>5, <2>7, <2>11, BeforeFacts DEF Behind
  <2>13. subscribed => Inflight' \subseteq Elements(Tail(pending)) \cup Queued
    BY <2>2, <2>7, <2>8
  <2>14. /\ Before(Elements(delivered'), Elements(Tail(pending)) \cup Queued)
    <3>1. Before(Elements(delivered), Elements(Tail(pending)) \cup Queued)
      BY <2>2, <2>9 DEF Before
    <3> QED
      BY <2>2, <2>7, <3>1, BeforeFacts
  <2>15. Behind'
    <3>1. subscribed => Before(Elements(delivered'), Inflight')
      BY <2>13, <2>14 DEF Before
    <3> QED
      BY <2>6, <2>10, <2>12, <3>1 DEF Behind
  <2>16. Before(Elements(delivered'), Way')
    BY <2>2, <2>7, <2>14 DEF Before
  <2>17. Before(Elements(pending'), Queued')
    <3>1. Elements(Tail(pending)) \subseteq Elements(pending)
      BY <2>4, TailFacts
    <3> QED
      BY <2>5, <2>7, <3>1 DEF Arranged, Before
  <2>18. Before(Way', Items')
    BY <2>2, <2>5, <2>7 DEF Arranged, Before
  <2> QED
    BY <2>5, <2>6, <2>7, <2>15, <2>16, <2>17, <2>18 DEF Ordered, Underway, Arranged
<1>10. ASSUME RunPollsFirst
       PROVE  Ordered'
  <2>1. PollMove(Elements(pending')) /\ "steering" \in Kinds
    BY <1>10, RunPollsFirstView DEF Kinds
  <2>2. /\ pending' = Drained(queue["steering"])
               /\ queue' = [queue EXCEPT !["steering"] = Left(@)]
        /\ sender' = sender /\ subscribed' = subscribed /\ run # "remove"
    BY <1>10 DEF RunPollsFirst, RunOnly
  <2> QED
    BY <1>o, <2>1, <2>2, PollOrdered
<1>11. ASSUME RunTurn
       PROVE  Ordered'
  <2>1. Still
    BY <1>11, RunTurnView
  <2>2. /\ Items' = Items /\ Inflight' = Inflight /\ Way' = Way /\ Queued' = Queued
        /\ delivered' = delivered /\ pending' = pending /\ hand' = hand
    BY <2>1 DEF Still, Boxes, Rest, Way
  <2>3. /\ \A t \in Senders : sender'[t].hand = sender[t].hand
        /\ queue' = queue /\ (subscribed' => subscribed) /\ (run' # "remove" => run # "remove")
    BY <1>0, <1>11 DEF RunTurn, boxVars, runVars, counters, RunOnly, SenderTypes, At
  <2> QED
    BY <1>o, <2>2, <2>3, SameOrdered
<1>12. ASSUME RunDrains
       PROVE  Ordered'
  <2> DEFINE D == Elements(Drained(items[at]))
  <2>1. DrainMove(D) /\ Hands' = Hands /\ hand = <<>> /\ hand' = Drained(items[at])
    BY <1>12, RunDrainsView
  <2>2. /\ at \in Kinds /\ Drain(at) /\ run # "remove" /\ UNCHANGED <<queue, sender, subscribed>>
    BY <1>0, <1>12 DEF RunDrains, RunOnly, PlainTypes
  <2>3. Sorted(hand') /\ Before(D, Items')
    BY <2>1, <2>2, DrainOrder
  <2>4. Elements(hand') = D
    BY <2>1
  <2> HIDE DEF D
  <2>5. /\ Way' = Way \cup D
        /\ Elements(hand') \cup Hands' = Elements(hand) \cup Hands \cup D
    BY <2>1, <2>4, SeqFacts DEF DrainMove, Way
  <2> QED
    BY <1>o, <2>1, <2>2, <2>3, <2>5, DrainOrdered
<1>13. ASSUME RunSends
       PROVE  Ordered'
  <2> DEFINE x == Head(hand)
  <2>1. /\ HandMove(x) /\ Hands' = Hands /\ Elements(hand) = Elements(hand') \cup {x}
    BY <1>13, RunSendsView
  <2>2. /\ run = "send" /\ hand \in Seq(Message) /\ hand # <<>> /\ at \in Kinds
               /\ hand' = Tail(hand)
        /\ queue' = [queue EXCEPT ![at] = Append(@, x)] /\ UNCHANGED <<sender, subscribed>>
    BY <1>0, <1>13 DEF RunSends, RunOnly, SeqTypes, PlainTypes
  <2>3. Hands = {} /\ pending = <<>>
    BY <1>o, <2>2, RunAlone DEF Control
  <2>4. Sorted(hand)
    BY <1>o, <2>2 DEF Ordered, Underway, Arranged
  <2>5. Sorted(hand') /\ Before({x}, Elements(hand'))
    BY <2>2, <2>4, TailFacts
  <2> HIDE DEF x
  <2>6. Elements(hand') \cup Hands' = Elements(hand') /\ Way' = Way
    BY <2>1, <2>3 DEF HandMove, Way
  <2> QED
    BY <1>o, <2>1, <2>2, <2>3, <2>5, <2>6, HandOrdered
<1>14. ASSUME RunFlushed
       PROVE  Ordered'
  <2>1. Still
    BY <1>14, RunFlushedView
  <2>2. /\ Items' = Items /\ Inflight' = Inflight /\ Way' = Way /\ Queued' = Queued
        /\ delivered' = delivered /\ pending' = pending /\ hand' = hand
    BY <2>1 DEF Still, Boxes, Rest, Way
  <2>3. /\ \A t \in Senders : sender'[t].hand = sender[t].hand
        /\ queue' = queue /\ (subscribed' => subscribed) /\ (run' # "remove" => run # "remove")
    BY <1>0, <1>14 DEF RunFlushed, boxVars, runVars, counters, RunOnly, SenderTypes, At
  <2> QED
    BY <1>o, <2>2, <2>3, SameOrdered
<1>15. ASSUME RunPolls
       PROVE  Ordered'
  <2>1. PollMove(Elements(pending')) /\ "steering" \in Kinds
    BY <1>15, RunPollsView DEF Kinds
  <2>2. /\ pending' = Drained(queue["steering"])
               /\ queue' = [queue EXCEPT !["steering"] = Left(@)]
        /\ sender' = sender /\ subscribed' = subscribed /\ run # "remove"
    BY <1>15 DEF RunPolls, RunOnly
  <2> QED
    BY <1>o, <2>1, <2>2, PollOrdered
<1>16. ASSUME RunPollsFollowUp
       PROVE  Ordered'
  <2>1. PollMove(Elements(pending')) /\ "follow_up" \in Kinds
    BY <1>16, RunPollsFollowUpView DEF Kinds
  <2>2. /\ pending' = Drained(queue["follow_up"])
               /\ queue' = [queue EXCEPT !["follow_up"] = Left(@)]
        /\ sender' = sender /\ subscribed' = subscribed /\ run # "remove"
    BY <1>16 DEF RunPollsFollowUp, RunOnly
  <2> QED
    BY <1>o, <2>1, <2>2, PollOrdered
<1>17. ASSUME RunRestores
       PROVE  Ordered'
  <2>1. /\ run = "agent_end" /\ sender' = sender /\ subscribed' = subscribed /\ queue' = queue
        /\ Behind
    BY <1>o, <1>17 DEF RunRestores, RunOnly, Ordered
  <2>2. CASE Still
    <3>1. /\ Items' = Items /\ Inflight' = Inflight /\ Way' = Way /\ Queued' = Queued
          /\ delivered' = delivered /\ pending' = pending /\ hand' = hand
      BY <2>2 DEF Still, Boxes, Rest, Way
    <3> QED
      BY <1>o, <2>1, <3>1, SameOrdered
  <2>3. CASE RestoreMove /\ run' = "remove" /\ subscribed
    <3>1. /\ Items' = Items \cup Inflight /\ Inflight' = {} /\ delivered' = delivered
      BY <2>3 DEF RestoreMove, Rest
    <3>2. Behind'
      BY <2>1, <2>3, <3>1, BeforeFacts DEF Behind
    <3> QED
      BY <2>3, <3>2 DEF Ordered, Underway, Arranged
  <2> QED
    BY <1>17, <2>2, <2>3, RunRestoresView
<1>18. ASSUME RunRemoves
       PROVE  Ordered'
  <2>1. /\ RemoveMove(at) /\ at \in Kinds /\ run = "remove" /\ sender' = sender
        /\ subscribed' = subscribed /\ Behind
    BY <1>0, <1>o, <1>18, RunRemovesView DEF RunRemoves, RunOnly, PlainTypes, Ordered
  <2>2. Behind'
    BY <2>1 DEF RemoveMove, Boxes, Rest, Behind
  <2>3. CASE at = "steering"
    BY <1>18, <2>1, <2>2, <2>3 DEF RunRemoves, Ordered, Underway, Arranged
  <2>4. CASE at = "follow_up"
    <3>1. Way' = {} /\ Queued' = {}
      BY <1>o, <1>18, <2>4, AllRemoved
    <3>2. hand' = <<>> /\ pending' = <<>> /\ \A t \in Senders : sender'[t].hand = <<>>
      BY <1>o, <2>1, RunAlone DEF Control, RemoveMove
    <3>3. \A k \in Kinds : queue'[k] = <<>>
      <4>1. \A k \in Kinds : queue'[k] \in Seq(Message) /\ Elements(queue'[k]) \subseteq Queued'
        BY SeqStep, BothKinds DEF SeqTypes, Queued
      <4>2. \A k \in Kinds : Elements(queue'[k]) = {}
        BY <3>1, <4>1
      <4> QED
        BY <4>1, <4>2, TailFacts
    <3>4. Hands' = {} /\ Elements(<<>>) = {} /\ Sorted(<<>>)
      BY <3>2, SeqFacts DEF Hands
    <3> QED
      BY <2>2, <3>1, <3>2, <3>3, <3>4, BeforeFacts DEF Ordered, Underway, Arranged
  <2> QED
    BY <2>1, <2>3, <2>4, BothKinds
<1>19. ASSUME RunFails
       PROVE  Ordered'
  <2>1. Still
    BY <1>19, RunFailsView
  <2>2. /\ Items' = Items /\ Inflight' = Inflight /\ Way' = Way /\ Queued' = Queued
        /\ delivered' = delivered /\ pending' = pending /\ hand' = hand
    BY <2>1 DEF Still, Boxes, Rest, Way
  <2>3. /\ \A t \in Senders : sender'[t].hand = sender[t].hand
        /\ queue' = queue /\ (subscribed' => subscribed) /\ (run' # "remove" => run # "remove")
    BY <1>0, <1>19 DEF RunFails, boxVars, runVars, counters, RunOnly, SenderTypes, At
  <2> QED
    BY <1>o, <2>2, <2>3, SameOrdered
<1>20. ASSUME RunFinishes
       PROVE  Ordered'
  <2>1. Still
    BY <1>20, RunFinishesView
  <2>2. /\ Items' = Items /\ Inflight' = Inflight /\ Way' = Way /\ Queued' = Queued
        /\ delivered' = delivered /\ pending' = pending /\ hand' = hand
    BY <2>1 DEF Still, Boxes, Rest, Way
  <2>3. /\ \A t \in Senders : sender'[t].hand = sender[t].hand
        /\ queue' = queue /\ (subscribed' => subscribed) /\ (run' # "remove" => run # "remove")
    BY <1>0, <1>20 DEF RunFinishes, boxVars, runVars, counters, RunOnly, SenderTypes, At
  <2> QED
    BY <1>o, <2>2, <2>3, SameOrdered
<1>21. ASSUME Shutdown
       PROVE  Ordered'
  <2>1. Still
    BY <1>21, ShutdownView
  <2>2. /\ Items' = Items /\ Inflight' = Inflight /\ Way' = Way /\ Queued' = Queued
        /\ delivered' = delivered /\ pending' = pending /\ hand' = hand
    BY <2>1 DEF Still, Boxes, Rest, Way
  <2>3. /\ \A t \in Senders : sender'[t].hand = sender[t].hand
        /\ queue' = queue /\ (subscribed' => subscribed) /\ (run' # "remove" => run # "remove")
    BY <1>0, <1>21 DEF Shutdown, boxVars, runVars, counters, RunOnly, SenderTypes, At
  <2> QED
    BY <1>o, <2>2, <2>3, SameOrdered
<1>22. ASSUME Dispose
       PROVE  Ordered'
  <2>1. Still
    BY <1>22, DisposeView
  <2>2. /\ Items' = Items /\ Inflight' = Inflight /\ Way' = Way /\ Queued' = Queued
        /\ delivered' = delivered /\ pending' = pending /\ hand' = hand
    BY <2>1 DEF Still, Boxes, Rest, Way
  <2>3. /\ \A t \in Senders : sender'[t].hand = sender[t].hand
        /\ queue' = queue /\ (subscribed' => subscribed) /\ (run' # "remove" => run # "remove")
    BY <1>0, <1>22 DEF Dispose, boxVars, runVars, counters, RunOnly, SenderTypes, At
  <2> QED
    BY <1>o, <2>2, <2>3, SameOrdered
<1>23. CASE UNCHANGED vars
  BY <1>23, <1>0 DEF vars, boxVars, runVars, counters, Ordered, Quiet, Behind, Underway,
     Arranged, Items, Inflight, Way, Queued, Hands
<1> QED
  BY <1>1, <1>2, <1>3, <1>4, <1>5, <1>6, <1>7, <1>8, <1>9, <1>10, <1>11, <1>12, <1>13, <1>14,
     <1>15, <1>16, <1>17, <1>18, <1>19, <1>20, <1>21, <1>22, <1>23 DEF Next, SenderStep, RunStep

-----------------------------------------------------------------------------
(* The theorems.                                                           *)

\* In the initial states there are no messages.
LEMMA InitIInv ==
    ASSUME Init
    PROVE  IInv
<1>1. TypeOK
  <2>1. <<>> \in Seq(Message) /\ "steering" \in Kinds
    BY SeqFacts DEF Kinds
  <2>2. SeqTypes
    BY <2>1 DEF Init, SeqTypes
  <2>3. PlainTypes
    <3>1. /\ sent \in 0..MaxMessages /\ turns \in 0..MaxTurns /\ runs \in 0..MaxRuns
          /\ restored \in SUBSET (1..MaxMessages) /\ cleared \in SUBSET (1..MaxMessages)
      BY MailboxAssumption DEF Init
    <3> QED
      BY <2>1, <3>1 DEF Init, PlainTypes
  <2>4. SenderTypes
    BY <2>1 DEF Init, SenderTypes, Resting
  <2> QED
    BY <2>2, <2>3, <2>4, TypeParts
<1>2. /\ Elements(<<>>) = {} /\ Sorted(<<>>) /\ "steering" \in Kinds /\ "follow_up" \in Kinds
      /\ \A k \in Kinds : items[k] = <<>> /\ inflight[k] = <<>> /\ queue[k] = <<>>
      /\ \A s \in Senders : sender[s].hand = <<>> /\ sender[s].pc = "out"
  BY SeqFacts DEF Init, Kinds, Resting
<1>3. Items = {} /\ Inflight = {} /\ Queued = {} /\ Hands = {} /\ Way = {}
          /\ Elements(delivered) = {}
  BY <1>2 DEF Init, Items, Inflight, Queued, Hands, Way
<1>4. Kinded
  BY <1>2 DEF Kinded, OfKind, Init
<1>5. Control
  BY <1>2 DEF Control, Init, Overlap, Holds, Clears, IsStreaming
<1>6. Known
  BY <1>3 DEF Known, Init
<1>7. Mailbox
  BY <1>2 DEF Mailbox, Before
<1>8. NothingLost
  <2>1. InMailbox = {m.n : m \in Items \cup Inflight} /\ Numbers(delivered) = {}
    BY <1>1, <1>3, BothNumbers, NumbersOf DEF InMailbox, Items, Inflight, TypeOK
  <2> QED
    BY <1>3, <2>1 DEF NothingLost, Init
<1>9. Tracked
  BY <1>2, <1>3 DEF Tracked, Listed, Ending, Removing, Clearing, Clears, Init
<1>10. Ordered
  BY <1>2, <1>3 DEF Ordered, Behind, Underway, Arranged, Before, Init
<1> QED
  BY <1>1, <1>4, <1>5, <1>6, <1>7, <1>8, <1>9, <1>10 DEF IInv

LEMMA NextIInv ==
    ASSUME IInv, [Next]_vars
    PROVE  IInv'
<1>1. TypeOK /\ Kinded /\ Control /\ Known /\ Mailbox /\ NothingLost /\ Tracked /\ Ordered
  BY DEF IInv
<1>2. TypeOK'
  <2>1. SeqTypes' /\ PlainTypes' /\ SenderTypes'
    BY <1>1, SeqStep, PlainStep, SenderStepTypes
  <2> QED
    BY <2>1 DEF TypeOK, SeqTypes, PlainTypes, SenderTypes
<1>3. Kinded' /\ Control' /\ Mailbox' /\ Moved
  BY <1>1, KindedStep, ControlStep, MailboxStep, StepMoves
<1>4. Known' /\ NothingLost'
  BY <1>1, <1>2, <1>3, KnownStep, NothingLostStep
<1>5. Tracked' /\ Ordered'
  BY <1>1, <1>3, TrackedStep, OrderedStep
<1> QED
  BY <1>2, <1>3, <1>4, <1>5 DEF IInv

\* The inductive invariant holds in every state, for any number of senders, messages and runs.
THEOREM Invariance == Spec => []IInv
<1>1. Init => IInv
  BY InitIInv
<1>2. IInv /\ [Next]_vars => IInv'
  BY NextIInv
<1> QED
  BY <1>1, <1>2, PTL DEF Spec

\* A message that steer or follow_up accepted is in the mailbox until it is delivered or
\* cleared, whatever the threads do and whatever fails (_queue_turn_input,
\* restore_unacknowledged, clear).
THEOREM NothingLostCorrect == Spec => []NothingLost
<1>1. IInv => NothingLost
  BY DEF IInv
<1> QED
  BY <1>1, Invariance, PTL

\* The variables have their types, and as long as no two threads move messages at once and
\* every run reports its end, the mailbox holds as inflight what is on its way to the
\* conversation (drain_for_loop, acknowledge).
THEOREM InflightSoundCorrect == Spec => []InflightSound
<1>1. ASSUME IInv PROVE InflightSound
  <2>1. TypeOK /\ Tracked
    BY <1>1 DEF IInv
  <2>2. InflightOnTheWay
    <3> SUFFICES ASSUME Quiet, subscribed, run \notin {"failing", "agent_end", "remove"}
                 PROVE  Numbers(Both(inflight)) = OnTheWay \ cleared
      BY DEF InflightOnTheWay, Quiet
    <3>1. Inflight = {m \in Way : m.n \notin cleared}
      BY <2>1 DEF Tracked, Listed
    <3>2. /\ inflight["steering"] \in Seq(Message) /\ inflight["follow_up"] \in Seq(Message)
          /\ queue["steering"] \in Seq(Message) /\ queue["follow_up"] \in Seq(Message)
          /\ pending \in Seq(Message) /\ hand \in Seq(Message)
          /\ \A s \in Senders : sender[s].hand \in Seq(Message)
      BY <2>1 DEF TypeOK, Kinds
    <3>3. /\ Both(inflight) \in Seq(Message) /\ Elements(Both(inflight)) = Inflight
          /\ Both(queue) \in Seq(Message) /\ Elements(Both(queue)) = Queued
      BY <3>2, SeqFacts, ConcatFacts DEF Both, Inflight, Queued
    <3>4. /\ Both(queue) \o pending \in Seq(Message)
          /\ Elements(Both(queue) \o pending) = Queued \cup Elements(pending)
      BY <3>2, <3>3, SeqFacts, ConcatFacts
    <3>5. /\ Both(queue) \o pending \o hand \in Seq(Message)
          /\ Elements(Both(queue) \o pending \o hand) =
                 Queued \cup Elements(pending) \cup Elements(hand)
      BY <3>2, <3>4, SeqFacts, ConcatFacts
    <3>6. /\ Numbers(Both(inflight)) = {m.n : m \in Inflight}
          /\ Numbers(Both(queue) \o pending \o hand) =
                 {m.n : m \in Queued \cup Elements(pending) \cup Elements(hand)}
          /\ \A s \in Senders : Numbers(sender[s].hand) = {m.n : m \in Elements(sender[s].hand)}
      BY <3>2, <3>3, <3>5, NumbersOf
    <3>7. UNION {Numbers(sender[s].hand) : s \in Senders} = {m.n : m \in Hands}
      <4>1. \A n : n \in UNION {Numbers(sender[s].hand) : s \in Senders} <=>
                     \E s \in Senders : n \in Numbers(sender[s].hand)
        OBVIOUS
      <4>2. \A m : m \in Hands <=> \E s \in Senders : m \in Elements(sender[s].hand)
        BY DEF Hands
      <4>3. \A n : n \in UNION {Numbers(sender[s].hand) : s \in Senders} <=> \E m \in Hands :
                n = m.n
        BY <3>6, <4>1, <4>2
      <4> QED
        BY <4>3
    <3>8. OnTheWay = {m.n : m \in Way}
      BY <3>6, <3>7 DEF OnTheWay, Way
    <3> QED
      BY <3>1, <3>6, <3>8
  <2> QED
    BY <2>1, <2>2 DEF InflightSound
<1> QED
  BY <1>1, Invariance, PTL

\* Then a message is delivered once, and messages of a kind in the order in which they were
\* sent, restored ones too (restore_unacknowledged puts them before the others).
THEOREM InOrderCorrect == Spec => []InOrder
<1>1. ASSUME IInv PROVE InOrder
  BY <1>1 DEF IInv, Ordered, Behind, Sorted, Quiet, InOrder
<1> QED
  BY <1>1, Invariance, PTL

-----------------------------------------------------------------------------
(* The elements of a sequence that are in a set: Only.                     *)

\* f goes through s as Only does, up to n.
Chooses(f, s, S, n) ==
    f = [i \in 0..n |-> IF i = 0 THEN <<>>
                        ELSE IF s[i] \in S THEN Append(f[i - 1], s[i]) ELSE f[i - 1]]

\* There is such a function: the recursion of Only is well defined.
LEMMA ChoosesExists ==
    ASSUME NEW s \in Seq(Nat), NEW S
    PROVE  \E f : Chooses(f, s, S, Len(s))
<1> DEFINE T == {n \in Nat : ~\E f : Chooses(f, s, S, n)}
<1>1. Len(s) \in Nat
  OBVIOUS
<1>2. SUFFICES ASSUME T # {} PROVE FALSE
  BY <1>1
<1>3. PICK n \in T : \A y \in T : ~(y < n)
  <2>1. T \subseteq Nat
    OBVIOUS
  <2> QED
    BY <1>2, <2>1, Least
<1>4. n # 0
  <2>1. Chooses([i \in 0..0 |-> <<>>], s, S, 0)
    BY DEF Chooses
  <2> QED
    BY <2>1
<1>5. n - 1 \in Nat /\ n - 1 < n
  BY <1>4
<1>6. PICK f : Chooses(f, s, S, n - 1)
  BY <1>3, <1>5
<1> DEFINE g == [i \in 0..n |-> IF i < n THEN f[i]
                                ELSE IF s[n] \in S THEN Append(f[n - 1], s[n]) ELSE f[n - 1]]
<1>7. \A i \in 0..(n - 1) : g[i] = f[i]
  BY <1>5
<1>8. g[n] = IF s[n] \in S THEN Append(f[n - 1], s[n]) ELSE f[n - 1]
  BY <1>5
<1>9. \A i \in 0..(n - 1) : f[i] = IF i = 0 THEN <<>>
          ELSE IF s[i] \in S THEN Append(f[i - 1], s[i]) ELSE f[i - 1]
  BY <1>6 DEF Chooses
<1>10. g[n - 1] = f[n - 1]
  BY <1>5, <1>7
<1>11. ASSUME NEW i \in 0..n
       PROVE  g[i] = IF i = 0 THEN <<>>
          ELSE IF s[i] \in S THEN Append(g[i - 1], s[i]) ELSE g[i - 1]
  <2>1. CASE i = n
    BY <1>4, <1>8, <1>10, <2>1
  <2>2. CASE i # n /\ i = 0
    <3>1. i \in 0..(n - 1)
      BY <1>5, <2>2
    <3> QED
      BY <1>7, <1>9, <2>2, <3>1
  <2>3. CASE i # n /\ i # 0
    <3>1. i \in 0..(n - 1) /\ i - 1 \in 0..(n - 1)
      BY <1>5, <2>3
    <3>2. g[i] = f[i] /\ g[i - 1] = f[i - 1]
      BY <1>7, <3>1
    <3> QED
      BY <1>9, <2>3, <3>1, <3>2
  <2> QED
    BY <2>1, <2>2, <2>3
<1>12. DOMAIN g = 0..n /\ g = [i \in 0..n |-> g[i]]
  OBVIOUS
<1> HIDE DEF g
<1>13. Chooses(g, s, S, n)
  BY <1>11, <1>12 DEF Chooses
<1> QED
  BY <1>3, <1>13

\* What Only goes through.
LEMMA OnlyChooses ==
    ASSUME NEW s \in Seq(Nat), NEW S
    PROVE  \E f : Chooses(f, s, S, Len(s)) /\ Only(s, S) = f[Len(s)]
<1> DEFINE F == CHOOSE f : Chooses(f, s, S, Len(s))
<1>1. Chooses(F, s, S, Len(s))
  BY ChoosesExists
<1>2. Only(s, S) = F[Len(s)]
  BY DEF Only, Chooses
<1> QED
  BY <1>1, <1>2

\* Only takes one element after the other.
LEMMA OnlyAppend ==
    ASSUME NEW s \in Seq(Nat), NEW x \in Nat, NEW S
    PROVE  Only(Append(s, x), S) = IF x \in S THEN Append(Only(s, S), x) ELSE Only(s, S)
<1> DEFINE u == Append(s, x)
           n == Len(s)
<1>1. n \in Nat /\ u \in Seq(Nat) /\ Len(u) = n + 1 /\ u[n + 1] = x /\ \A i \in 1..n : u[i] = s[i]
  OBVIOUS
<1>2. PICK f : Chooses(f, s, S, n) /\ Only(s, S) = f[n]
  BY OnlyChooses
<1>3. PICK g : Chooses(g, u, S, n + 1) /\ Only(u, S) = g[n + 1]
  BY <1>1, OnlyChooses
<1> HIDE DEF u, n
<1>4. \A i \in 0..n : f[i] = IF i = 0 THEN <<>> ELSE IF s[i] \in S THEN Append(f[i - 1], s[i]) ELSE f[i - 1]
  BY <1>1, <1>2 DEF Chooses
<1>5. \A i \in 0..(n + 1) :
          g[i] = IF i = 0 THEN <<>> ELSE IF u[i] \in S THEN Append(g[i - 1], u[i]) ELSE g[i - 1]
  BY <1>1, <1>3 DEF Chooses
<1> DEFINE T == {i \in 0..n : f[i] # g[i]}
<1>6. T = {}
  <2>1. SUFFICES ASSUME T # {} PROVE FALSE
    OBVIOUS
  <2>2. T \subseteq Nat
    BY <1>1
  <2>3. PICK k \in T : \A y \in T : ~(y < k)
    BY <2>1, <2>2, Least
  <2>4. k \in 0..n /\ k \in 0..(n + 1) /\ f[k] # g[k]
    BY <1>1
  <2>5. k # 0
    BY <1>4, <1>5, <2>4
  <2>6. k - 1 \in 0..n /\ k - 1 < k /\ k \in 1..n
    BY <1>1, <2>4, <2>5
  <2>7. f[k - 1] = g[k - 1]
    BY <2>3, <2>6
  <2>8. f[k] = IF s[k] \in S THEN Append(f[k - 1], s[k]) ELSE f[k - 1]
    BY <1>4, <2>4, <2>5
  <2>9. g[k] = IF u[k] \in S THEN Append(g[k - 1], u[k]) ELSE g[k - 1]
    BY <1>5, <2>4, <2>5
  <2>10. u[k] = s[k]
    BY <1>1, <2>6
  <2>11. QED
    BY <2>4, <2>7, <2>8, <2>9, <2>10
<1>7. f[n] = g[n]
  BY <1>1, <1>6
<1>8. n + 1 \in 0..(n + 1) /\ n + 1 # 0 /\ (n + 1) - 1 = n
  BY <1>1
<1>9. g[n + 1] = IF x \in S THEN Append(g[n], x) ELSE g[n]
  BY <1>1, <1>5, <1>8
<1>10. QED
  BY <1>2, <1>3, <1>7, <1>9 DEF u

\* Only of nothing is nothing.
LEMMA OnlyEmpty ==
    ASSUME NEW S
    PROVE  Only(<<>>, S) = <<>>
<1>1. <<>> \in Seq(Nat) /\ Len(<<>>) = 0
  OBVIOUS
<1>2. PICK f : Chooses(f, <<>>, S, 0) /\ Only(<<>>, S) = f[0]
  BY <1>1, OnlyChooses
<1>3. QED
  BY <1>2 DEF Chooses

\* A sequence that is not empty has a last element.
LEMMA LastSplit ==
    ASSUME NEW X, NEW s \in Seq(X), s # <<>>
    PROVE  \E u \in Seq(X), x \in X : s = Append(u, x) /\ Len(u) = Len(s) - 1
<1> DEFINE u == SubSeq(s, 1, Len(s) - 1)
           x == s[Len(s)]
<1>1. Len(s) \in Nat /\ Len(s) # 0
  OBVIOUS
<1>2. u \in Seq(X) /\ x \in X /\ Len(u) = Len(s) - 1 /\ \A i \in 1..(Len(s) - 1) : u[i] = s[i]
  <2>1. Len(s) - 1 \in Nat /\ Len(s) \in 1..Len(s)
    BY <1>1
  <2>2. x \in X
    BY <2>1
  <2>3. u = [i \in 1..(Len(s) - 1) |-> s[i]]
    BY <2>1
  <2> HIDE DEF u
  <2>4. u \in Seq(X) /\ Len(u) = Len(s) - 1 /\ \A i \in 1..(Len(s) - 1) : u[i] = s[i]
    <3>1. \A i \in 1..(Len(s) - 1) : s[i] \in X
      BY <2>1
    <3>2. u \in Seq(X)
      BY <2>1, <2>3, <3>1
    <3>3. DOMAIN u = 1..(Len(s) - 1) /\ \A i \in 1..(Len(s) - 1) : u[i] = s[i]
      BY <2>3
    <3>4. Len(u) = Len(s) - 1
      BY <2>1, <3>2, <3>3
    <3>5. QED
      BY <3>2, <3>3, <3>4
  <2>5. QED
    BY <2>2, <2>4
<1>x. x = s[Len(s)]
  OBVIOUS
<1> HIDE DEF u, x
<1>3. Append(u, x) \in Seq(X) /\ Len(Append(u, x)) = Len(s) /\ \A i \in 1..Len(s) : Append(u, x)[i] = s[i]
  BY <1>1, <1>2, <1>x
<1>4. s = Append(u, x)
  BY <1>3
<1>5. QED
  BY <1>2, <1>4

\* The elements of a sequence that grows.
LEMMA RangeAppend ==
    ASSUME NEW X, NEW s \in Seq(X), NEW x \in X
    PROVE  Range(Append(s, x)) = Range(s) \union {x}
<1>1. Len(s) \in Nat /\ Append(s, x) \in Seq(X) /\ Len(Append(s, x)) = Len(s) + 1
      /\ DOMAIN Append(s, x) = 1..(Len(s) + 1) /\ DOMAIN s = 1..Len(s)
      /\ Append(s, x)[Len(s) + 1] = x /\ \A i \in 1..Len(s) : Append(s, x)[i] = s[i]
  OBVIOUS
<1>2. ASSUME NEW i \in DOMAIN Append(s, x) PROVE Append(s, x)[i] \in Range(s) \union {x}
  BY <1>1, <1>2 DEF Range
<1>3. ASSUME NEW i \in DOMAIN s PROVE s[i] \in Range(Append(s, x))
  <2>1. i \in DOMAIN Append(s, x) /\ Append(s, x)[i] = s[i]
    BY <1>1, <1>3
  <2>2. QED
    BY <2>1 DEF Range
<1>4. x \in Range(Append(s, x))
  <2>1. Len(s) + 1 \in DOMAIN Append(s, x)
    BY <1>1
  <2>2. QED
    BY <1>1, <2>1 DEF Range
<1>5. QED
  BY <1>2, <1>3, <1>4 DEF Range

\* Induction over sequences of numbers, with a set in the place of the predicate.
LEMMA OneByOne ==
    ASSUME NEW Good, <<>> \in Good,
           \A u \in Seq(Nat), x \in Nat : u \in Good => Append(u, x) \in Good
    PROVE  \A s \in Seq(Nat) : s \in Good
<1> DEFINE T == {n \in Nat : \E s \in Seq(Nat) : Len(s) = n /\ s \notin Good}
<1>1. ASSUME T # {} PROVE FALSE
  <2>1. T \subseteq Nat
    OBVIOUS
  <2>2. PICK n \in T : \A y \in T : ~(y < n)
    BY <1>1, <2>1, Least
  <2>3. PICK s \in Seq(Nat) : Len(s) = n /\ s \notin Good
    BY <2>2
  <2>4. s # <<>>
    BY <2>3
  <2>5. PICK u \in Seq(Nat), x \in Nat : s = Append(u, x) /\ Len(u) = n - 1
    <3>1. \E u \in Seq(Nat), x \in Nat : s = Append(u, x) /\ Len(u) = Len(s) - 1
      BY <2>4, LastSplit
    <3>2. QED
      BY <2>3, <3>1
  <2>6. n - 1 \in Nat /\ n - 1 < n
    BY <2>3, <2>4, <2>5
  <2>7. u \in Good
    BY <2>2, <2>5, <2>6
  <2>8. QED
    BY <2>3, <2>5, <2>7
<1>2. QED
  <2>1. SUFFICES ASSUME NEW s \in Seq(Nat), s \notin Good PROVE FALSE
    OBVIOUS
  <2>2. Len(s) \in T
    BY <2>1
  <2>3. QED
    BY <1>1, <2>2

\* The empty sequence has no elements.
LEMMA RangeEmpty == Range(<<>>) = {} /\ <<>> \in Seq(Nat)
  BY DEF Range

\* What Only takes.
LEMMA OnlyFacts ==
    ASSUME NEW S
    PROVE  \A s \in Seq(Nat) : Only(s, S) \in Seq(Nat) /\ Range(Only(s, S)) = Range(s) \intersect S
<1> DEFINE Good == {s \in Seq(Nat) : Only(s, S) \in Seq(Nat) /\ Range(Only(s, S)) = Range(s) \intersect S}
<1>1. <<>> \in Good
  BY OnlyEmpty, RangeEmpty
<1>2. ASSUME NEW u \in Seq(Nat), NEW x \in Nat, u \in Good PROVE Append(u, x) \in Good
  <2>1. Only(u, S) \in Seq(Nat) /\ Range(Only(u, S)) = Range(u) \intersect S
    BY <1>2
  <2>2. Only(Append(u, x), S) = IF x \in S THEN Append(Only(u, S), x) ELSE Only(u, S)
    BY OnlyAppend
  <2>3. Range(Append(u, x)) = Range(u) \union {x} /\ Append(u, x) \in Seq(Nat)
    BY RangeAppend
  <2>4. Range(Append(Only(u, S), x)) = Range(Only(u, S)) \union {x} /\ Append(Only(u, S), x) \in Seq(Nat)
    BY <2>1, RangeAppend
  <2>5. CASE x \in S
    BY <2>1, <2>2, <2>3, <2>4, <2>5
  <2>6. CASE x \notin S
    BY <2>1, <2>2, <2>3, <2>6
  <2>7. QED
    BY <2>5, <2>6
<1> HIDE DEF Good
<1>3. \A s \in Seq(Nat) : s \in Good
  BY <1>1, <1>2, OneByOne
<1>4. QED
  BY <1>3 DEF Good

\* Appending to the second of two sequences.
LEMMA ConcatAppend ==
    ASSUME NEW s \in Seq(Nat), NEW u \in Seq(Nat), NEW x \in Nat
    PROVE  s \o Append(u, x) = Append(s \o u, x)
  OBVIOUS

\* Only of a sequence continued by another.
LEMMA OnlyConcat ==
    ASSUME NEW S, NEW s \in Seq(Nat)
    PROVE  \A u \in Seq(Nat) : Only(s \o u, S) = Only(s, S) \o Only(u, S)
<1> DEFINE Good == {u \in Seq(Nat) : Only(s \o u, S) = Only(s, S) \o Only(u, S)}
<1>0. Only(s, S) \in Seq(Nat)
  BY OnlyFacts
<1>1. <<>> \in Good
  <2>1. s \o <<>> = s /\ Only(s, S) \o <<>> = Only(s, S)
    BY <1>0
  <2>2. QED
    BY <2>1, OnlyEmpty, RangeEmpty
<1>2. ASSUME NEW u \in Seq(Nat), NEW x \in Nat, u \in Good PROVE Append(u, x) \in Good
  <2>1. Only(s \o u, S) = Only(s, S) \o Only(u, S) /\ Only(u, S) \in Seq(Nat)
    BY <1>2, OnlyFacts
  <2>2. Only(Append(u, x), S) = IF x \in S THEN Append(Only(u, S), x) ELSE Only(u, S)
    BY OnlyAppend
  <2>3. s \o u \in Seq(Nat) /\ s \o Append(u, x) = Append(s \o u, x)
    <3>1. s \o u \in Seq(Nat)
      OBVIOUS
    <3>2. QED
      BY <3>1, ConcatAppend
  <2>4. Only(s \o Append(u, x), S) = IF x \in S THEN Append(Only(s \o u, S), x) ELSE Only(s \o u, S)
    <3> DEFINE w == s \o u
    <3>1. w \in Seq(Nat)
      BY <2>3
    <3> HIDE DEF w
    <3>2. Only(Append(w, x), S) = IF x \in S THEN Append(Only(w, S), x) ELSE Only(w, S)
      BY <3>1, OnlyAppend
    <3>3. QED
      BY <2>3, <3>2, Zenon DEF w
  <2>5. Only(s, S) \o Append(Only(u, S), x) = Append(Only(s, S) \o Only(u, S), x)
    BY <1>0, <2>1, ConcatAppend
  <2>6. Only(s \o Append(u, x), S) = Only(s, S) \o Only(Append(u, x), S)
    <3>1. CASE x \in S
      BY <2>1, <2>2, <2>4, <2>5, <3>1
    <3>2. CASE x \notin S
      BY <2>1, <2>2, <2>4, <3>2
    <3>3. QED
      BY <3>1, <3>2
  <2>7. QED
    BY <2>6
<1> HIDE DEF Good
<1>3. \A u \in Seq(Nat) : u \in Good
  BY <1>1, <1>2, OneByOne
<1>4. QED
  BY <1>3 DEF Good

\* Only of Only.
LEMMA OnlyTwice ==
    ASSUME NEW S, NEW T
    PROVE  \A s \in Seq(Nat) : Only(Only(s, S), T) = Only(s, S \intersect T)
<1> DEFINE Good == {s \in Seq(Nat) : Only(Only(s, S), T) = Only(s, S \intersect T)}
<1>1. <<>> \in Good
  BY OnlyEmpty, RangeEmpty
<1>2. ASSUME NEW u \in Seq(Nat), NEW x \in Nat, u \in Good PROVE Append(u, x) \in Good
  <2>1. Only(Only(u, S), T) = Only(u, S \intersect T) /\ Only(u, S) \in Seq(Nat)
    BY <1>2, OnlyFacts
  <2>2. Only(Append(u, x), S) = IF x \in S THEN Append(Only(u, S), x) ELSE Only(u, S)
    BY OnlyAppend
  <2>3. Only(Append(Only(u, S), x), T) = IF x \in T THEN Append(Only(Only(u, S), T), x) ELSE Only(Only(u, S), T)
    BY <2>1, OnlyAppend
  <2>4. Only(Append(u, x), S \intersect T) =
          IF x \in S \intersect T THEN Append(Only(u, S \intersect T), x) ELSE Only(u, S \intersect T)
    BY OnlyAppend
  <2>5. Only(Only(Append(u, x), S), T) = Only(Append(u, x), S \intersect T)
    <3>1. CASE x \in S /\ x \in T
      BY <2>1, <2>2, <2>3, <2>4, <3>1
    <3>2. CASE x \in S /\ x \notin T
      BY <2>1, <2>2, <2>3, <2>4, <3>2
    <3>3. CASE x \notin S
      BY <2>1, <2>2, <2>4, <3>3
    <3>4. QED
      BY <3>1, <3>2, <3>3
  <2>6. QED
    BY <2>5
<1> HIDE DEF Good
<1>3. \A u \in Seq(Nat) : u \in Good
  BY <1>1, <1>2, OneByOne
<1>4. QED
  BY <1>3 DEF Good

\* Only looks at the elements there are.
LEMMA OnlySame ==
    ASSUME NEW S, NEW T
    PROVE  \A s \in Seq(Nat) : Range(s) \intersect S = Range(s) \intersect T => Only(s, S) = Only(s, T)
<1> DEFINE Good == {s \in Seq(Nat) : Range(s) \intersect S = Range(s) \intersect T => Only(s, S) = Only(s, T)}
<1>1. <<>> \in Good
  BY OnlyEmpty, RangeEmpty
<1>2. ASSUME NEW u \in Seq(Nat), NEW x \in Nat, u \in Good PROVE Append(u, x) \in Good
  <2>1. Range(u) \intersect S = Range(u) \intersect T => Only(u, S) = Only(u, T)
    BY <1>2
  <2>2. Only(Append(u, x), S) = IF x \in S THEN Append(Only(u, S), x) ELSE Only(u, S)
    BY OnlyAppend
  <2>3. Only(Append(u, x), T) = IF x \in T THEN Append(Only(u, T), x) ELSE Only(u, T)
    BY OnlyAppend
  <2>4. Range(Append(u, x)) = Range(u) \union {x}
    BY RangeAppend
  <2>5. SUFFICES ASSUME Range(Append(u, x)) \intersect S = Range(Append(u, x)) \intersect T
                 PROVE  Only(Append(u, x), S) = Only(Append(u, x), T)
    OBVIOUS
  <2>6. (x \in S <=> x \in T) /\ Range(u) \intersect S = Range(u) \intersect T
    BY <2>4, <2>5
  <2>7. QED
    BY <2>1, <2>2, <2>3, <2>6
<1> HIDE DEF Good
<1>3. \A u \in Seq(Nat) : u \in Good
  BY <1>1, <1>2, OneByOne
<1>4. QED
  BY <1>3 DEF Good

\* Only of all is all.
LEMMA OnlyAll ==
    ASSUME NEW S
    PROVE  \A s \in Seq(Nat) : Range(s) \subseteq S => Only(s, S) = s
<1> DEFINE Good == {s \in Seq(Nat) : Range(s) \subseteq S => Only(s, S) = s}
<1>1. <<>> \in Good
  BY OnlyEmpty, RangeEmpty
<1>2. ASSUME NEW u \in Seq(Nat), NEW x \in Nat, u \in Good PROVE Append(u, x) \in Good
  <2>1. Range(u) \subseteq S => Only(u, S) = u
    BY <1>2
  <2>2. Only(Append(u, x), S) = IF x \in S THEN Append(Only(u, S), x) ELSE Only(u, S)
    BY OnlyAppend
  <2>3. Range(Append(u, x)) = Range(u) \union {x}
    BY RangeAppend
  <2>4. Range(Append(u, x)) \subseteq S => Only(Append(u, x), S) = Append(u, x)
    BY <2>1, <2>2, <2>3
  <2>5. QED
    BY <2>4
<1> HIDE DEF Good
<1>3. \A u \in Seq(Nat) : u \in Good
  BY <1>1, <1>2, OneByOne
<1>4. QED
  BY <1>3 DEF Good

\* Every two elements of s, in their order, are in R.
Arrayed(s, R) == \A i, j \in DOMAIN s : i < j => <<s[i], s[j]>> \in R

\* The order of a sequence that grows by one element.
LEMMA ArrayedAppend ==
    ASSUME NEW s \in Seq(Nat), NEW x \in Nat, NEW R
    PROVE  Arrayed(Append(s, x), R) <=> Arrayed(s, R) /\ \A y \in Range(s) : <<y, x>> \in R
<1> DEFINE u == Append(s, x)
<1>1. /\ Len(s) \in Nat /\ DOMAIN u = 1..(Len(s) + 1) /\ DOMAIN s = 1..Len(s)
      /\ u[Len(s) + 1] = x /\ \A i \in 1..Len(s) : u[i] = s[i]
  OBVIOUS
<1> HIDE DEF u
<1>2. ASSUME Arrayed(u, R) PROVE Arrayed(s, R) /\ \A y \in Range(s) : <<y, x>> \in R
  <2>1. Arrayed(s, R)
    BY <1>1, <1>2 DEF Arrayed
  <2>2. ASSUME NEW i \in DOMAIN s PROVE <<s[i], x>> \in R
    <3>1. i \in DOMAIN u /\ Len(s) + 1 \in DOMAIN u /\ i < Len(s) + 1 /\ u[i] = s[i]
      BY <1>1, <2>2
    <3>2. QED
      BY <1>1, <1>2, <3>1 DEF Arrayed
  <2>3. QED
    BY <2>1, <2>2 DEF Range
<1>3. ASSUME Arrayed(s, R), \A y \in Range(s) : <<y, x>> \in R PROVE Arrayed(u, R)
  <2>1. SUFFICES ASSUME NEW i \in DOMAIN u, NEW j \in DOMAIN u, i < j PROVE <<u[i], u[j]>> \in R
    BY DEF Arrayed
  <2>2. i \in DOMAIN s /\ u[i] = s[i]
    BY <1>1, <2>1
  <2>3. CASE j = Len(s) + 1
    BY <1>1, <1>3, <2>2, <2>3 DEF Range
  <2>4. CASE j # Len(s) + 1
    <3>1. j \in DOMAIN s /\ u[j] = s[j]
      BY <1>1, <2>1, <2>4
    <3>2. QED
      BY <1>3, <2>1, <2>2, <3>1 DEF Arrayed
  <2>5. QED
    BY <2>3, <2>4
<1>4. QED
  BY <1>2, <1>3 DEF u

\* Only keeps the order.
LEMMA OnlyArrayed ==
    ASSUME NEW S, NEW R
    PROVE  \A s \in Seq(Nat) : Arrayed(s, R) => Arrayed(Only(s, S), R)
<1> DEFINE Good == {s \in Seq(Nat) : Arrayed(s, R) => Arrayed(Only(s, S), R)}
<1>1. <<>> \in Good
  BY OnlyEmpty, RangeEmpty
<1>2. ASSUME NEW u \in Seq(Nat), NEW x \in Nat, u \in Good PROVE Append(u, x) \in Good
  <2>1. Arrayed(u, R) => Arrayed(Only(u, S), R)
    BY <1>2
  <2>2. Only(Append(u, x), S) = IF x \in S THEN Append(Only(u, S), x) ELSE Only(u, S)
    BY OnlyAppend
  <2>3. Only(u, S) \in Seq(Nat) /\ Range(Only(u, S)) \subseteq Range(u)
    BY OnlyFacts
  <2>4. SUFFICES ASSUME Arrayed(Append(u, x), R) PROVE Arrayed(Only(Append(u, x), S), R)
    OBVIOUS
  <2>5. Arrayed(u, R) /\ \A y \in Range(u) : <<y, x>> \in R
    BY <2>4, ArrayedAppend
  <2>6. Arrayed(Append(Only(u, S), x), R)
    BY <2>1, <2>3, <2>5, ArrayedAppend
  <2>7. QED
    BY <2>1, <2>2, <2>5, <2>6
<1> HIDE DEF Good
<1>3. \A u \in Seq(Nat) : u \in Good
  BY <1>1, <1>2, OneByOne
<1>4. QED
  BY <1>3 DEF Good

-----------------------------------------------------------------------------
(* Trees and branches: BranchIn.                                           *)

\* A tree whose parents and references point backwards.
Entry == [kind : EntryKinds, parent : Nat, ref : Nat]
Well(t) == t \in Seq(Entry) /\ \A e \in DOMAIN t : t[e].parent < e /\ t[e].ref < e

\* Induction over the numbers up to n, with a set in the place of the predicate.
LEMMA Upwards ==
    ASSUME NEW n \in Nat, NEW Good,
           \A k \in 0..n : (\A j \in 0..(k - 1) : j \in Good) => k \in Good
    PROVE  \A k \in 0..n : k \in Good
<1> DEFINE T == {k \in 0..n : k \notin Good}
<1>1. SUFFICES ASSUME T # {} PROVE FALSE
  OBVIOUS
<1>2. PICK k \in T : \A y \in T : ~(y < k)
  <2>1. T \subseteq Nat
    OBVIOUS
  <2>2. QED
    BY <1>1, <2>1, Least
<1>3. \A j \in 0..(k - 1) : j \in Good
  <2>1. SUFFICES ASSUME NEW j \in 0..(k - 1) PROVE j \in Good
    OBVIOUS
  <2>2. j \in 0..n /\ j < k
    BY <1>2
  <2>3. QED
    BY <1>2, <2>2
<1>4. QED
  BY <1>2, <1>3

\* The greatest of a bounded set of numbers.
LEMMA Greatest ==
    ASSUME NEW n \in Nat, NEW S, S \subseteq 0..n, S # {}
    PROVE  Max(S) \in S /\ \A y \in S : y <= Max(S)
<1> DEFINE T == {k \in Nat : n - k \in S}
<1>1. PICK s \in S : TRUE
  OBVIOUS
<1>2. n - s \in T
  <2>1. s \in 0..n
    BY <1>1
  <2>2. n - s \in Nat /\ n - (n - s) = s
    BY <2>1
  <2>3. QED
    BY <1>1, <2>2
<1>3. PICK k \in T : \A y \in T : ~(y < k)
  <2>1. T \subseteq Nat
    OBVIOUS
  <2>2. QED
    BY <1>2, <2>1, Least
<1>4. ASSUME NEW y \in S PROVE n - k >= y
  <2>1. y \in 0..n
    BY <1>4
  <2>2. n - y \in Nat /\ n - (n - y) = y
    BY <2>1
  <2>3. n - y \in T
    BY <1>4, <2>2
  <2>4. ~(n - y < k)
    BY <1>3, <2>3
  <2>5. QED
    BY <2>1, <2>4
<1>5. n - k \in S /\ \A y \in S : n - k >= y
  BY <1>3, <1>4
<1>6. Max(S) \in S /\ \A y \in S : Max(S) >= y
  BY <1>5 DEF Max
<1>7. Max(S) \in 0..n
  BY <1>6
<1>8. ASSUME NEW y \in S PROVE y <= Max(S)
  <2>1. y \in 0..n
    BY <1>8
  <2>2. QED
    BY <1>6, <1>7, <2>1
<1>9. QED
  BY <1>6, <1>8

\* f goes along the parents as BranchIn does, up to n.
Leads(f, t, n) == f = [e \in 0..n |-> IF e = 0 THEN <<>> ELSE Append(f[t[e].parent], e)]

\* The entries of a tree are records whose parents and references are earlier entries.
LEMMA EntryFacts ==
    ASSUME NEW t, Well(t)
    PROVE  /\ Len(t) \in Nat /\ DOMAIN t = 1..Len(t)
           /\ \A e \in 1..Len(t) : /\ t[e] \in Entry /\ t[e].kind \in EntryKinds
                                   /\ t[e].parent \in 0..(e - 1) /\ t[e].ref \in 0..(e - 1)
<1>1. t \in Seq(Entry) /\ Len(t) \in Nat /\ DOMAIN t = 1..Len(t)
  BY DEF Well
<1>2. ASSUME NEW e \in 1..Len(t)
      PROVE  /\ t[e] \in Entry /\ t[e].kind \in EntryKinds
             /\ t[e].parent \in 0..(e - 1) /\ t[e].ref \in 0..(e - 1)
  <2>1. t[e] \in Entry /\ t[e].parent < e /\ t[e].ref < e
    BY <1>1, <1>2 DEF Well
  <2>2. t[e].kind \in EntryKinds /\ t[e].parent \in Nat /\ t[e].ref \in Nat
    BY <2>1 DEF Entry
  <2>3. QED
    BY <1>2, <2>1, <2>2
<1>3. QED
  BY <1>1, <1>2

\* There is such a function.
LEMMA LeadsExists ==
    ASSUME NEW t, Well(t)
    PROVE  \E f : Leads(f, t, Len(t))
<1> DEFINE Good == {n \in 0..Len(t) : \E f : Leads(f, t, n)}
<1>1. Len(t) \in Nat
  BY EntryFacts
<1>2. ASSUME NEW n \in 0..Len(t), \A j \in 0..(n - 1) : j \in Good PROVE n \in Good
  <2>1. CASE n = 0
    <3>1. Leads([i \in 0..0 |-> <<>>], t, 0)
      BY DEF Leads
    <3>2. QED
      BY <2>1, <3>1
  <2>2. CASE n # 0
    <3>1. n - 1 \in 0..(n - 1) /\ n \in 1..Len(t) /\ n \in Nat
      BY <1>1, <2>2
    <3>2. PICK f : Leads(f, t, n - 1)
      BY <1>2, <3>1
    <3> DEFINE g == [i \in 0..n |-> IF i < n THEN f[i] ELSE Append(f[t[n].parent], n)]
    <3>3. \A i \in 0..(n - 1) : g[i] = f[i]
      BY <3>1
    <3>4. g[n] = Append(f[t[n].parent], n)
      BY <3>1
    <3>5. \A i \in 0..(n - 1) : f[i] = IF i = 0 THEN <<>> ELSE Append(f[t[i].parent], i)
      BY <3>2 DEF Leads
    <3>6. DOMAIN g = 0..n /\ g = [i \in 0..n |-> g[i]]
      OBVIOUS
    <3> HIDE DEF g
    <3>7. \A i \in 1..n : t[i].parent \in 0..(n - 1)
      <4>1. SUFFICES ASSUME NEW i \in 1..n PROVE t[i].parent \in 0..(n - 1)
        OBVIOUS
      <4>2. i \in 1..Len(t) /\ i <= n
        BY <1>1, <3>1
      <4>3. t[i].parent \in 0..(i - 1)
        BY <4>2, EntryFacts
      <4>4. QED
        BY <3>1, <4>2, <4>3
    <3>8. ASSUME NEW i \in 0..n PROVE g[i] = IF i = 0 THEN <<>> ELSE Append(g[t[i].parent], i)
      <4>1. CASE i = n
        <5>1. t[n].parent \in 0..(n - 1)
          BY <3>1, <3>7
        <5>2. QED
          BY <2>2, <3>3, <3>4, <4>1, <5>1
      <4>2. CASE i # n
        <5>1. i \in 0..(n - 1)
          BY <3>1, <4>2
        <5>2. i # 0 => t[i].parent \in 0..(n - 1)
          BY <3>1, <3>7, <5>1
        <5>3. QED
          BY <3>3, <3>5, <5>1, <5>2
      <4>3. QED
        BY <4>1, <4>2
    <3>9. Leads(g, t, n)
      BY <3>6, <3>8 DEF Leads
    <3>10. QED
      BY <3>9
  <2>3. QED
    BY <2>1, <2>2
<1> HIDE DEF Good
<1>3. \A n \in 0..Len(t) : n \in Good
  BY <1>1, <1>2, Upwards
<1>4. Len(t) \in Good
  BY <1>1, <1>3
<1>5. QED
  BY <1>4 DEF Good

\* A branch is the branch of the parent and the entry.
LEMMA BranchStep ==
    ASSUME NEW t, Well(t)
    PROVE  /\ BranchIn(t, 0) = <<>>
           /\ \A e \in 1..Len(t) : BranchIn(t, e) = Append(BranchIn(t, t[e].parent), e)
<1> DEFINE F == CHOOSE f : Leads(f, t, Len(t))
<1>1. Leads(F, t, Len(t))
  BY LeadsExists
<1>2. \A l : BranchIn(t, l) = F[l]
  BY DEF BranchIn, Leads
<1> HIDE DEF F
<1>3. \A e \in 0..Len(t) : F[e] = IF e = 0 THEN <<>> ELSE Append(F[t[e].parent], e)
  BY <1>1 DEF Leads
<1>4. Len(t) \in Nat
  BY EntryFacts
<1>5. BranchIn(t, 0) = <<>>
  <2>1. 0 \in 0..Len(t)
    BY <1>4
  <2>2. QED
    BY <1>2, <1>3, <2>1
<1>6. ASSUME NEW e \in 1..Len(t) PROVE BranchIn(t, e) = Append(BranchIn(t, t[e].parent), e)
  <2>1. e \in 0..Len(t) /\ e # 0
    BY <1>4
  <2>2. F[e] = Append(F[t[e].parent], e)
    BY <1>3, <2>1
  <2>3. QED
    BY <1>2, <2>2
<1>7. QED
  BY <1>5, <1>6

Ascending == {p \in Nat \X Nat : p[1] < p[2]}

\* A branch ascends to its entry.
LEMMA BranchFacts ==
    ASSUME NEW t, Well(t)
    PROVE  \A l \in 0..Len(t) : /\ BranchIn(t, l) \in Seq(Nat) /\ Range(BranchIn(t, l)) \subseteq 1..l
                                /\ Arrayed(BranchIn(t, l), Ascending)
                                /\ l # 0 => l \in Range(BranchIn(t, l))
<1> DEFINE Good == {l \in 0..Len(t) : /\ BranchIn(t, l) \in Seq(Nat) /\ Range(BranchIn(t, l)) \subseteq 1..l
                                      /\ Arrayed(BranchIn(t, l), Ascending)
                                      /\ l # 0 => l \in Range(BranchIn(t, l))}
<1>1. Len(t) \in Nat
  BY EntryFacts
<1>2. ASSUME NEW n \in 0..Len(t), \A j \in 0..(n - 1) : j \in Good PROVE n \in Good
  <2>1. CASE n = 0
    <3>1. BranchIn(t, n) = <<>> /\ Arrayed(<<>>, Ascending)
      BY <2>1, BranchStep DEF Arrayed
    <3>2. QED
      BY <2>1, <3>1, RangeEmpty
  <2>2. CASE n # 0
    <3> DEFINE p == t[n].parent
               b == BranchIn(t, p)
    <3>1. n \in 1..Len(t) /\ p \in 0..(n - 1)
      <4>1. n \in 1..Len(t)
        BY <1>1, <2>2
      <4>2. QED
        BY <4>1, EntryFacts
    <3>2. BranchIn(t, n) = Append(b, n)
      BY <3>1, BranchStep
    <3>3. b \in Seq(Nat) /\ Range(b) \subseteq 1..p /\ Arrayed(b, Ascending)
      BY <1>2, <3>1
    <3> HIDE DEF b, p
    <3>4. n \in Nat /\ Range(Append(b, n)) = Range(b) \union {n} /\ Append(b, n) \in Seq(Nat)
      BY <3>3, RangeAppend
    <3>5. \A y \in Range(b) : y \in 1..n /\ <<y, n>> \in Ascending
      <4>1. SUFFICES ASSUME NEW y \in Range(b) PROVE y \in 1..n /\ <<y, n>> \in Ascending
        OBVIOUS
      <4>2. y \in 1..p
        BY <3>3
      <4>3. y \in Nat /\ n \in Nat /\ y < n /\ y \in 1..n
        BY <3>1, <3>4, <4>2
      <4>4. QED
        BY <4>3 DEF Ascending
    <3>6. Arrayed(Append(b, n), Ascending)
      BY <3>3, <3>4, <3>5, ArrayedAppend
    <3>7. Range(Append(b, n)) \subseteq 1..n
      <4>1. n \in 1..n
        BY <3>1, <3>4
      <4>2. QED
        BY <3>4, <3>5, <4>1
    <3>8. QED
      BY <3>2, <3>4, <3>6, <3>7
  <2>3. QED
    BY <2>1, <2>2
<1> HIDE DEF Good
<1>3. \A n \in 0..Len(t) : n \in Good
  BY <1>1, <1>2, Upwards
<1>4. QED
  BY <1>3 DEF Good

\* The branch of an entry of a branch is the part of it that ends there.
LEMMA Ancestors ==
    ASSUME NEW t, Well(t)
    PROVE  \A l \in 0..Len(t) : \A e \in Range(BranchIn(t, l)) :
               Range(BranchIn(t, e)) = {x \in Range(BranchIn(t, l)) : x <= e}
<1> DEFINE Good == {l \in 0..Len(t) : \A e \in Range(BranchIn(t, l)) :
                        Range(BranchIn(t, e)) = {x \in Range(BranchIn(t, l)) : x <= e}}
<1>1. Len(t) \in Nat
  BY EntryFacts
<1>2. ASSUME NEW n \in 0..Len(t), \A j \in 0..(n - 1) : j \in Good PROVE n \in Good
  <2>1. CASE n = 0
    <3>1. Range(BranchIn(t, n)) = {}
      BY <2>1, BranchStep, RangeEmpty
    <3>2. QED
      BY <3>1
  <2>2. CASE n # 0
    <3> DEFINE p == t[n].parent
               b == BranchIn(t, p)
    <3>1. n \in 1..Len(t) /\ p \in 0..(n - 1) /\ p \in 0..Len(t)
      <4>1. n \in 1..Len(t)
        BY <1>1, <2>2
      <4>2. p \in 0..(n - 1)
        BY <4>1, EntryFacts
      <4>3. QED
        BY <1>1, <4>1, <4>2
    <3>2. BranchIn(t, n) = Append(b, n)
      BY <3>1, BranchStep
    <3>3. b \in Seq(Nat) /\ Range(b) \subseteq 1..p
      BY <3>1, BranchFacts
    <3>4. \A e \in Range(b) : Range(BranchIn(t, e)) = {x \in Range(b) : x <= e}
      BY <1>2, <3>1
    <3> HIDE DEF b, p
    <3>5. n \in Nat /\ Range(BranchIn(t, n)) = Range(b) \union {n}
      BY <3>2, <3>3, RangeAppend
    <3>6. \A y \in Range(b) : y \in Nat /\ y < n
      BY <3>1, <3>3
    <3>7. ASSUME NEW e \in Range(BranchIn(t, n))
          PROVE  Range(BranchIn(t, e)) = {x \in Range(BranchIn(t, n)) : x <= e}
      <4>1. CASE e = n
        <5>1. \A x \in Range(BranchIn(t, n)) : x <= n
          BY <3>5, <3>6
        <5>2. QED
          BY <4>1, <5>1
      <4>2. CASE e # n
        <5>1. e \in Range(b)
          BY <3>5, <4>2
        <5>2. e \in Nat /\ e < n /\ ~(n <= e)
          BY <3>5, <3>6, <5>1
        <5>3. {x \in Range(b) \union {n} : x <= e} = {x \in Range(b) : x <= e}
          BY <5>2
        <5>4. QED
          BY <3>4, <3>5, <5>1, <5>3
      <4>3. QED
        BY <4>1, <4>2
    <3>8. QED
      BY <3>7
  <2>3. QED
    BY <2>1, <2>2
<1> HIDE DEF Good
<1>3. \A n \in 0..Len(t) : n \in Good
  BY <1>1, <1>2, Upwards
<1>4. QED
  BY <1>3 DEF Good

\* A tree that grows keeps its branches.
LEMMA BranchKept ==
    ASSUME NEW t, Well(t), NEW x \in Entry, Well(Append(t, x))
    PROVE  \A l \in 0..Len(t) : BranchIn(Append(t, x), l) = BranchIn(t, l)
<1> DEFINE u == Append(t, x)
           Good == {l \in 0..Len(t) : BranchIn(u, l) = BranchIn(t, l)}
<1>1. Len(t) \in Nat /\ t \in Seq(Entry)
  BY EntryFacts DEF Well
<1>2. Well(u) /\ Len(u) = Len(t) + 1 /\ \A e \in 1..Len(t) : u[e] = t[e]
  BY <1>1
<1> HIDE DEF u
<1>3. ASSUME NEW n \in 0..Len(t), \A j \in 0..(n - 1) : j \in Good PROVE n \in Good
  <2>1. CASE n = 0
    BY <1>2, <2>1, BranchStep
  <2>2. CASE n # 0
    <3>1. n \in 1..Len(t) /\ n \in 1..Len(u)
      BY <1>1, <1>2, <2>2
    <3>2. t[n].parent \in 0..(n - 1)
      BY <3>1, EntryFacts
    <3>3. BranchIn(u, t[n].parent) = BranchIn(t, t[n].parent)
      BY <1>3, <3>2
    <3>4. BranchIn(t, n) = Append(BranchIn(t, t[n].parent), n)
      BY <3>1, BranchStep
    <3>5. BranchIn(u, n) = Append(BranchIn(u, u[n].parent), n)
      BY <1>2, <3>1, BranchStep
    <3>6. QED
      BY <1>2, <3>1, <3>3, <3>4, <3>5
  <2>3. QED
    BY <2>1, <2>2
<1> HIDE DEF Good
<1>4. \A n \in 0..Len(t) : n \in Good
  BY <1>1, <1>3, Upwards
<1>5. QED
  BY <1>4 DEF Good, u

-----------------------------------------------------------------------------
(* What Selected takes from a branch.                                      *)

\* b could be a branch of the tree t.
Fits(t, b) == b \in Seq(Nat) /\ Range(b) \subseteq 1..Len(t) /\ Arrayed(b, Ascending)

\* The least of a set of numbers is what Min names.
LEMMA Smallest ==
    ASSUME NEW S, S \subseteq Nat, S # {}
    PROVE  Min(S) \in S /\ \A y \in S : Min(S) <= y
<1>1. PICK m \in S : \A y \in S : ~(y < m)
  BY Least
<1>2. ASSUME NEW y \in S PROVE m <= y
  <2>1. y \in Nat /\ m \in Nat /\ ~(y < m)
    BY <1>1, <1>2
  <2>2. QED
    BY <2>1
<1>3. QED
  BY <1>2 DEF Min

\* The elements of a sequence of numbers, by their places.
LEMMA Places ==
    ASSUME NEW s \in Seq(Nat)
    PROVE  /\ Len(s) \in Nat /\ DOMAIN s = 1..Len(s)
           /\ \A i \in 1..Len(s) : s[i] \in Nat /\ s[i] \in Range(s)
           /\ \A x \in Range(s) : \E i \in 1..Len(s) : x = s[i]
<1>1. Len(s) \in Nat /\ DOMAIN s = 1..Len(s)
  OBVIOUS
<1>2. \A i \in 1..Len(s) : s[i] \in Nat
  OBVIOUS
<1>3. QED
  BY <1>1, <1>2 DEF Range

\* The last compaction of a branch.
LEMMA LastCompactionFacts ==
    ASSUME NEW t, NEW b \in Seq(Nat)
    PROVE  LET c == LastCompaction(t, b)
           IN  /\ c \in 0..Len(b)
               /\ c # 0 => t[b[c]].kind = "compaction"
               /\ \A i \in 1..Len(b) : t[b[i]].kind = "compaction" => i <= c
<1> DEFINE S == {0} \union {i \in DOMAIN b : t[b[i]].kind = "compaction"}
<1>1. Len(b) \in Nat /\ DOMAIN b = 1..Len(b)
  OBVIOUS
<1>2. S \subseteq 0..Len(b) /\ S # {}
  BY <1>1
<1>3. Max(S) \in S /\ \A y \in S : y <= Max(S)
  BY <1>1, <1>2, Greatest
<1>4. LastCompaction(t, b) = Max(S)
  BY DEF LastCompaction
<1>5. \A i \in 1..Len(b) : t[b[i]].kind = "compaction" => i \in S
  BY <1>1
<1> HIDE DEF S
<1>6. LastCompaction(t, b) \in 0..Len(b)
  BY <1>2, <1>3, <1>4
<1>7. LastCompaction(t, b) # 0 => t[b[LastCompaction(t, b)]].kind = "compaction"
  BY <1>3, <1>4 DEF S
<1>8. \A i \in 1..Len(b) : t[b[i]].kind = "compaction" => i <= LastCompaction(t, b)
  BY <1>3, <1>4, <1>5
<1>9. QED
  BY <1>6, <1>7, <1>8

\* The first place Selected keeps.
FirstPlace(t, b) ==
    LET c == LastCompaction(t, b)
    IN  Min({c} \union {i \in 1..(c - 1) : b[i] = t[b[c]].ref})

\* The first place kept is that of the entry the compaction names, or the compaction
\* itself.
LEMMA FirstPlaceFacts ==
    ASSUME NEW t, NEW b \in Seq(Nat), LastCompaction(t, b) # 0
    PROVE  LET c == LastCompaction(t, b)
               f == FirstPlace(t, b)
           IN  /\ f \in 1..c
               /\ f # c => b[f] = t[b[c]].ref
               /\ f = c => \A i \in 1..(c - 1) : b[i] # t[b[c]].ref
<1> DEFINE c == LastCompaction(t, b)
           S == {c} \union {i \in 1..(c - 1) : b[i] = t[b[c]].ref}
<1>1. c \in 1..Len(b) /\ Len(b) \in Nat
  BY LastCompactionFacts
<1>2. FirstPlace(t, b) = Min(S)
  BY DEF FirstPlace
<1> HIDE DEF c
<1>3. S \subseteq 1..c
  BY <1>1
<1>4. S \subseteq Nat /\ S # {}
  BY <1>1, <1>3
<1>5. Min(S) \in S /\ \A y \in S : Min(S) <= y
  BY <1>4, Smallest
<1>6. Min(S) \in 1..c
  BY <1>3, <1>5
<1>7. Min(S) # c => b[Min(S)] = t[b[c]].ref
  BY <1>5
<1>8. ASSUME Min(S) = c, NEW i \in 1..(c - 1) PROVE b[i] # t[b[c]].ref
  <2>1. i < c
    BY <1>1, <1>8
  <2>2. i \notin S
    BY <1>5, <1>8, <2>1, <1>1
  <2>3. QED
    BY <1>8, <2>2
<1>9. QED
  BY <1>2, <1>6, <1>7, <1>8 DEF c

\* The elements of two sequences put together.
LEMMA RangeConcat ==
    ASSUME NEW s \in Seq(Nat), NEW u \in Seq(Nat)
    PROVE  s \o u \in Seq(Nat) /\ Range(s \o u) = Range(s) \union Range(u)
<1>1. /\ Len(s) \in Nat /\ Len(u) \in Nat /\ DOMAIN s = 1..Len(s) /\ DOMAIN u = 1..Len(u)
      /\ s \o u \in Seq(Nat) /\ DOMAIN (s \o u) = 1..(Len(s) + Len(u))
      /\ \A i \in 1..Len(s) : (s \o u)[i] = s[i]
      /\ \A i \in 1..Len(u) : (s \o u)[Len(s) + i] = u[i]
  OBVIOUS
<1>2. ASSUME NEW i \in 1..(Len(s) + Len(u)) PROVE (s \o u)[i] \in Range(s) \union Range(u)
  <2>1. CASE i \in 1..Len(s)
    BY <1>1, <2>1 DEF Range
  <2>2. CASE i \notin 1..Len(s)
    <3>1. i - Len(s) \in 1..Len(u) /\ Len(s) + (i - Len(s)) = i
      BY <1>1, <1>2, <2>2
    <3>2. (s \o u)[i] = u[i - Len(s)]
      BY <1>1, <3>1
    <3>3. QED
      BY <1>1, <3>1, <3>2 DEF Range
  <2>3. QED
    BY <2>1, <2>2
<1>3. ASSUME NEW i \in 1..Len(s) PROVE s[i] \in Range(s \o u)
  <2>1. i \in 1..(Len(s) + Len(u))
    BY <1>1, <1>3
  <2>2. QED
    BY <1>1, <1>3, <2>1 DEF Range
<1>4. ASSUME NEW i \in 1..Len(u) PROVE u[i] \in Range(s \o u)
  <2>1. Len(s) + i \in 1..(Len(s) + Len(u))
    BY <1>1, <1>4
  <2>2. QED
    BY <1>1, <1>4, <2>1 DEF Range
<1>5. Range(s \o u) = {(s \o u)[i] : i \in 1..(Len(s) + Len(u))}
  BY <1>1 DEF Range
<1>6. Range(s) = {s[i] : i \in 1..Len(s)} /\ Range(u) = {u[i] : i \in 1..Len(u)}
  BY <1>1 DEF Range
<1>7. Range(s \o u) \subseteq Range(s) \union Range(u)
  BY <1>2, <1>5
<1>8. Range(s) \subseteq Range(s \o u) /\ Range(u) \subseteq Range(s \o u)
  BY <1>3, <1>4, <1>6
<1>9. QED
  BY <1>1, <1>7, <1>8

\* A part of a sequence.
LEMMA PartFacts ==
    ASSUME NEW s \in Seq(Nat), NEW m \in Nat, NEW n \in Nat, 1 <= m, m <= n + 1, n <= Len(s)
    PROVE  /\ SubSeq(s, m, n) \in Seq(Nat) /\ Len(SubSeq(s, m, n)) = (n - m) + 1
           /\ \A i \in 1..((n - m) + 1) : SubSeq(s, m, n)[i] = s[(m + i) - 1]
           /\ Range(SubSeq(s, m, n)) = {s[i] : i \in m..n}
<1> DEFINE k == (n - m) + 1
           v == SubSeq(s, m, n)
<1>1. k \in Nat /\ Len(s) \in Nat
  OBVIOUS
<1>2. v = [i \in 1..k |-> s[(m + i) - 1]]
  OBVIOUS
<1>3. \A i \in 1..k : (m + i) - 1 \in m..n /\ (m + i) - 1 \in 1..Len(s)
  OBVIOUS
<1>4. \A i \in 1..k : s[(m + i) - 1] \in Nat
  BY <1>3
<1>5. v \in Seq(Nat) /\ Len(v) = k /\ DOMAIN v = 1..k /\ \A i \in 1..k : v[i] = s[(m + i) - 1]
  BY <1>1, <1>2, <1>4
<1>6. ASSUME NEW j \in m..n PROVE \E i \in 1..k : s[j] = v[i]
  <2>1. (j - m) + 1 \in 1..k /\ (m + ((j - m) + 1)) - 1 = j
    BY <1>6
  <2>2. QED
    BY <1>5, <2>1
<1> HIDE DEF v, k
<1>7. Range(v) = {s[i] : i \in m..n}
  <2>1. Range(v) = {v[i] : i \in 1..k}
    BY <1>5 DEF Range
  <2>2. \A i \in 1..k : v[i] \in {s[j] : j \in m..n}
    BY <1>3, <1>5
  <2>3. \A j \in m..n : s[j] \in {v[i] : i \in 1..k}
    BY <1>6
  <2>4. QED
    BY <2>1, <2>2, <2>3
<1>8. QED
  BY <1>5, <1>7 DEF v, k

\* Where the entries that a context keeps begin, and the compaction it begins with.
Start(t, b) ==
    LET c == LastCompaction(t, b)
    IN  IF c = 0 THEN 0 ELSE IF t[b[c]].ref \in Range(b) THEN t[b[c]].ref ELSE b[c]
Top(t, b) == LET c == LastCompaction(t, b) IN IF c = 0 THEN 0 ELSE b[c]

\* In order, after h if h is among them.
Headed(h) == {p \in Nat \X Nat : (p[1] < p[2] \/ p[1] = h) /\ p[2] # h}

\* With a compaction on the branch, the entries kept begin at the first place Selected
\* keeps.
LEMMA StartFacts ==
    ASSUME NEW t, Well(t), NEW b, Fits(t, b), LastCompaction(t, b) # 0
    PROVE  Start(t, b) = b[FirstPlace(t, b)]
<1> DEFINE c == LastCompaction(t, b)
           f == FirstPlace(t, b)
           r == t[b[c]].ref
<1>1. b \in Seq(Nat) /\ Len(b) \in Nat /\ DOMAIN b = 1..Len(b)
  BY DEF Fits
<1>2. c \in 1..Len(b)
  BY <1>1, LastCompactionFacts
<1>3. f \in 1..c /\ (f # c => b[f] = r) /\ (f = c => \A i \in 1..(c - 1) : b[i] # r)
  BY <1>1, FirstPlaceFacts
<1>4. Start(t, b) = IF r \in Range(b) THEN r ELSE b[c]
  BY DEF Start
<1>5. b[c] \in 1..Len(t)
  BY <1>1, <1>2 DEF Fits, Range
<1>6. r \in 0..(b[c] - 1)
  BY <1>5, EntryFacts
<1> HIDE DEF c, f, r
<1>7. CASE f # c
  <2>1. b[f] \in Range(b)
    BY <1>1, <1>2, <1>3 DEF Range
  <2>2. QED
    BY <1>3, <1>4, <1>7, <2>1 DEF f
<1>8. CASE f = c
  <2>1. r \notin Range(b)
    <3>1. SUFFICES ASSUME NEW i \in 1..Len(b), b[i] = r PROVE FALSE
      BY <1>1 DEF Range
    <3>2. ~(i \in 1..(c - 1))
      BY <1>3, <1>8, <3>1
    <3>3. i = c \/ c < i
      BY <1>1, <1>2, <3>1, <3>2
    <3>4. b[i] \in Nat /\ b[c] \in Nat
      BY <1>1, <1>2, <3>1
    <3>5. b[i] >= b[c]
      <4>1. CASE i = c
        BY <3>4, <4>1
      <4>2. CASE c < i
        <5>1. <<b[c], b[i]>> \in Ascending
          BY <1>1, <1>2, <3>1, <4>2 DEF Fits, Arrayed
        <5>2. b[c] < b[i]
          BY <5>1 DEF Ascending
        <5>3. QED
          BY <3>4, <5>2
      <4>3. QED
        BY <3>3, <4>1, <4>2
    <3>6. QED
      BY <1>6, <3>1, <3>4, <3>5
  <2>2. QED
    BY <1>4, <1>8, <2>1 DEF f, c
<1>9. QED
  BY <1>7, <1>8

\* The order of a sequence put together from two.
LEMMA ArrayedConcat ==
    ASSUME NEW s \in Seq(Nat), NEW u \in Seq(Nat), NEW R, Arrayed(s, R), Arrayed(u, R),
           \A x \in Range(s), y \in Range(u) : <<x, y>> \in R
    PROVE  Arrayed(s \o u, R)
<1>1. /\ Len(s) \in Nat /\ Len(u) \in Nat /\ DOMAIN s = 1..Len(s) /\ DOMAIN u = 1..Len(u)
      /\ s \o u \in Seq(Nat) /\ DOMAIN (s \o u) = 1..(Len(s) + Len(u))
      /\ \A i \in 1..Len(s) : (s \o u)[i] = s[i]
      /\ \A i \in 1..Len(u) : (s \o u)[Len(s) + i] = u[i]
  OBVIOUS
<1> DEFINE v == s \o u
<1>2. \A i \in 1..(Len(s) + Len(u)) : i \notin 1..Len(s) => i - Len(s) \in 1..Len(u) /\ v[i] = u[i - Len(s)]
  <2>1. SUFFICES ASSUME NEW i \in 1..(Len(s) + Len(u)), i \notin 1..Len(s)
                 PROVE  i - Len(s) \in 1..Len(u) /\ v[i] = u[i - Len(s)]
    OBVIOUS
  <2>2. i - Len(s) \in 1..Len(u) /\ Len(s) + (i - Len(s)) = i
    BY <1>1, <2>1
  <2>3. QED
    BY <1>1, <2>2
<1>3. \A i \in 1..Len(s) : v[i] = s[i]
  BY <1>1
<1>4. DOMAIN v = 1..(Len(s) + Len(u))
  BY <1>1
<1> HIDE DEF v
<1>5. SUFFICES ASSUME NEW i \in DOMAIN v, NEW j \in DOMAIN v, i < j PROVE <<v[i], v[j]>> \in R
  BY DEF Arrayed, v
<1>6. CASE i \in 1..Len(s) /\ j \in 1..Len(s)
  BY <1>1, <1>3, <1>5, <1>6 DEF Arrayed
<1>7. CASE i \in 1..Len(s) /\ j \notin 1..Len(s)
  <2>1. v[i] \in Range(s)
    BY <1>1, <1>3, <1>7 DEF Range
  <2>2. v[j] \in Range(u)
    BY <1>1, <1>2, <1>4, <1>5, <1>7 DEF Range
  <2>3. QED
    BY <2>1, <2>2
<1>8. CASE i \notin 1..Len(s)
  <2>1. j \notin 1..Len(s)
    BY <1>1, <1>4, <1>5, <1>8
  <2>2. i - Len(s) \in DOMAIN u /\ j - Len(s) \in DOMAIN u /\ v[i] = u[i - Len(s)] /\ v[j] = u[j - Len(s)]
    BY <1>1, <1>2, <1>4, <1>5, <1>8, <2>1
  <2>3. i - Len(s) < j - Len(s)
    BY <1>1, <1>4, <1>5
  <2>4. QED
    BY <2>2, <2>3 DEF Arrayed
<1>9. QED
  BY <1>6, <1>7, <1>8

\* A part of a sequence is in the same order.
LEMMA ArrayedPart ==
    ASSUME NEW s \in Seq(Nat), NEW m \in Nat, NEW n \in Nat, 1 <= m, m <= n + 1, n <= Len(s),
           NEW R, Arrayed(s, R)
    PROVE  Arrayed(SubSeq(s, m, n), R)
<1> DEFINE k == (n - m) + 1
           v == SubSeq(s, m, n)
<1>1. v \in Seq(Nat) /\ Len(v) = k /\ \A i \in 1..k : v[i] = s[(m + i) - 1]
  BY PartFacts
<1>2. DOMAIN v = 1..k /\ DOMAIN s = 1..Len(s) /\ Len(s) \in Nat
  BY <1>1
<1>3. \A i \in 1..k : (m + i) - 1 \in DOMAIN s
  BY <1>2
<1>4. \A i, j \in 1..k : i < j => (m + i) - 1 < (m + j) - 1
  OBVIOUS
<1> HIDE DEF v, k
<1>5. Arrayed(v, R)
  BY <1>1, <1>2, <1>3, <1>4 DEF Arrayed
<1>6. QED
  BY <1>5 DEF v

\* Numbers of a branch in their order.
LEMMA BranchOrder ==
    ASSUME NEW t, NEW b, Fits(t, b)
    PROVE  /\ b \in Seq(Nat) /\ Len(b) \in Nat /\ DOMAIN b = 1..Len(b)
           /\ \A i \in 1..Len(b) : b[i] \in Nat /\ b[i] \in Range(b) /\ b[i] \in 1..Len(t)
           /\ \A i, j \in 1..Len(b) : (i < j <=> b[i] < b[j]) /\ (i = j <=> b[i] = b[j])
           /\ \A x \in Range(b) : \E i \in 1..Len(b) : x = b[i]
<1>1. b \in Seq(Nat) /\ Len(b) \in Nat /\ DOMAIN b = 1..Len(b)
  BY DEF Fits
<1>2. /\ \A i \in 1..Len(b) : b[i] \in Nat /\ b[i] \in Range(b)
      /\ \A x \in Range(b) : \E i \in 1..Len(b) : x = b[i]
  BY <1>1, Places
<1>3. \A i \in 1..Len(b) : b[i] \in 1..Len(t)
  BY <1>2 DEF Fits
<1>4. \A i, j \in 1..Len(b) : i < j => b[i] < b[j]
  <2>1. SUFFICES ASSUME NEW i \in 1..Len(b), NEW j \in 1..Len(b), i < j PROVE b[i] < b[j]
    OBVIOUS
  <2>2. <<b[i], b[j]>> \in Ascending
    BY <1>1, <2>1 DEF Fits, Arrayed
  <2>3. QED
    BY <2>2 DEF Ascending
<1>5. ASSUME NEW i \in 1..Len(b), NEW j \in 1..Len(b)
      PROVE  (i < j <=> b[i] < b[j]) /\ (i = j <=> b[i] = b[j])
  <2>1. b[i] \in Nat /\ b[j] \in Nat /\ i \in Nat /\ j \in Nat
    BY <1>2
  <2>2. (i < j => b[i] < b[j]) /\ (j < i => b[j] < b[i])
    BY <1>4
  <2>3. QED
    BY <2>1, <2>2
<1>6. QED
  BY <1>1, <1>2, <1>3, <1>5

\* What Selected takes from a branch, and in which order.
LEMMA SelectedFacts ==
    ASSUME NEW t, Well(t), NEW b, Fits(t, b)
    PROVE  /\ Selected(t, b) \in Seq(Nat)
           /\ Range(Selected(t, b)) = {e \in Range(b) : Start(t, b) <= e}
           /\ Arrayed(Selected(t, b), Headed(Top(t, b)))
<1> DEFINE c == LastCompaction(t, b)
           f == FirstPlace(t, b)
           n == Len(b)
<1>1. /\ b \in Seq(Nat) /\ n \in Nat /\ DOMAIN b = 1..n
      /\ \A i \in 1..n : b[i] \in Nat /\ b[i] \in Range(b) /\ b[i] \in 1..Len(t)
      /\ \A i, j \in 1..n : (i < j <=> b[i] < b[j]) /\ (i = j <=> b[i] = b[j])
      /\ \A x \in Range(b) : \E i \in 1..n : x = b[i]
  BY BranchOrder
<1>2. c \in 0..n
  BY <1>1, LastCompactionFacts
<1>3. CASE c = 0
  <2>1. Selected(t, b) = b /\ Start(t, b) = 0 /\ Top(t, b) = 0
    BY <1>3 DEF Selected, Start, Top
  <2>2. Range(b) = {e \in Range(b) : 0 <= e}
    BY <1>1
  <2>3. Arrayed(b, Headed(0))
    <3>1. SUFFICES ASSUME NEW i \in 1..n, NEW j \in 1..n, i < j PROVE <<b[i], b[j]>> \in Headed(0)
      BY <1>1 DEF Arrayed
    <3>2. b[i] \in Nat /\ b[j] \in Nat /\ b[i] < b[j] /\ b[j] # 0
      BY <1>1, <3>1
    <3>3. QED
      BY <3>2 DEF Headed
  <2>4. QED
    BY <1>1, <2>1, <2>2, <2>3
<1>4. CASE c # 0
  <2> DEFINE s1 == <<b[c]>>
             s2 == SubSeq(b, f, c - 1)
             s3 == SubSeq(b, c + 1, n)
             h == b[c]
  <2>1. c \in 1..n /\ f \in 1..c /\ h \in Nat
    BY <1>1, <1>2, <1>4, FirstPlaceFacts
  <2>2. Selected(t, b) = (s1 \o s2) \o s3 /\ Start(t, b) = b[f] /\ Top(t, b) = h
    <3>1. Selected(t, b) = s1 \o s2 \o s3
      BY <1>4 DEF Selected, FirstPlace
    <3>2. Start(t, b) = b[f]
      BY <1>4, StartFacts
    <3>3. QED
      BY <1>4, <3>1, <3>2 DEF Top
  <2> HIDE DEF c, f
  <2>3. s1 \in Seq(Nat) /\ Range(s1) = {h} /\ Arrayed(s1, Headed(h))
    <3>1. s1 \in Seq(Nat) /\ DOMAIN s1 = {1} /\ s1[1] = h
      BY <2>1
    <3>2. QED
      BY <3>1 DEF Range, Arrayed
  <2>4. c - 1 \in Nat /\ 1 <= f /\ f \in Nat /\ f <= (c - 1) + 1 /\ c - 1 <= Len(b)
    BY <1>1, <2>1
  <2>5. c + 1 \in Nat /\ n \in Nat /\ 1 <= c + 1 /\ c + 1 <= n + 1 /\ n <= Len(b)
    BY <1>1, <2>1
  <2>6. s2 \in Seq(Nat) /\ Range(s2) = {b[i] : i \in f..(c - 1)} /\ Arrayed(s2, Ascending)
    <3>1. Arrayed(b, Ascending)
      BY DEF Fits
    <3>2. s2 \in Seq(Nat) /\ Range(s2) = {b[i] : i \in f..(c - 1)}
      <4>1. PICK d \in Nat : d = c - 1
        BY <2>4
      <4>2. 1 <= f /\ f \in Nat /\ f <= d + 1 /\ d <= Len(b)
        BY <2>4, <4>1
      <4> HIDE DEF s2
      <4>b. b \in Seq(Nat)
        BY <1>1
      <4>3. SubSeq(b, f, d) \in Seq(Nat) /\ Range(SubSeq(b, f, d)) = {b[i] : i \in f..d}
        BY <4>b, <4>2, PartFacts
      <4>4. QED
        BY <4>1, <4>3 DEF s2
    <3>3. Arrayed(s2, Ascending)
      BY <1>1, <2>4, <3>1, ArrayedPart
    <3>4. QED
      BY <3>2, <3>3
  <2>7. s3 \in Seq(Nat) /\ Range(s3) = {b[i] : i \in (c + 1)..n} /\ Arrayed(s3, Ascending)
    <3>1. Arrayed(b, Ascending)
      BY DEF Fits
    <3>2. s3 \in Seq(Nat) /\ Range(s3) = {b[i] : i \in (c + 1)..n}
      BY <1>1, <2>5, PartFacts
    <3>3. Arrayed(s3, Ascending)
      BY <1>1, <2>5, <3>1, ArrayedPart
    <3>4. QED
      BY <3>2, <3>3
  <2>8. \A x \in Range(s2), y \in Range(s3) : x \in Nat /\ y \in Nat /\ x < y
    <3>1. SUFFICES ASSUME NEW i \in f..(c - 1), NEW j \in (c + 1)..n
                   PROVE  b[i] \in Nat /\ b[j] \in Nat /\ b[i] < b[j]
      BY <2>6, <2>7
    <3>2. i \in 1..n /\ j \in 1..n /\ i < j
      BY <1>1, <2>1
    <3>3. QED
      BY <1>1, <3>2
  <2>9. \A x \in Range(s2) \union Range(s3) : x \in Nat /\ x # h
    <3>1. ASSUME NEW i \in 1..n, i # c PROVE b[i] \in Nat /\ b[i] # h
      BY <1>1, <2>1, <3>1
    <3>2. \A i \in f..(c - 1) : i \in 1..n /\ i # c
      BY <1>1, <2>1
    <3>3. \A i \in (c + 1)..n : i \in 1..n /\ i # c
      BY <1>1, <2>1
    <3>4. QED
      BY <2>6, <2>7, <3>1, <3>2, <3>3
  <2>10. Range(s1) \union Range(s2) \union Range(s3) = {e \in Range(b) : b[f] <= e}
    <3>1. f \in 1..n /\ b[f] \in Nat
      BY <1>1, <2>1
    <3>2. \A i \in 1..n : b[f] <= b[i] <=> f <= i
      <4>1. SUFFICES ASSUME NEW i \in 1..n PROVE b[f] <= b[i] <=> f <= i
        OBVIOUS
      <4>2. b[i] \in Nat /\ (i < f <=> b[i] < b[f]) /\ i \in Nat /\ f \in Nat
        BY <1>1, <3>1
      <4>3. QED
        BY <3>1, <4>2
    <3>3. ASSUME NEW e \in Range(s1) \union Range(s2) \union Range(s3)
          PROVE  e \in Range(b) /\ b[f] <= e
      <4>1. PICK i \in 1..n : e = b[i] /\ f <= i
        <5>1. CASE e = h
          BY <2>1, <5>1
        <5>2. CASE e \in Range(s2)
          <6>1. PICK i \in f..(c - 1) : e = b[i]
            BY <2>6, <5>2
          <6>2. i \in 1..n /\ f <= i
            BY <1>1, <2>1
          <6>3. QED
            BY <6>1, <6>2
        <5>3. CASE e \in Range(s3)
          <6>1. PICK i \in (c + 1)..n : e = b[i]
            BY <2>7, <5>3
          <6>2. i \in 1..n /\ f <= i
            BY <1>1, <2>1
          <6>3. QED
            BY <6>1, <6>2
        <5>4. QED
          BY <2>3, <3>3, <5>1, <5>2, <5>3
      <4>2. QED
        BY <1>1, <3>2, <4>1
    <3>4. ASSUME NEW e \in Range(b), b[f] <= e
          PROVE  e \in Range(s1) \union Range(s2) \union Range(s3)
      <4>1. PICK i \in 1..n : e = b[i]
        BY <1>1
      <4>2. f <= i
        BY <3>2, <3>4, <4>1
      <4>3. i = c \/ i \in f..(c - 1) \/ i \in (c + 1)..n
        BY <1>1, <2>1, <4>2
      <4>4. QED
        BY <2>3, <2>6, <2>7, <4>1, <4>3
    <3>5. QED
      BY <3>3, <3>4
  <2>11. Arrayed(s2, Headed(h)) /\ Arrayed(s3, Headed(h))
    <3>1. ASSUME NEW s \in Seq(Nat), Arrayed(s, Ascending), \A x \in Range(s) : x # h
          PROVE  Arrayed(s, Headed(h))
      <4>1. SUFFICES ASSUME NEW i \in DOMAIN s, NEW j \in DOMAIN s, i < j
                     PROVE  <<s[i], s[j]>> \in Headed(h)
        BY DEF Arrayed
      <4>2. <<s[i], s[j]>> \in Ascending /\ s[j] # h
        BY <3>1, <4>1 DEF Arrayed, Range
      <4>3. QED
        BY <4>2 DEF Ascending, Headed
    <3>2. QED
      BY <2>6, <2>7, <2>9, <3>1
  <2>12. \A x \in Range(s1), y \in Range(s2) : <<x, y>> \in Headed(h)
    BY <2>1, <2>3, <2>9 DEF Headed
  <2>13. \A x \in Range(s1) \union Range(s2), y \in Range(s3) : <<x, y>> \in Headed(h)
    BY <2>1, <2>3, <2>8, <2>9 DEF Headed
  <2> HIDE DEF s1, s2, s3, h
  <2>14. s1 \o s2 \in Seq(Nat) /\ Range(s1 \o s2) = Range(s1) \union Range(s2)
    BY <2>3, <2>6, RangeConcat
  <2>15. (s1 \o s2) \o s3 \in Seq(Nat) /\ Range((s1 \o s2) \o s3) = Range(s1) \union Range(s2) \union Range(s3)
    BY <2>7, <2>14, RangeConcat
  <2>16. Arrayed(s1 \o s2, Headed(h))
    BY <2>3, <2>6, <2>11, <2>12, ArrayedConcat
  <2>17. Arrayed((s1 \o s2) \o s3, Headed(h))
    BY <2>7, <2>11, <2>13, <2>14, <2>16, ArrayedConcat
  <2>18. QED
    BY <2>2, <2>10, <2>15, <2>17
<1>5. QED
  BY <1>3, <1>4

-----------------------------------------------------------------------------
(* A tree that grows, and the messages and the context of its branches.    *)

\* A tree and one more entry.
LEMMA Grown ==
    ASSUME NEW t, Well(t), NEW x \in Entry, x.parent <= Len(t), x.ref <= Len(t)
    PROVE  LET u == Append(t, x)
           IN  /\ Well(u) /\ Len(u) = Len(t) + 1 /\ Len(t) \in Nat
               /\ u[Len(t) + 1] = x /\ \A e \in 1..Len(t) : u[e] = t[e]
<1> DEFINE u == Append(t, x)
           n == Len(t)
<1>1. t \in Seq(Entry) /\ n \in Nat
  BY EntryFacts DEF Well
<1>2. u \in Seq(Entry) /\ Len(u) = n + 1 /\ DOMAIN u = 1..(n + 1) /\ u[n + 1] = x /\ \A e \in 1..n : u[e] = t[e]
  BY <1>1
<1>3. x.parent \in Nat /\ x.ref \in Nat
  BY DEF Entry
<1> HIDE DEF u
<1>4. ASSUME NEW e \in DOMAIN u PROVE u[e].parent < e /\ u[e].ref < e
  <2>1. CASE e = n + 1
    BY <1>1, <1>2, <1>3, <2>1
  <2>2. CASE e # n + 1
    <3>1. e \in 1..n /\ u[e] = t[e]
      BY <1>1, <1>2, <1>4, <2>2
    <3>2. QED
      BY <1>1, <3>1 DEF Well
  <2>3. QED
    BY <2>1, <2>2
<1>5. Well(u)
  BY <1>2, <1>4 DEF Well
<1>6. QED
  BY <1>1, <1>2, <1>5 DEF u

\* A branch is made of entries up to its leaf, which it contains.
LEMMA BranchFits ==
    ASSUME NEW t, Well(t), NEW l \in 0..Len(t)
    PROVE  /\ Fits(t, BranchIn(t, l)) /\ Range(BranchIn(t, l)) \subseteq 1..l
           /\ l # 0 => l \in Range(BranchIn(t, l))
<1>1. /\ BranchIn(t, l) \in Seq(Nat) /\ Range(BranchIn(t, l)) \subseteq 1..l
      /\ Arrayed(BranchIn(t, l), Ascending)
      /\ l # 0 => l \in Range(BranchIn(t, l))
  BY BranchFacts
<1>2. 1..l \subseteq 1..Len(t)
  BY EntryFacts
<1>3. QED
  BY <1>1, <1>2 DEF Fits

\* The branch of a new entry is that of its parent and the entry.
LEMMA BranchGrown ==
    ASSUME NEW t, Well(t), NEW x \in Entry, x.parent <= Len(t), x.ref <= Len(t)
    PROVE  BranchIn(Append(t, x), Len(t) + 1) = Append(BranchIn(t, x.parent), Len(t) + 1)
<1> DEFINE u == Append(t, x)
           n == Len(t) + 1
<1>1. Well(u) /\ Len(u) = n /\ Len(t) \in Nat /\ u[n] = x
  BY Grown
<1>2. n \in 1..Len(u)
  BY <1>1
<1>3. x.parent \in Nat
  BY DEF Entry
<1>4. x.parent \in 0..Len(t)
  BY <1>1, <1>3
<1>5. BranchIn(u, x.parent) = BranchIn(t, x.parent)
  BY <1>1, <1>4, BranchKept
<1> HIDE DEF u, n
<1>6. BranchIn(u, n) = Append(BranchIn(u, u[n].parent), n)
  BY <1>1, <1>2, BranchStep
<1>7. QED
  BY <1>1, <1>5, <1>6 DEF u, n

\* An entry that is no compaction is selected after the ones before it.
LEMMA SelectedGrown ==
    ASSUME NEW t, Well(t), NEW x \in Entry, x.parent <= Len(t), x.ref <= Len(t), x.kind # "compaction",
           NEW b, Fits(t, b)
    PROVE  Selected(Append(t, x), Append(b, Len(t) + 1)) = Append(Selected(t, b), Len(t) + 1)
<1> DEFINE u == Append(t, x)
           new == Len(t) + 1
           d == Append(b, new)
           n == Len(b)
           c == LastCompaction(t, b)
<1>1. Len(u) = new /\ Len(t) \in Nat /\ u[new] = x /\ \A e \in 1..Len(t) : u[e] = t[e]
  BY Grown
<1>2. b \in Seq(Nat) /\ n \in Nat /\ DOMAIN b = 1..n /\ \A i \in 1..n : b[i] \in 1..Len(t)
  BY BranchOrder
<1>3. new \in Nat /\ d \in Seq(Nat) /\ Len(d) = n + 1 /\ DOMAIN d = 1..(n + 1) /\ d[n + 1] = new /\ \A i \in 1..n : d[i] = b[i]
  BY <1>1, <1>2
<1>4. c \in 0..n
  BY <1>2, LastCompactionFacts
<1> HIDE DEF u, new, d, n
<1>5. \A i \in 1..n : u[d[i]] = t[b[i]]
  BY <1>1, <1>2, <1>3
<1>6. LastCompaction(u, d) = c
  <2>1. {i \in DOMAIN d : u[d[i]].kind = "compaction"} = {i \in DOMAIN b : t[b[i]].kind = "compaction"}
    <3>1. u[d[n + 1]].kind # "compaction"
      BY <1>1, <1>3
    <3>2. \A i \in 1..(n + 1) : i \in 1..n \/ i = n + 1
      BY <1>2
    <3>3. \A i \in 1..n : i \in 1..(n + 1)
      BY <1>2
    <3>4. QED
      BY <1>2, <1>3, <1>5, <3>1, <3>2, <3>3
  <2>2. QED
    BY <2>1 DEF LastCompaction
<1>7. CASE c = 0
  <2>1. Selected(u, d) = d /\ Selected(t, b) = b
    BY <1>6, <1>7 DEF Selected
  <2>2. QED
    BY <2>1 DEF u, d, new
<1>8. CASE c # 0
  <2> DEFINE f == FirstPlace(t, b)
  <2>1. c \in 1..n /\ f \in 1..c
    BY <1>2, <1>4, <1>8, FirstPlaceFacts
  <2>2. FirstPlace(u, d) = f
    <3>1. {i \in 1..(c - 1) : d[i] = u[d[c]].ref} = {i \in 1..(c - 1) : b[i] = t[b[c]].ref}
      <4>1. \A i \in 1..(c - 1) : i \in 1..n
        BY <1>2, <2>1
      <4>2. u[d[c]].ref = t[b[c]].ref
        BY <1>5, <2>1
      <4>3. QED
        BY <1>3, <4>1, <4>2
    <3>2. QED
      BY <1>6, <3>1 DEF FirstPlace
  <2>3. Selected(u, d) = <<d[c]>> \o SubSeq(d, f, c - 1) \o SubSeq(d, c + 1, Len(d))
    BY <1>6, <1>8, <2>2 DEF Selected, FirstPlace
  <2>4. Selected(t, b) = <<b[c]>> \o SubSeq(b, f, c - 1) \o SubSeq(b, c + 1, n)
    BY <1>8 DEF Selected, FirstPlace, n
  <2> HIDE DEF c, f
  <2>5. d[c] = b[c]
    BY <1>3, <2>1
  <2>6. SubSeq(d, f, c - 1) = SubSeq(b, f, c - 1)
    BY <1>2, <1>3, <2>1
  <2>7. SubSeq(d, c + 1, n + 1) = Append(SubSeq(b, c + 1, n), new)
    <3> DEFINE p == SubSeq(b, c + 1, n)
               q == SubSeq(d, c + 1, n + 1)
    <3>1. c + 1 \in Nat /\ n \in Nat /\ n + 1 \in Nat /\ 1 <= c + 1 /\ c + 1 <= n + 1 /\ c + 1 <= (n + 1) + 1 /\ n <= Len(b) /\ n + 1 <= Len(d)
      BY <1>2, <1>3, <2>1 DEF n
    <3>2. p \in Seq(Nat) /\ Len(p) = (n - (c + 1)) + 1 /\ \A i \in 1..((n - (c + 1)) + 1) : p[i] = b[((c + 1) + i) - 1]
      BY <1>2, <3>1, PartFacts
    <3>3. q \in Seq(Nat) /\ Len(q) = ((n + 1) - (c + 1)) + 1 /\ \A i \in 1..(((n + 1) - (c + 1)) + 1) : q[i] = d[((c + 1) + i) - 1]
      BY <1>3, <3>1, PartFacts
    <3> HIDE DEF p, q
    <3>n. c \in Nat /\ n \in Nat /\ c <= n
      BY <1>2, <1>4
    <3> HIDE DEF c
    <3>a. n - c \in Nat /\ (n - (c + 1)) + 1 = n - c /\ ((n + 1) - (c + 1)) + 1 = (n - c) + 1
      BY <3>n
    <3>4. Len(p) = n - c /\ Len(q) = (n - c) + 1 /\ n - c \in Nat
      BY <3>2, <3>3, <3>a
    <3>5. \A i \in 1..(n - c) : q[i] = p[i]
      <4>1. SUFFICES ASSUME NEW i \in 1..(n - c) PROVE q[i] = p[i]
        OBVIOUS
      <4>2. i \in 1..((n - (c + 1)) + 1) /\ i \in 1..(((n + 1) - (c + 1)) + 1) /\ ((c + 1) + i) - 1 \in 1..n
        BY <1>2, <2>1
      <4>3. QED
        BY <1>3, <3>2, <3>3, <4>2
    <3>6. q[(n - c) + 1] = new
      <4>1. (n - c) + 1 \in 1..(((n + 1) - (c + 1)) + 1) /\ ((c + 1) + ((n - c) + 1)) - 1 = n + 1
        BY <1>2, <2>1
      <4>2. q[(n - c) + 1] = d[((c + 1) + ((n - c) + 1)) - 1]
        BY <3>3, <4>1
      <4>3. QED
        BY <1>3, <4>1, <4>2
    <3> DEFINE r == Append(p, new)
    <3>7. r \in Seq(Nat) /\ Len(r) = (n - c) + 1 /\ r[(n - c) + 1] = new /\ \A i \in 1..(n - c) : r[i] = p[i]
      BY <1>3, <3>2, <3>4
    <3> HIDE DEF r
    <3>8. \A i \in 1..((n - c) + 1) : q[i] = r[i]
      <4>1. \A i \in 1..((n - c) + 1) : i \in 1..(n - c) \/ i = (n - c) + 1
        BY <3>4
      <4>2. QED
        BY <3>5, <3>6, <3>7, <4>1
    <3>9. q = r
      BY <3>3, <3>4, <3>7, <3>8
    <3>10. QED
      BY <3>9 DEF p, q, r
  <2>8. <<b[c]>> \in Seq(Nat) /\ SubSeq(b, f, c - 1) \in Seq(Nat) /\ SubSeq(b, c + 1, n) \in Seq(Nat)
    <3>1. b[c] \in Nat
      BY <1>2, <2>1
    <3>2. c - 1 \in Nat /\ f \in Nat /\ 1 <= f /\ f <= (c - 1) + 1 /\ c - 1 <= Len(b)
      BY <1>2, <2>1 DEF n
    <3>3. c + 1 \in Nat /\ 1 <= c + 1 /\ c + 1 <= n + 1 /\ n <= Len(b)
      BY <1>2, <2>1 DEF n
    <3>4. b \in Seq(Nat) /\ n \in Nat
      BY <1>2
    <3>5. SubSeq(b, f, c - 1) \in Seq(Nat)
      BY <3>2, <3>4, PartFacts
    <3>6. SubSeq(b, c + 1, n) \in Seq(Nat)
      BY <3>3, <3>4, PartFacts
    <3>7. QED
      BY <3>1, <3>5, <3>6
  <2> DEFINE s1 == <<b[c]>>
             s2 == SubSeq(b, f, c - 1)
             s3 == SubSeq(b, c + 1, n)
  <2>9. s1 \in Seq(Nat) /\ s2 \in Seq(Nat) /\ s3 \in Seq(Nat)
    BY <2>8
  <2>10. Selected(u, d) = (s1 \o s2) \o Append(s3, new) /\ Selected(t, b) = (s1 \o s2) \o s3
    BY <1>3, <2>3, <2>4, <2>5, <2>6, <2>7
  <2> HIDE DEF s1, s2, s3
  <2>11. s1 \o s2 \in Seq(Nat)
    BY <2>9, RangeConcat
  <2>12. (s1 \o s2) \o Append(s3, new) = Append((s1 \o s2) \o s3, new)
    BY <1>3, <2>9, <2>11, ConcatAppend
  <2>13. QED
    BY <2>10, <2>12 DEF u, d, new
<1>9. QED
  BY <1>7, <1>8

\* The messages of a branch.
LEMMA MessagesFacts ==
    ASSUME NEW t, Well(t), NEW l \in 0..Len(t)
    PROVE  LET b == BranchIn(t, l)
           IN  /\ Messages(t, l) \in Seq(Nat)
               /\ Range(Messages(t, l)) = {e \in Range(b) : Start(t, b) <= e /\ t[e].kind # "setting"}
               /\ Arrayed(Messages(t, l), Headed(Top(t, b)))
<1> DEFINE b == BranchIn(t, l)
           S == Of(t, EntryKinds \ {"setting"})
           s == Selected(t, b)
<1>1. Fits(t, b)
  BY BranchFits
<1>2. s \in Seq(Nat) /\ Range(s) = {e \in Range(b) : Start(t, b) <= e} /\ Arrayed(s, Headed(Top(t, b)))
  BY <1>1, SelectedFacts
<1>3. Messages(t, l) = Only(s, S)
  BY DEF Messages
<1>4. \A e \in Range(b) : e \in S <=> t[e].kind # "setting"
  <2>1. SUFFICES ASSUME NEW e \in Range(b) PROVE e \in S <=> t[e].kind # "setting"
    OBVIOUS
  <2>2. e \in 1..Len(t)
    BY <1>1 DEF Fits
  <2>3. e \in DOMAIN t /\ t[e].kind \in EntryKinds
    BY <2>2, EntryFacts
  <2>4. QED
    BY <2>3 DEF Of
<1> HIDE DEF b, S, s
<1>5. Only(s, S) \in Seq(Nat) /\ Range(Only(s, S)) = Range(s) \intersect S
  BY <1>2, OnlyFacts
<1>6. Arrayed(Only(s, S), Headed(Top(t, b)))
  BY <1>2, OnlyArrayed
<1>7. Range(s) \intersect S = {e \in Range(b) : Start(t, b) <= e /\ t[e].kind # "setting"}
  BY <1>2, <1>4
<1>8. QED
  BY <1>3, <1>5, <1>6, <1>7 DEF b

\* The context of a branch: its messages, and no result without its call.
LEMMA ContextFacts ==
    ASSUME NEW t, Well(t), NEW l \in 0..Len(t)
    PROVE  LET b == BranchIn(t, l)
               M == Range(Messages(t, l))
           IN  /\ ContextOf(t, l) \in Seq(Nat)
               /\ Range(ContextOf(t, l)) = {e \in M : t[e].kind = "result" => t[e].ref \in M}
               /\ Range(ContextOf(t, l)) \subseteq Range(b) /\ Range(ContextOf(t, l)) \subseteq 1..Len(t)
               /\ Arrayed(ContextOf(t, l), Headed(Top(t, b)))
<1> DEFINE b == BranchIn(t, l)
           m == Messages(t, l)
           S == {e \in DOMAIN t : t[e].kind = "result" => t[e].ref \in Range(m)}
<1>1. m \in Seq(Nat) /\ Range(m) \subseteq Range(b) /\ Arrayed(m, Headed(Top(t, b)))
  BY MessagesFacts
<1>2. Range(b) \subseteq 1..Len(t) /\ DOMAIN t = 1..Len(t)
  BY BranchFits, EntryFacts DEF Fits
<1>3. ContextOf(t, l) = Only(m, S)
  BY DEF ContextOf
<1> HIDE DEF b, m
<1>4. Only(m, S) \in Seq(Nat) /\ Range(Only(m, S)) = Range(m) \intersect S
  BY <1>1, OnlyFacts
<1>5. Arrayed(Only(m, S), Headed(Top(t, b)))
  BY <1>1, OnlyArrayed
<1>6. Range(m) \intersect S = {e \in Range(m) : t[e].kind = "result" => t[e].ref \in Range(m)}
  BY <1>1, <1>2
<1>7. QED
  BY <1>1, <1>2, <1>3, <1>4, <1>5, <1>6 DEF b, m

\* An entry that is no compaction is the last message, unless it is a setting.
LEMMA MessagesGrown ==
    ASSUME NEW t, Well(t), NEW x \in Entry, x.parent <= Len(t), x.ref <= Len(t), x.kind # "compaction"
    PROVE  Messages(Append(t, x), Len(t) + 1) =
               IF x.kind = "setting" THEN Messages(t, x.parent)
               ELSE Append(Messages(t, x.parent), Len(t) + 1)
<1> DEFINE u == Append(t, x)
           new == Len(t) + 1
           b == BranchIn(t, x.parent)
           s == Selected(t, b)
           S == Of(t, EntryKinds \ {"setting"})
           T == Of(u, EntryKinds \ {"setting"})
<1>1. Well(u) /\ Len(u) = new /\ Len(t) \in Nat /\ u[new] = x /\ \A e \in 1..Len(t) : u[e] = t[e]
  BY Grown
<1>2. x.parent \in 0..Len(t)
  BY <1>1 DEF Entry
<1>3. Fits(t, b)
  BY <1>2, BranchFits
<1>4. BranchIn(u, new) = Append(b, new)
  BY BranchGrown
<1>5. Selected(u, Append(b, new)) = Append(s, new)
  BY <1>3, SelectedGrown
<1>6. s \in Seq(Nat) /\ Range(s) \subseteq 1..Len(t)
  <2>1. s \in Seq(Nat) /\ Range(s) \subseteq Range(b)
    BY <1>3, SelectedFacts
  <2>2. QED
    BY <1>3, <2>1 DEF Fits
<1>7. Messages(u, new) = Only(Append(s, new), T) /\ Messages(t, x.parent) = Only(s, S)
  BY <1>4, <1>5 DEF Messages
<1>8. DOMAIN u = 1..new /\ DOMAIN t = 1..Len(t)
  BY <1>1, EntryFacts
<1>9. new \in T <=> x.kind # "setting"
  <2>1. x.kind \in EntryKinds /\ new \in DOMAIN u
    BY <1>1, <1>8 DEF Entry
  <2>2. QED
    BY <1>1, <2>1 DEF Of
<1>10. \A e \in 1..Len(t) : e \in S <=> e \in T
  <2>1. \A e \in 1..Len(t) : e \in DOMAIN u /\ e \in DOMAIN t
    BY <1>1, <1>8
  <2>2. QED
    BY <1>1, <2>1 DEF Of
<1> HIDE DEF u, new, s, S, T, b
<1>11. Only(s, T) = Only(s, S)
  <2>1. Range(s) \intersect S = Range(s) \intersect T
    BY <1>6, <1>10
  <2>2. QED
    BY <1>6, <2>1, OnlySame
<1>12. Only(Append(s, new), T) = IF new \in T THEN Append(Only(s, T), new) ELSE Only(s, T)
  <2>1. new \in Nat
    BY <1>1 DEF new
  <2>2. QED
    BY <1>6, <2>1, OnlyAppend
<1>13. QED
  BY <1>7, <1>9, <1>11, <1>12 DEF u, new

\* It is added to the context, unless it is a setting or a result whose call is gone.
LEMMA ContextGrown ==
    ASSUME NEW t, Well(t), NEW x \in Entry, x.parent <= Len(t), x.ref <= Len(t), x.kind # "compaction"
    PROVE  ContextOf(Append(t, x), Len(t) + 1) =
               IF x.kind = "setting" \/ (x.kind = "result" /\ x.ref \notin Range(Messages(t, x.parent)))
               THEN ContextOf(t, x.parent)
               ELSE Append(ContextOf(t, x.parent), Len(t) + 1)
<1> DEFINE u == Append(t, x)
           new == Len(t) + 1
           m == Messages(t, x.parent)
           w == Messages(u, new)
           S == {e \in DOMAIN t : t[e].kind = "result" => t[e].ref \in Range(m)}
           T == {e \in DOMAIN u : u[e].kind = "result" => u[e].ref \in Range(w)}
<1>1. Well(u) /\ Len(u) = new /\ Len(t) \in Nat /\ new \in Nat /\ u[new] = x /\ \A e \in 1..Len(t) : u[e] = t[e]
  BY Grown
<1>2. x.parent \in 0..Len(t)
  BY <1>1 DEF Entry
<1>3. w = IF x.kind = "setting" THEN m ELSE Append(m, new)
  BY MessagesGrown
<1>4. m \in Seq(Nat) /\ Range(m) \subseteq 1..Len(t)
  <2>1. m \in Seq(Nat) /\ Range(m) \subseteq Range(BranchIn(t, x.parent))
    BY <1>2, MessagesFacts
  <2>2. Range(BranchIn(t, x.parent)) \subseteq 1..Len(t)
    BY <1>2, BranchFits DEF Fits
  <2>3. QED
    BY <2>1, <2>2
<1>5. ContextOf(u, new) = Only(w, T) /\ ContextOf(t, x.parent) = Only(m, S)
  BY DEF ContextOf
<1>6. DOMAIN u = 1..new /\ DOMAIN t = 1..Len(t)
  BY <1>1, EntryFacts
<1>8. \A e \in 1..Len(t) : t[e].ref \in 0..(e - 1)
  BY EntryFacts
<1> HIDE DEF m, w, u
<1>7. Range(w) = IF x.kind = "setting" THEN Range(m) ELSE Range(m) \union {new}
  <2>1. Range(Append(m, new)) = Range(m) \union {new}
    BY <1>1, <1>4, RangeAppend
  <2>2. QED
    BY <1>3, <2>1
<1>9. \A e \in 1..Len(t) : e \in S <=> e \in T
  <2>1. SUFFICES ASSUME NEW e \in 1..Len(t) PROVE e \in S <=> e \in T
    OBVIOUS
  <2>2. e \in DOMAIN u /\ e \in DOMAIN t /\ u[e] = t[e]
    BY <1>1, <1>6
  <2>3. t[e].ref # new
    BY <1>1, <1>8
  <2>4. QED
    BY <1>7, <2>2, <2>3
<1>10. new \in T <=> (x.kind = "result" => x.ref \in Range(m))
  <2>1. new \in DOMAIN u
    BY <1>1, <1>6
  <2>2. x.ref # new
    BY <1>1 DEF Entry
  <2>3. x.kind = "result" => Range(w) = Range(m) \union {new}
    BY <1>7
  <2>4. QED
    BY <1>1, <2>1, <2>2, <2>3
<1> HIDE DEF S, T, new
<1>11. Only(m, T) = Only(m, S)
  <2>1. Range(m) \intersect S = Range(m) \intersect T
    BY <1>4, <1>9
  <2>2. QED
    BY <1>4, <2>1, OnlySame
<1>12. Only(Append(m, new), T) = IF new \in T THEN Append(Only(m, T), new) ELSE Only(m, T)
  BY <1>1, <1>4, OnlyAppend
<1>13. QED
  BY <1>3, <1>5, <1>10, <1>11, <1>12 DEF u, new, m

\* The messages of a branch that ends with a compaction.
LEMMA MessagesCompacted ==
    ASSUME NEW t, Well(t), NEW x \in Entry, x.parent <= Len(t), x.ref <= Len(t), x.kind = "compaction"
    PROVE  LET b == BranchIn(t, x.parent)
           IN  Range(Messages(Append(t, x), Len(t) + 1)) =
                   {Len(t) + 1} \union {e \in Range(b) : x.ref \in Range(b) /\ x.ref <= e /\ t[e].kind # "setting"}
<1> DEFINE u == Append(t, x)
           new == Len(t) + 1
           b == BranchIn(t, x.parent)
           d == BranchIn(u, new)
           n == Len(b)
<1>1. Well(u) /\ Len(u) = new /\ Len(t) \in Nat /\ new \in Nat /\ u[new] = x /\ \A e \in 1..Len(t) : u[e] = t[e]
  BY Grown
<1>2. x.parent \in 0..Len(t) /\ x.ref \in 0..Len(t)
  BY <1>1 DEF Entry
<1>3. b \in Seq(Nat) /\ Range(b) \subseteq 1..Len(t)
  BY <1>2, BranchFits DEF Fits
<1>4. d = Append(b, new)
  BY BranchGrown
<1> HIDE DEF b, u, d
<1>5. /\ n \in Nat /\ d \in Seq(Nat) /\ Len(d) = n + 1 /\ d[n + 1] = new
      /\ Range(d) = Range(b) \union {new}
  <2>1. n \in Nat /\ d \in Seq(Nat) /\ Len(d) = n + 1 /\ d[n + 1] = new
    BY <1>1, <1>3, <1>4
  <2>2. Range(d) = Range(b) \union {new}
    BY <1>1, <1>3, <1>4, RangeAppend
  <2>3. QED
    BY <2>1, <2>2
<1>6. LastCompaction(u, d) = n + 1
  <2> DEFINE c == LastCompaction(u, d)
  <2>1. c \in 0..(n + 1) /\ \A i \in 1..(n + 1) : u[d[i]].kind = "compaction" => i <= c
    BY <1>5, LastCompactionFacts
  <2>2. n + 1 \in 1..(n + 1) /\ u[d[n + 1]].kind = "compaction"
    BY <1>1, <1>5
  <2> HIDE DEF c
  <2>3. n + 1 <= c
    BY <2>1, <2>2
  <2>4. QED
    BY <1>5, <2>1, <2>3 DEF c
<1>7. Start(u, d) = IF x.ref \in Range(d) THEN x.ref ELSE new
  BY <1>1, <1>5, <1>6 DEF Start
<1>8. x.ref \in Range(d) <=> x.ref \in Range(b)
  BY <1>1, <1>2, <1>5
<1>9. new \in 0..Len(u)
  BY <1>1
<1>10. Range(Messages(u, new)) = {e \in Range(d) : Start(u, d) <= e /\ u[e].kind # "setting"}
  BY <1>1, <1>9, MessagesFacts DEF d
<1>11. \A e \in Range(b) : e \in Nat /\ u[e] = t[e] /\ ~(new <= e)
  BY <1>1, <1>3
<1>12. Start(u, d) <= new /\ u[new].kind # "setting"
  BY <1>1, <1>2, <1>7
<1>13. \A e \in Range(b) : Start(u, d) <= e <=> x.ref \in Range(b) /\ x.ref <= e
  BY <1>7, <1>8, <1>11
<1>14. QED
  BY <1>5, <1>10, <1>11, <1>12, <1>13 DEF u, b

-----------------------------------------------------------------------------
(* The parts of the invariant of SessionContext.                           *)

\* What a conversation says, and the messages of some kinds in it.
Said == Of(tree, EntryKinds \ {"failed", "hidden"})
CallEntries == Of(tree, {"call"})
Assistant == Of(tree, {"reply", "call", "failed"})
Failed == Of(tree, {"failed"})

\* The state has its shape, and what is remembered about the tree is in the tree.
Shape ==
    /\ ContextTypeOK
    /\ Len(tree) <= MaxEntries
    /\ \A t \in Threads : Range(txn[t].source) \subseteq DOMAIN tree
    /\ gone \subseteq DOMAIN tree
    /\ \A e \in Of(tree, {"result"}) : tree[e].ref \in CallEntries
    /\ phase = "tool" => CallEntries # {}
    /\ Busy("user") => txn["user"].variant \in {"manual", "deep"}

\* What is not stored yet is last, and unless two threads changed the
\* conversation at once, live and every copy of it say what is stored.
Agreement ==
    /\ ~notice => 0 \notin Range(live)
    /\ ~raced => \A i \in DOMAIN live : live[i] = 0 => i = Len(live)
    /\ ~raced => Only(live, Said) = Only(Stored, Said)
    /\ \A t \in Threads : Busy(t) /\ ~raced => Only(txn[t].source, Said) = Only(Stored, Said)
    /\ ~raced /\ phase = "tool" => ~Compacting /\ ~notice /\ Max(CallEntries) \in Range(Stored)

\* The last of these messages that an assistant wrote, if there is one, has failed.
FailedLast(s) == LET a == Only(s, Assistant) IN a # <<>> => a[Len(a)] \in Failed

\* After a failure the last message of an assistant is the failed one.
Failure ==
    /\ phase = "failed" => \E m \in Range(BranchIn(tree, leaf)) \intersect Failed : \A e \in Assistant : e <= m
    /\ phase = "failed" /\ ~raced => FailedLast(live) /\ (Busy("user") => FailedLast(txn["user"].source))

\* Nothing summarised away is back, and nothing else is gone.
Kept == ~skewed => lost = {} /\ gone \intersect Range(Stored) = {}

\* A sequence over a set is one over a larger set.
LEMMA SeqWider ==
    ASSUME NEW A, NEW B, A \subseteq B, NEW s \in Seq(A)
    PROVE  s \in Seq(B)
<1>1. Len(s) \in Nat /\ s = [i \in 1..Len(s) |-> s[i]] /\ \A i \in 1..Len(s) : s[i] \in A
  OBVIOUS
<1>2. \A i \in 1..Len(s) : s[i] \in B
  BY <1>1
<1>3. [i \in 1..Len(s) |-> s[i]] \in Seq(B)
  BY <1>1, <1>2
<1>4. QED
  BY <1>1, <1>3

\* What the provers need of Shape, in the form in which they need it.
LEMMA ShapeFacts ==
    ASSUME Shape
    PROVE  /\ Well(tree) /\ Len(tree) \in Nat /\ DOMAIN tree = 1..Len(tree) /\ Len(tree) <= MaxEntries /\ MaxEntries \in Nat
           /\ leaf \in 0..Len(tree)
           /\ live \in Seq(Nat) /\ Range(live) \subseteq 0..Len(tree)
           /\ \A t \in Threads : /\ txn[t].source \in Seq(Nat) /\ Range(txn[t].source) \subseteq 1..Len(tree)
                                 /\ DOMAIN txn = Threads
                                 /\ txn[t] \in {NoTxn} \union [variant : Variants, source : Seq(Ids)]
<1>1. tree \in Seq([kind : EntryKinds, parent : 0..MaxEntries, ref : 0..MaxEntries]) /\ MaxEntries \in Nat
  BY ContextAssumption DEF Shape, ContextTypeOK
<1>2. \A e \in DOMAIN tree : tree[e].parent < e /\ tree[e].ref < e
  BY DEF Shape, ContextTypeOK
<1>3. Len(tree) \in Nat /\ DOMAIN tree = 1..Len(tree) /\ Len(tree) <= MaxEntries
  BY <1>1 DEF Shape
<1>4. Well(tree)
  <2>1. [kind : EntryKinds, parent : 0..MaxEntries, ref : 0..MaxEntries] \subseteq Entry
    BY <1>1 DEF Entry
  <2>2. tree \in Seq(Entry)
    BY <1>1, <2>1, SeqWider
  <2>3. QED
    BY <1>2, <2>2 DEF Well
<1>5. leaf \in 0..Len(tree) /\ live \in Seq(0..Len(tree))
  BY DEF Shape, ContextTypeOK
<1>6. live \in Seq(Nat) /\ Range(live) \subseteq 0..Len(tree)
  BY <1>3, <1>5 DEF Range
<1>7. txn \in [Threads -> {NoTxn} \union [variant : Variants, source : Seq(Ids)]]
  BY DEF Shape, ContextTypeOK
<1>8. ASSUME NEW t \in Threads
      PROVE  /\ txn[t].source \in Seq(Nat) /\ Range(txn[t].source) \subseteq 1..Len(tree) /\ DOMAIN txn = Threads
             /\ txn[t] \in {NoTxn} \union [variant : Variants, source : Seq(Ids)]
  <2>1. txn[t] \in {NoTxn} \union [variant : Variants, source : Seq(Ids)] /\ DOMAIN txn = Threads
    BY <1>7
  <2>2. txn[t].source = <<>> \/ txn[t].source \in Seq(Ids)
    BY <2>1 DEF NoTxn
  <2>3. Ids \subseteq Nat
    BY <1>1 DEF Ids
  <2>4. txn[t].source \in Seq(Nat)
    <3>1. CASE txn[t].source = <<>>
      BY <3>1, RangeEmpty
    <3>2. CASE txn[t].source \in Seq(Ids)
      BY <2>3, <3>2, SeqWider
    <3>3. QED
      BY <2>2, <3>1, <3>2
  <2>5. QED
    BY <1>3, <2>1, <2>4 DEF Shape
<1>9. QED
  BY <1>1, <1>3, <1>4, <1>5, <1>6, <1>8

\* The entries of some kinds, in a tree with one more entry.
LEMMA OfGrown ==
    ASSUME NEW t, Well(t), NEW x \in Entry, x.parent <= Len(t), x.ref <= Len(t), NEW K
    PROVE  /\ Of(t, K) \subseteq 1..Len(t)
           /\ Of(Append(t, x), K) = Of(t, K) \union (IF x.kind \in K THEN {Len(t) + 1} ELSE {})
<1> DEFINE u == Append(t, x)
           new == Len(t) + 1
<1>1. Well(u) /\ Len(u) = new /\ Len(t) \in Nat /\ u[new] = x /\ \A e \in 1..Len(t) : u[e] = t[e]
  BY Grown
<1>2. DOMAIN t = 1..Len(t) /\ DOMAIN u = 1..new
  BY <1>1, EntryFacts
<1> HIDE DEF u
<1>3. \A e \in 1..new : e \in 1..Len(t) \/ e = new
  BY <1>1
<1>4. \A e \in 1..Len(t) : e \in 1..new /\ e # new
  BY <1>1
<1>5. new \in 1..new
  BY <1>1
<1>6. Of(u, K) = Of(t, K) \union (IF x.kind \in K THEN {new} ELSE {})
  BY <1>1, <1>2, <1>3, <1>4, <1>5 DEF Of
<1>7. QED
  BY <1>2, <1>6 DEF Of, u

\* What was there is there of the same kinds.
LEMMA OnlyGrown ==
    ASSUME NEW t, Well(t), NEW x \in Entry, x.parent <= Len(t), x.ref <= Len(t), NEW K,
           NEW s \in Seq(Nat), Range(s) \subseteq 0..Len(t)
    PROVE  Only(s, Of(Append(t, x), K)) = Only(s, Of(t, K))
<1>1. Len(t) \in Nat
  BY EntryFacts
<1>2. Of(Append(t, x), K) = Of(t, K) \union (IF x.kind \in K THEN {Len(t) + 1} ELSE {})
  BY OfGrown
<1>3. Len(t) + 1 \notin Range(s)
  BY <1>1
<1>4. Range(s) \intersect Of(Append(t, x), K) = Range(s) \intersect Of(t, K)
  BY <1>2, <1>3
<1>5. QED
  BY <1>4, OnlySame

\* One more entry at the leaf.
LEMMA Puts ==
    ASSUME Shape, NEW kind \in EntryKinds \ {"compaction"}, NEW ref \in 0..Len(tree), Put(kind, ref)
    PROVE  LET new == Len(tree) + 1
           IN  /\ new \in Nat /\ new \in Ids /\ leaf' = new /\ Len(tree') = new /\ Well(tree') /\ DOMAIN tree' = 1..new
               /\ tree' \in Seq([kind : EntryKinds, parent : 0..MaxEntries, ref : 0..MaxEntries])
               /\ tree'[new] = [kind |-> kind, parent |-> leaf, ref |-> ref]
               /\ \A e \in 1..Len(tree) : tree'[e] = tree[e]
               /\ BranchIn(tree', leaf') = Append(BranchIn(tree, leaf), new)
               /\ Stored' = IF kind = "setting" \/ (kind = "result" /\ ref \notin Range(Messages(tree, leaf)))
                            THEN Stored ELSE Append(Stored, new)
               /\ \A K : Of(tree', K) = Of(tree, K) \union (IF kind \in K THEN {new} ELSE {})
               /\ \A K : \A s \in Seq(Nat) : Range(s) \subseteq 0..Len(tree) =>
                             Only(s, Of(tree', K)) = Only(s, Of(tree, K))
<1> DEFINE new == Len(tree) + 1
           x == [kind |-> kind, parent |-> leaf, ref |-> ref]
<1>1. /\ Well(tree) /\ Len(tree) \in Nat /\ DOMAIN tree = 1..Len(tree) /\ Len(tree) <= MaxEntries /\ MaxEntries \in Nat
      /\ leaf \in 0..Len(tree)
  BY ShapeFacts
<1>2. Len(tree) < MaxEntries /\ tree' = Append(tree, x) /\ leaf' = new
  BY DEF Put
<1>3. leaf \in Nat /\ ref \in Nat /\ kind \in EntryKinds
  BY <1>1
<1>4. x \in Entry /\ x.parent = leaf /\ x.ref = ref /\ x.kind = kind
  BY <1>3 DEF Entry
<1>5. x.parent <= Len(tree) /\ x.ref <= Len(tree) /\ x.kind # "compaction"
  BY <1>1, <1>4
<1>x. x = [kind |-> kind, parent |-> leaf, ref |-> ref]
  OBVIOUS
<1> HIDE DEF x
<1>6. /\ Well(tree') /\ Len(tree') = new /\ tree'[new] = x
      /\ \A e \in 1..Len(tree) : tree'[e] = tree[e]
  BY <1>1, <1>2, <1>4, <1>5, Grown
<1>7. DOMAIN tree' = 1..new
  BY <1>6, EntryFacts
<1>8. new \in Nat /\ new \in Ids
  BY <1>1, <1>2 DEF Ids
<1>9. tree' \in Seq([kind : EntryKinds, parent : 0..MaxEntries, ref : 0..MaxEntries])
  <2>1. tree \in Seq([kind : EntryKinds, parent : 0..MaxEntries, ref : 0..MaxEntries])
    BY DEF Shape, ContextTypeOK
  <2>2. leaf \in 0..MaxEntries /\ ref \in 0..MaxEntries
    BY <1>1
  <2>3. x \in [kind : EntryKinds, parent : 0..MaxEntries, ref : 0..MaxEntries]
    BY <1>3, <1>x, <2>2
  <2>4. QED
    BY <1>2, <2>1, <2>3
<1>10. BranchIn(tree', leaf') = Append(BranchIn(tree, leaf), new)
  BY <1>1, <1>2, <1>4, <1>5, BranchGrown
<1>11. Stored' = IF kind = "setting" \/ (kind = "result" /\ ref \notin Range(Messages(tree, leaf)))
                 THEN Stored ELSE Append(Stored, new)
  <2>1. ContextOf(Append(tree, x), new) =
               IF x.kind = "setting" \/ (x.kind = "result" /\ x.ref \notin Range(Messages(tree, x.parent)))
               THEN ContextOf(tree, x.parent)
               ELSE Append(ContextOf(tree, x.parent), new)
    BY <1>1, <1>4, <1>5, ContextGrown
  <2>2. Stored' = ContextOf(tree', leaf')
    BY DEF Stored
  <2>3. QED
    BY <1>2, <1>4, <2>1, <2>2 DEF Stored
<1>12. \A K : Of(tree', K) = Of(tree, K) \union (IF kind \in K THEN {new} ELSE {})
  BY <1>1, <1>2, <1>4, <1>5, OfGrown
<1>13. \A K : \A s \in Seq(Nat) : Range(s) \subseteq 0..Len(tree) => Only(s, Of(tree', K)) = Only(s, Of(tree, K))
  BY <1>1, <1>2, <1>4, <1>5, OnlyGrown
<1>14. QED
  BY <1>2, <1>6, <1>7, <1>8, <1>9, <1>10, <1>11, <1>12, <1>13, <1>x

-----------------------------------------------------------------------------
(* Shape is kept.                                                          *)

\* The tree part of the shape, after one more entry at the leaf.
LEMMA PutsShape ==
    ASSUME Shape, NEW kind \in EntryKinds \ {"compaction"}, NEW ref \in 0..Len(tree), Put(kind, ref),
           kind = "result" => ref \in CallEntries
    PROVE  /\ tree' \in Seq([kind : EntryKinds, parent : 0..MaxEntries, ref : 0..MaxEntries])
           /\ \A e \in DOMAIN tree' : tree'[e].parent < e /\ tree'[e].ref < e
           /\ leaf' \in 0..Len(tree') /\ Len(tree') <= MaxEntries
           /\ 0..Len(tree) \subseteq 0..Len(tree') /\ DOMAIN tree \subseteq DOMAIN tree'
           /\ \A e \in Of(tree', {"result"}) : tree'[e].ref \in CallEntries'
           /\ CallEntries \subseteq CallEntries' /\ (kind = "call" => CallEntries' # {})
<1> DEFINE new == Len(tree) + 1
<1>1. Len(tree) \in Nat /\ DOMAIN tree = 1..Len(tree) /\ MaxEntries \in Nat /\ Len(tree) < MaxEntries
  BY ShapeFacts DEF Put
<1>2. /\ leaf' = new /\ Len(tree') = new /\ Well(tree') /\ DOMAIN tree' = 1..new
      /\ tree' \in Seq([kind : EntryKinds, parent : 0..MaxEntries, ref : 0..MaxEntries])
      /\ tree'[new] = [kind |-> kind, parent |-> leaf, ref |-> ref]
      /\ \A e \in 1..Len(tree) : tree'[e] = tree[e]
      /\ \A K : Of(tree', K) = Of(tree, K) \union (IF kind \in K THEN {new} ELSE {})
  BY Puts
<1>3. \A e \in DOMAIN tree' : tree'[e].parent < e /\ tree'[e].ref < e
  BY <1>2 DEF Well
<1>4. leaf' \in 0..Len(tree') /\ Len(tree') <= MaxEntries
  BY <1>1, <1>2
<1>5. 0..Len(tree) \subseteq 0..Len(tree') /\ DOMAIN tree \subseteq DOMAIN tree'
  BY <1>1, <1>2
<1>6. CallEntries \subseteq CallEntries' /\ (kind = "call" => CallEntries' # {})
  <2>1. CallEntries' = Of(tree', {"call"}) /\ CallEntries = Of(tree, {"call"})
    BY DEF CallEntries
  <2>2. Of(tree', {"call"}) = Of(tree, {"call"}) \union (IF kind \in {"call"} THEN {new} ELSE {})
    BY <1>2
  <2>3. QED
    BY <2>1, <2>2
<1>7. ASSUME NEW e \in Of(tree', {"result"}) PROVE tree'[e].ref \in CallEntries'
  <2>1. Of(tree', {"result"}) = Of(tree, {"result"}) \union (IF kind \in {"result"} THEN {new} ELSE {})
    BY <1>2
  <2>2. CASE e \in Of(tree, {"result"})
    <3>1. e \in 1..Len(tree) /\ tree[e].ref \in CallEntries
      BY <1>1, <2>2 DEF Of, Shape
    <3>2. QED
      BY <1>2, <1>6, <3>1
  <2>3. CASE e \notin Of(tree, {"result"})
    <3>1. e = new /\ kind = "result"
      BY <1>7, <2>1, <2>3
    <3>2. QED
      BY <1>2, <1>6, <3>1
  <2>4. QED
    BY <2>2, <2>3
<1>8. QED
  BY <1>2, <1>3, <1>4, <1>5, <1>6, <1>7

\* A step that puts an entry, keeps its shape.
LEMMA PutsKeepShape ==
    ASSUME Shape, NEW kind \in EntryKinds \ {"compaction"}, NEW ref \in 0..Len(tree), Put(kind, ref),
           kind = "result" => ref \in CallEntries,
           live' \in Seq(0..Len(tree')), setting' \in 0..Len(tree'),
           phase' \in Phases, phase' \in {"idle", "tool", "failed"} => ~Busy("turn"),
           phase' = "tool" => (phase = "tool" \/ kind = "call"),
           notice' \in BOOLEAN, other' \in 0..MaxOther, raced' \in BOOLEAN,
           UNCHANGED <<txn, gone, lost, skewed>>
    PROVE  Shape'
<1>1. /\ tree' \in Seq([kind : EntryKinds, parent : 0..MaxEntries, ref : 0..MaxEntries])
      /\ \A e \in DOMAIN tree' : tree'[e].parent < e /\ tree'[e].ref < e
      /\ leaf' \in 0..Len(tree') /\ Len(tree') <= MaxEntries
      /\ 0..Len(tree) \subseteq 0..Len(tree') /\ DOMAIN tree \subseteq DOMAIN tree'
      /\ \A e \in Of(tree', {"result"}) : tree'[e].ref \in CallEntries'
      /\ CallEntries \subseteq CallEntries' /\ (kind = "call" => CallEntries' # {})
  BY PutsShape
<1>2. ContextTypeOK'
  <2>1. /\ txn \in [Threads -> {NoTxn} \union [variant : Variants, source : Seq(Ids)]]
        /\ gone \subseteq Ids /\ lost \subseteq Ids /\ skewed \in BOOLEAN
    BY DEF Shape, ContextTypeOK
  <2>2. QED
    BY <1>1, <2>1 DEF ContextTypeOK, Busy
<1>3. /\ \A t \in Threads : Range(txn'[t].source) \subseteq DOMAIN tree'
      /\ gone' \subseteq DOMAIN tree'
  BY <1>1 DEF Shape
<1>4. phase' = "tool" => CallEntries' # {}
  BY <1>1 DEF Shape
<1>5. Busy("user")' => txn'["user"].variant \in {"manual", "deep"}
  BY DEF Shape, Busy
<1>6. QED
  BY <1>1, <1>2, <1>3, <1>4, <1>5 DEF Shape

\* A step that leaves the tree as it is.
LEMMA SameTreeKeepsShape ==
    ASSUME Shape, UNCHANGED tree,
           leaf' \in 0..Len(tree), live' \in Seq(0..Len(tree)), setting' \in 0..Len(tree),
           phase' \in Phases, phase' \in {"idle", "tool", "failed"} => ~Busy("turn")',
           phase' = "tool" => phase = "tool",
           txn' \in [Threads -> {NoTxn} \union [variant : Variants, source : Seq(Ids)]],
           \A t \in Threads : Range(txn'[t].source) \subseteq DOMAIN tree,
           Busy("user")' => txn'["user"].variant \in {"manual", "deep"},
           notice' \in BOOLEAN, other' \in 0..MaxOther, raced' \in BOOLEAN,
           gone' \subseteq gone, UNCHANGED <<lost, skewed>>
    PROVE  Shape'
<1>1. ContextTypeOK'
  BY DEF Shape, ContextTypeOK
<1>2. CallEntries' = CallEntries /\ Of(tree', {"result"}) = Of(tree, {"result"})
  BY DEF CallEntries
<1>3. /\ gone' \subseteq DOMAIN tree' /\ Len(tree') <= MaxEntries
      /\ \A t \in Threads : Range(txn'[t].source) \subseteq DOMAIN tree'
  BY DEF Shape
<1>4. \A e \in Of(tree', {"result"}) : tree'[e].ref \in CallEntries'
  BY <1>2 DEF Shape
<1>5. phase' = "tool" => CallEntries' # {}
  BY <1>2 DEF Shape
<1>6. QED
  BY <1>1, <1>3, <1>4, <1>5 DEF Shape

\* The last call of the tree.
LEMMA CallFacts ==
    ASSUME Shape, CallEntries # {}
    PROVE  Max(CallEntries) \in CallEntries /\ Max(CallEntries) \in 0..Len(tree) /\ \A e \in CallEntries : e <= Max(CallEntries)
<1>1. Len(tree) \in Nat /\ DOMAIN tree = 1..Len(tree)
  BY ShapeFacts
<1>2. CallEntries \subseteq 0..Len(tree)
  BY <1>1 DEF CallEntries, Of
<1>3. QED
  BY <1>1, <1>2, Greatest

\* A message of the turn keeps the shape.
LEMMA TurnShape ==
    ASSUME Shape, NEW from, NEW kind \in EntryKinds \ {"compaction"}, NEW ref \in 0..Len(tree), NEW to \in Phases,
           kind = "result" => ref \in CallEntries, to = "tool" => kind = "call", Turn(from, kind, ref, to)
    PROVE  Shape'
<1>1. Put(kind, ref) /\ live' = Append(live, Len(tree) + 1) /\ raced' = (raced \/ Compacting \/ notice)
  BY DEF Turn, PutMessage
<1>2. phase' = to /\ ~Busy("turn") /\ UNCHANGED <<setting, txn, notice, other, gone, lost, skewed>>
  BY DEF Turn
<1>3. Len(tree') = Len(tree) + 1 /\ Len(tree) \in Nat
  BY <1>1, Puts, ShapeFacts
<1>4. live \in Seq(0..Len(tree)) /\ setting \in 0..Len(tree) /\ notice \in BOOLEAN /\ other \in 0..MaxOther /\ raced \in BOOLEAN
  BY DEF Shape, ContextTypeOK
<1>5. live \in Seq(0..Len(tree')) /\ Len(tree) + 1 \in 0..Len(tree')
  <2>1. 0..Len(tree) \subseteq 0..Len(tree')
    BY <1>3
  <2>2. QED
    BY <1>3, <1>4, <2>1, SeqWider
<1>6. live' \in Seq(0..Len(tree'))
  BY <1>1, <1>5
<1>7. setting' \in 0..Len(tree') /\ notice' \in BOOLEAN /\ other' \in 0..MaxOther /\ raced' \in BOOLEAN
  BY <1>1, <1>2, <1>3, <1>4
<1>8. QED
  BY <1>1, <1>2, <1>6, <1>7, PutsKeepShape

\* A step that leaves the conversation as it is.
LEMMA QuietShape ==
    ASSUME Shape, phase' \in Phases, phase' \in {"idle", "tool", "failed"} => ~Busy("turn"), phase' = "tool" => phase = "tool",
           UNCHANGED <<tree, leaf, live, setting, txn, notice, other, gone, lost, skewed, raced>>
    PROVE  Shape'
<1>1. /\ leaf \in 0..Len(tree) /\ live \in Seq(0..Len(tree)) /\ setting \in 0..Len(tree)
      /\ notice \in BOOLEAN /\ other \in 0..MaxOther /\ raced \in BOOLEAN
      /\ txn \in [Threads -> {NoTxn} \union [variant : Variants, source : Seq(Ids)]]
  BY DEF Shape, ContextTypeOK
<1>2. Busy("turn")' = Busy("turn") /\ Busy("user")' = Busy("user")
  BY DEF Busy
<1>3. /\ Busy("user")' => txn'["user"].variant \in {"manual", "deep"}
      /\ \A t \in Threads : Range(txn'[t].source) \subseteq DOMAIN tree
  BY <1>2 DEF Shape
<1>4. QED
  BY <1>1, <1>2, <1>3, SameTreeKeepsShape

\* A stored setting keeps the shape.
LEMMA SetsShape ==
    ASSUME Shape, Sets
    PROVE  Shape'
<1>1. Put("setting", 0) /\ setting' = Len(tree) + 1 /\ other < MaxOther /\ other' = other + 1
      /\ UNCHANGED <<live, phase, txn, notice, gone, lost, skewed, raced>>
  BY DEF Sets
<1>0. Len(tree) \in Nat /\ 0 \in 0..Len(tree) /\ "setting" \in EntryKinds \ {"compaction"} /\ MaxOther \in Nat
  BY ShapeFacts, ContextAssumption DEF EntryKinds
<1>2. Len(tree') = Len(tree) + 1
  BY <1>0, <1>1, Puts
<1>3. live \in Seq(0..Len(tree)) /\ notice \in BOOLEAN /\ other \in 0..MaxOther /\ raced \in BOOLEAN /\ phase \in Phases
      /\ (phase \in {"idle", "tool", "failed"} => ~Busy("turn"))
  BY DEF Shape, ContextTypeOK
<1>4. live' \in Seq(0..Len(tree'))
  <2>1. 0..Len(tree) \subseteq 0..Len(tree')
    BY <1>0, <1>2
  <2>2. live \in Seq(0..Len(tree'))
    BY <1>3, <2>1, SeqWider
  <2>3. QED
    BY <1>1, <2>2
<1>5. setting' \in 0..Len(tree') /\ notice' \in BOOLEAN /\ other' \in 0..MaxOther /\ raced' \in BOOLEAN
  BY <1>0, <1>1, <1>2, <1>3
<1>6. phase' \in Phases /\ (phase' \in {"idle", "tool", "failed"} => ~Busy("turn")) /\ (phase' = "tool" => phase = "tool")
  BY <1>1, <1>3
<1>7. QED
  BY <1>0, <1>1, <1>4, <1>5, <1>6, PutsKeepShape

\* A recorded bash result keeps the shape.
LEMMA RecordsBashShape ==
    ASSUME Shape, RecordsBash
    PROVE  Shape'
<1>1. Put("hidden", 0) /\ live' = Append(live, Len(tree) + 1) /\ raced' = (raced \/ Compacting \/ notice)
      /\ other < MaxOther /\ other' = other + 1 /\ UNCHANGED <<setting, phase, txn, notice, gone, lost, skewed>>
  BY DEF RecordsBash, PutMessage
<1>0. Len(tree) \in Nat /\ 0 \in 0..Len(tree) /\ "hidden" \in EntryKinds \ {"compaction"} /\ MaxOther \in Nat
  BY ShapeFacts, ContextAssumption DEF EntryKinds
<1>2. Len(tree') = Len(tree) + 1
  BY <1>0, <1>1, Puts
<1>3. live \in Seq(0..Len(tree)) /\ notice \in BOOLEAN /\ other \in 0..MaxOther /\ raced \in BOOLEAN /\ phase \in Phases
      /\ (phase \in {"idle", "tool", "failed"} => ~Busy("turn")) /\ setting \in 0..Len(tree)
  BY DEF Shape, ContextTypeOK
<1>4. live' \in Seq(0..Len(tree'))
  <2>1. 0..Len(tree) \subseteq 0..Len(tree')
    BY <1>0, <1>2
  <2>2. live \in Seq(0..Len(tree')) /\ Len(tree) + 1 \in 0..Len(tree')
    BY <1>0, <1>2, <1>3, <2>1, SeqWider
  <2>3. QED
    BY <1>1, <2>2
<1>5. setting' \in 0..Len(tree') /\ notice' \in BOOLEAN /\ other' \in 0..MaxOther /\ raced' \in BOOLEAN
  BY <1>0, <1>1, <1>2, <1>3
<1>6. phase' \in Phases /\ (phase' \in {"idle", "tool", "failed"} => ~Busy("turn")) /\ (phase' = "tool" => phase = "tool")
  BY <1>1, <1>3
<1>7. QED
  BY <1>0, <1>1, <1>4, <1>5, <1>6, PutsKeepShape

\* Storing a notice keeps the shape.
LEMMA NoticeStoredShape ==
    ASSUME Shape, NoticeStored
    PROVE  Shape'
<1> DEFINE new == Len(tree) + 1
<1>1. Put("notice", 0) /\ notice' = FALSE
      /\ live' = [i \in DOMAIN live |-> IF live[i] = 0 THEN new ELSE live[i]]
      /\ raced' = (raced \/ Compacting \/ 0 \notin Range(live))
      /\ UNCHANGED <<setting, phase, txn, other, gone, lost, skewed>>
  BY DEF NoticeStored
<1>0. Len(tree) \in Nat /\ 0 \in 0..Len(tree) /\ "notice" \in EntryKinds \ {"compaction"}
  BY ShapeFacts DEF EntryKinds
<1>2. Len(tree') = new
  BY <1>0, <1>1, Puts
<1>3. live \in Seq(0..Len(tree)) /\ other \in 0..MaxOther /\ raced \in BOOLEAN /\ phase \in Phases
      /\ (phase \in {"idle", "tool", "failed"} => ~Busy("turn")) /\ setting \in 0..Len(tree)
  BY DEF Shape, ContextTypeOK
<1>4. live' \in Seq(0..Len(tree'))
  <2>1. DOMAIN live = 1..Len(live) /\ Len(live) \in Nat /\ \A i \in 1..Len(live) : live[i] \in 0..Len(tree)
    BY <1>3
  <2>2. \A i \in 1..Len(live) : (IF live[i] = 0 THEN new ELSE live[i]) \in 0..new
    BY <1>0, <2>1
  <2>3. [i \in 1..Len(live) |-> IF live[i] = 0 THEN new ELSE live[i]] \in Seq(0..new)
    BY <2>1, <2>2
  <2>4. QED
    BY <1>1, <1>2, <2>1, <2>3
<1>5. setting' \in 0..Len(tree') /\ notice' \in BOOLEAN /\ other' \in 0..MaxOther /\ raced' \in BOOLEAN
  <2>1. setting' \in 0..Len(tree') /\ other' \in 0..MaxOther
    BY <1>0, <1>1, <1>2, <1>3
  <2>2. raced' \in BOOLEAN /\ notice' \in BOOLEAN
    BY <1>1
  <2>3. QED
    BY <2>1, <2>2
<1>6. phase' \in Phases /\ (phase' \in {"idle", "tool", "failed"} => ~Busy("turn")) /\ (phase' = "tool" => phase = "tool")
  BY <1>1, <1>3
<1>7. QED
  BY <1>0, <1>1, <1>4, <1>5, <1>6, PutsKeepShape

\* A step of live, notice and other.
LEMMA LiveShape ==
    ASSUME Shape, live' \in Seq(0..Len(tree)), phase' \in Phases,
           phase' \in {"idle", "tool", "failed"} => ~Busy("turn"), phase' = "tool" => phase = "tool",
           notice' \in BOOLEAN, other' \in 0..MaxOther, raced' \in BOOLEAN,
           UNCHANGED <<tree, leaf, setting, txn, gone, lost, skewed>>
    PROVE  Shape'
<1>1. /\ leaf \in 0..Len(tree) /\ setting \in 0..Len(tree)
      /\ txn \in [Threads -> {NoTxn} \union [variant : Variants, source : Seq(Ids)]]
  BY DEF Shape, ContextTypeOK
<1>2. Busy("turn")' = Busy("turn") /\ Busy("user")' = Busy("user")
  BY DEF Busy
<1>3. /\ Busy("user")' => txn'["user"].variant \in {"manual", "deep"}
      /\ \A t \in Threads : Range(txn'[t].source) \subseteq DOMAIN tree
  BY <1>2 DEF Shape
<1>4. QED
  BY <1>1, <1>2, <1>3, SameTreeKeepsShape

\* A retry keeps the shape.
LEMMA RetriesShape ==
    ASSUME Shape, Retries
    PROVE  Shape'
<1>1. /\ phase = "failed" /\ (live' = live \/ (live # <<>> /\ live' = Front(live))) /\ phase' \in {"run", "post", "idle"}
      /\ UNCHANGED <<tree, leaf, setting, txn, notice, other, gone, lost, skewed, raced>>
  BY DEF Retries
<1>2. live \in Seq(0..Len(tree)) /\ notice \in BOOLEAN /\ other \in 0..MaxOther /\ raced \in BOOLEAN
  BY DEF Shape, ContextTypeOK
<1>3. live' \in Seq(0..Len(tree))
  <2>1. ASSUME live # <<>> PROVE Front(live) \in Seq(0..Len(tree))
    <3>1. PICK u \in Seq(0..Len(tree)), x \in 0..Len(tree) : live = Append(u, x) /\ Len(u) = Len(live) - 1
      BY <1>2, <2>1, LastSplit
    <3>2. Front(live) = u
      BY <3>1 DEF Front
    <3>3. QED
      BY <3>2
  <2>2. QED
    BY <1>1, <1>2, <2>1
<1>4. phase' \in Phases /\ phase' # "tool" /\ ~Busy("turn")
  BY <1>1 DEF Phases, Shape, ContextTypeOK
<1>5. QED
  BY <1>1, <1>2, <1>3, <1>4, LiveShape

\* A notice that comes keeps the shape.
LEMMA NoticeComesShape ==
    ASSUME Shape, NoticeComes
    PROVE  Shape'
<1>1. /\ other < MaxOther /\ live' = Append(live, 0) /\ notice' = TRUE /\ other' = other + 1
      /\ UNCHANGED <<tree, leaf, setting, phase, txn, gone, lost, skewed, raced>>
  BY DEF NoticeComes
<1>2. live \in Seq(0..Len(tree)) /\ other \in 0..MaxOther /\ raced \in BOOLEAN /\ phase \in Phases
      /\ (phase \in {"idle", "tool", "failed"} => ~Busy("turn"))
  BY DEF Shape, ContextTypeOK
<1>3. 0 \in 0..Len(tree) /\ MaxOther \in Nat
  BY ShapeFacts, ContextAssumption
<1>4. live' \in Seq(0..Len(tree)) /\ other' \in 0..MaxOther /\ notice' \in BOOLEAN /\ raced' \in BOOLEAN
  BY <1>1, <1>2, <1>3
<1>5. QED
  BY <1>1, <1>2, <1>4, LiveShape

\* A context is made of entries of its tree.
LEMMA ContextRange ==
    ASSUME NEW t, Well(t), NEW l \in 0..Len(t)
    PROVE  /\ ContextOf(t, l) \in Seq(Nat) /\ Range(ContextOf(t, l)) \subseteq 1..Len(t)
           /\ ContextOf(t, l) \in Seq(1..Len(t)) /\ ContextOf(t, l) \in Seq(0..Len(t))
<1> DEFINE s == ContextOf(t, l)
<1>1. s \in Seq(Nat) /\ Range(s) \subseteq 1..Len(t)
  BY ContextFacts
<1>2. Len(s) \in Nat /\ s = [i \in 1..Len(s) |-> s[i]] /\ \A i \in 1..Len(s) : s[i] \in Range(s)
  BY <1>1, Places
<1> HIDE DEF s
<1>3. \A i \in 1..Len(s) : s[i] \in 1..Len(t) /\ s[i] \in 0..Len(t)
  BY <1>1, <1>2, EntryFacts
<1>4. [i \in 1..Len(s) |-> s[i]] \in Seq(1..Len(t)) /\ [i \in 1..Len(s) |-> s[i]] \in Seq(0..Len(t))
  BY <1>2, <1>3
<1>5. QED
  BY <1>1, <1>2, <1>4 DEF s

\* Rebuilding live from a branch keeps the shape.
LEMMA RebuildShape ==
    ASSUME Shape, NEW l \in 0..Len(tree), Rebuild(l)
    PROVE  Shape'
<1>1. /\ phase = "idle" /\ other < MaxOther /\ other' = other + 1 /\ leaf' = l
      /\ live' = ContextOf(tree, l) /\ setting' = SettingOf(tree, l)
      /\ gone' = (IF l = leaf THEN gone ELSE {}) /\ raced' = FALSE
      /\ UNCHANGED <<tree, phase, txn, notice, lost, skewed>>
  BY DEF Rebuild
<1>2. other \in 0..MaxOther /\ notice \in BOOLEAN /\ phase \in Phases
      /\ (phase \in {"idle", "tool", "failed"} => ~Busy("turn"))
      /\ txn \in [Threads -> {NoTxn} \union [variant : Variants, source : Seq(Ids)]]
  BY DEF Shape, ContextTypeOK
<1>3. Well(tree) /\ Len(tree) \in Nat /\ MaxOther \in Nat
  BY ShapeFacts, ContextAssumption
<1>4. live' \in Seq(0..Len(tree))
  BY <1>1, <1>3, ContextRange
<1>5. setting' \in 0..Len(tree)
  <2> DEFINE S == {0} \union (Range(BranchIn(tree, l)) \intersect Of(tree, {"setting"}))
  <2>1. Range(BranchIn(tree, l)) \subseteq 1..Len(tree)
    BY <1>3, BranchFits DEF Fits
  <2>2. S \subseteq 0..Len(tree) /\ S # {}
    BY <1>3, <2>1
  <2>3. SettingOf(tree, l) = Max(S)
    BY DEF SettingOf
  <2> HIDE DEF S
  <2>4. Max(S) \in S
    BY <1>3, <2>2, Greatest
  <2>5. QED
    BY <1>1, <2>2, <2>3, <2>4
<1>6. other' \in 0..MaxOther /\ notice' \in BOOLEAN /\ raced' \in BOOLEAN /\ gone' \subseteq gone
  <2>1. other' \in 0..MaxOther
    BY <1>1, <1>2, <1>3
  <2>2. notice' \in BOOLEAN /\ raced' \in BOOLEAN
    BY <1>1, <1>2
  <2>3. gone' \subseteq gone
    BY <1>1
  <2>4. QED
    BY <2>1, <2>2, <2>3
<1>7. Busy("turn")' = Busy("turn") /\ Busy("user")' = Busy("user")
  BY <1>1 DEF Busy
<1>8. /\ Busy("user")' => txn'["user"].variant \in {"manual", "deep"}
      /\ \A t \in Threads : Range(txn'[t].source) \subseteq DOMAIN tree
  BY <1>1, <1>7 DEF Shape
<1>9. QED
  BY <1>1, <1>2, <1>4, <1>5, <1>6, <1>7, <1>8, SameTreeKeepsShape

\* Two sequences with the same elements at the same places.
LEMMA SameSeq ==
    ASSUME NEW s \in Seq(Nat), NEW u \in Seq(Nat), Len(s) = Len(u), \A i \in 1..Len(s) : s[i] = u[i]
    PROVE  s = u
  OBVIOUS

\* The places of two sequences put together.
LEMMA ConcatPlaces ==
    ASSUME NEW s \in Seq(Nat), NEW u \in Seq(Nat)
    PROVE  /\ s \o u \in Seq(Nat) /\ Len(s \o u) = Len(s) + Len(u)
           /\ \A i \in 1..Len(s) : (s \o u)[i] = s[i]
           /\ \A i \in 1..Len(u) : (s \o u)[Len(s) + i] = u[i]
  OBVIOUS

\* A sequence without one of its elements.
LEMMA RemoveFacts ==
    ASSUME NEW s \in Seq(Nat), NEW i \in 1..Len(s)
    PROVE  /\ RemoveAt(s, i) \in Seq(Nat) /\ Range(RemoveAt(s, i)) \subseteq Range(s)
           /\ \A S : s[i] \notin S => Only(RemoveAt(s, i), S) = Only(s, S)
<1> DEFINE a == SubSeq(s, 1, i - 1)
           c == SubSeq(s, i + 1, Len(s))
<1>1. Len(s) \in Nat /\ i \in Nat /\ s[i] \in Nat /\ s[i] \in Range(s)
  BY Places
<1>2. RemoveAt(s, i) = a \o c
  BY DEF RemoveAt
<1>3. a \in Seq(Nat) /\ Range(a) = {s[j] : j \in 1..(i - 1)} /\ Len(a) = i - 1 /\ \A j \in 1..(i - 1) : a[j] = s[j]
  <2>1. PICK k \in Nat : k = i - 1
    BY <1>1
  <2>2. 1 \in Nat /\ 1 <= k + 1 /\ k <= Len(s) /\ 1 <= 1
    BY <1>1, <2>1
  <2> HIDE DEF a, c
  <2>3. /\ SubSeq(s, 1, k) \in Seq(Nat) /\ Len(SubSeq(s, 1, k)) = (k - 1) + 1
        /\ \A j \in 1..((k - 1) + 1) : SubSeq(s, 1, k)[j] = s[(1 + j) - 1]
        /\ Range(SubSeq(s, 1, k)) = {s[j] : j \in 1..k}
    BY <2>2, PartFacts
  <2>4. (k - 1) + 1 = k /\ \A j \in 1..k : (1 + j) - 1 = j
    OBVIOUS
  <2>5. QED
    BY <2>1, <2>3, <2>4 DEF a
<1>4. c \in Seq(Nat) /\ Range(c) = {s[j] : j \in (i + 1)..Len(s)} /\ Len(c) = Len(s) - i /\ \A j \in 1..(Len(s) - i) : c[j] = s[i + j]
  <2>1. i + 1 \in Nat /\ 1 <= i + 1 /\ i + 1 <= Len(s) + 1 /\ Len(s) <= Len(s)
    BY <1>1
  <2> HIDE DEF a
  <2>2. /\ c \in Seq(Nat) /\ Len(c) = (Len(s) - (i + 1)) + 1
        /\ \A j \in 1..((Len(s) - (i + 1)) + 1) : c[j] = s[((i + 1) + j) - 1]
        /\ Range(c) = {s[j] : j \in (i + 1)..Len(s)}
    BY <1>1, <2>1, PartFacts
  <2>3. (Len(s) - (i + 1)) + 1 = Len(s) - i /\ \A j \in 1..(Len(s) - i) : ((i + 1) + j) - 1 = i + j
    BY <1>1
  <2>4. QED
    BY <2>2, <2>3
<1> HIDE DEF a, c
<1>5. a \o c \in Seq(Nat) /\ Range(a \o c) = Range(a) \union Range(c)
  BY <1>3, <1>4, RangeConcat
<1>6. Range(a) \subseteq Range(s) /\ Range(c) \subseteq Range(s)
  <2>1. \A j \in 1..(i - 1) : j \in 1..Len(s)
    BY <1>1
  <2>2. \A j \in (i + 1)..Len(s) : j \in 1..Len(s)
    BY <1>1
  <2>3. \A j \in 1..Len(s) : s[j] \in Range(s)
    BY Places
  <2>4. QED
    BY <1>3, <1>4, <2>1, <2>2, <2>3
<1>7. s = Append(a, s[i]) \o c
  <2> DEFINE d == Append(a, s[i])
             e == d \o c
  <2>1. d \in Seq(Nat) /\ Len(d) = i /\ d[i] = s[i] /\ \A j \in 1..(i - 1) : d[j] = s[j]
    BY <1>1, <1>3
  <2> HIDE DEF d
  <2>2. e \in Seq(Nat) /\ Len(e) = Len(s) /\ (\A j \in 1..i : e[j] = d[j]) /\ \A j \in 1..(Len(s) - i) : e[i + j] = c[j]
    <3>1. /\ e \in Seq(Nat) /\ Len(e) = Len(d) + Len(c)
          /\ \A j \in 1..Len(d) : e[j] = d[j]
          /\ \A j \in 1..Len(c) : e[Len(d) + j] = c[j]
      BY <1>4, <2>1, ConcatPlaces
    <3>2. Len(d) = i /\ Len(c) = Len(s) - i /\ i + (Len(s) - i) = Len(s)
      BY <1>1, <1>4, <2>1
    <3>3. QED
      BY <3>1, <3>2
  <2> HIDE DEF e
  <2>3. ASSUME NEW j \in 1..Len(s) PROVE e[j] = s[j]
    <3>1. CASE j \in 1..(i - 1)
      <4>1. j \in 1..i
        BY <1>1, <3>1
      <4>2. QED
        BY <2>1, <2>2, <3>1, <4>1
    <3>2. CASE j = i
      <4>1. j \in 1..i
        BY <1>1, <3>2
      <4>2. QED
        BY <2>1, <2>2, <3>2, <4>1
    <3>3. CASE j \notin 1..(i - 1) /\ j # i
      <4>1. j - i \in 1..(Len(s) - i) /\ i + (j - i) = j
        BY <1>1, <2>3, <3>3
      <4>2. e[i + (j - i)] = c[j - i] /\ c[j - i] = s[i + (j - i)]
        BY <1>4, <2>2, <4>1
      <4>3. QED
        BY <4>1, <4>2
    <3>4. QED
      BY <3>1, <3>2, <3>3
  <2>4. s = e
    BY <2>2, <2>3, SameSeq
  <2>5. QED
    BY <2>4 DEF e, d
<1>8. ASSUME NEW S, s[i] \notin S PROVE Only(a \o c, S) = Only(s, S)
  <2>1. Append(a, s[i]) \in Seq(Nat)
    BY <1>1, <1>3
  <2>2. Only(Append(a, s[i]) \o c, S) = Only(Append(a, s[i]), S) \o Only(c, S)
    BY <1>4, <2>1, OnlyConcat
  <2>3. Only(Append(a, s[i]), S) = Only(a, S)
    BY <1>1, <1>3, <1>8, OnlyAppend
  <2>4. Only(a \o c, S) = Only(a, S) \o Only(c, S)
    BY <1>3, <1>4, OnlyConcat
  <2>5. QED
    BY <1>7, <2>2, <2>3, <2>4
<1>9. QED
  BY <1>2, <1>5, <1>6, <1>8

\* The last message of an assistant in live.
LEMMA LastAssistantFacts ==
    ASSUME Shape, LastFailed
    PROVE  LastAssistant \in 1..Len(live) /\ live[LastAssistant] \in Failed
<1> DEFINE S == {0} \union {i \in DOMAIN live : live[i] \in Of(tree, {"reply", "call", "failed"})}
<1>1. live \in Seq(Nat) /\ Len(live) \in Nat /\ DOMAIN live = 1..Len(live)
  BY ShapeFacts
<1>2. S \subseteq 0..Len(live) /\ S # {}
  BY <1>1
<1>3. Max(S) \in S
  BY <1>1, <1>2, Greatest
<1>4. LastAssistant = Max(S)
  BY DEF LastAssistant
<1>5. LastAssistant > 0 /\ tree[live[LastAssistant]].kind = "failed"
  BY DEF LastFailed, Kind
<1>6. LastAssistant \in 1..Len(live) /\ live[LastAssistant] \in Of(tree, {"reply", "call", "failed"})
  <2>1. LastAssistant \in S /\ LastAssistant # 0
    BY <1>3, <1>4, <1>5
  <2>2. QED
    BY <1>1, <2>1
<1>7. QED
  BY <1>5, <1>6 DEF Failed, Of

\* The copy a compaction takes keeps the shape.
LEMMA CopiesShape ==
    ASSUME Shape, NEW t \in Threads, NEW variant \in Variants, NEW source \in Seq(Nat), Range(source) \subseteq 0..Len(tree),
           t = "user" => variant \in {"manual", "deep"}, t = "turn" => phase \notin {"idle", "tool", "failed"},
           Copies(t, variant, source)
    PROVE  Shape'
<1>1. /\ 0 \notin Range(source) /\ txn' = [txn EXCEPT ![t] = [variant |-> variant, source |-> source]]
      /\ UNCHANGED <<tree, leaf, live, setting, phase, notice, other, gone, lost, skewed, raced>>
  BY DEF Copies
<1>2. /\ leaf \in 0..Len(tree) /\ live \in Seq(0..Len(tree)) /\ setting \in 0..Len(tree) /\ phase \in Phases
      /\ notice \in BOOLEAN /\ other \in 0..MaxOther /\ raced \in BOOLEAN
      /\ txn \in [Threads -> {NoTxn} \union [variant : Variants, source : Seq(Ids)]]
      /\ (phase \in {"idle", "tool", "failed"} => ~Busy("turn"))
  BY DEF Shape, ContextTypeOK
<1>3. Len(tree) \in Nat /\ MaxEntries \in Nat /\ Len(tree) <= MaxEntries /\ DOMAIN tree = 1..Len(tree)
  BY ShapeFacts
<1>4. Range(source) \subseteq 1..Len(tree)
  BY <1>1, <1>3
<1>5. source \in Seq(Ids)
  <2>1. Len(source) \in Nat /\ source = [i \in 1..Len(source) |-> source[i]] /\ \A i \in 1..Len(source) : source[i] \in Range(source)
    BY Places
  <2>2. \A i \in 1..Len(source) : source[i] \in Ids
    BY <1>3, <1>4, <2>1 DEF Ids
  <2>3. [i \in 1..Len(source) |-> source[i]] \in Seq(Ids)
    BY <2>1, <2>2
  <2>4. QED
    BY <2>1, <2>3
<1>6. txn' \in [Threads -> {NoTxn} \union [variant : Variants, source : Seq(Ids)]]
  BY <1>1, <1>2, <1>5
<1>7. \A u \in Threads : txn'[u] = IF u = t THEN [variant |-> variant, source |-> source] ELSE txn[u]
  BY <1>1, <1>2
<1>8. \A u \in Threads : Range(txn'[u].source) \subseteq DOMAIN tree
  <2>1. SUFFICES ASSUME NEW u \in Threads PROVE Range(txn'[u].source) \subseteq DOMAIN tree
    OBVIOUS
  <2>2. CASE u = t
    BY <1>3, <1>4, <1>7, <2>2
  <2>3. CASE u # t
    BY <1>7, <2>3 DEF Shape
  <2>4. QED
    BY <2>2, <2>3
<1>9. Busy("user")' => txn'["user"].variant \in {"manual", "deep"}
  <2>1. "user" \in Threads
    BY DEF Threads
  <2>2. CASE t = "user"
    BY <1>7, <2>1, <2>2
  <2>3. CASE t # "user"
    BY <1>7, <2>1, <2>3 DEF Shape, Busy
  <2>4. QED
    BY <2>2, <2>3
<1>10. phase' \in {"idle", "tool", "failed"} => ~Busy("turn")'
  <2>1. "turn" \in Threads
    BY DEF Threads
  <2>2. CASE t = "turn"
    BY <1>1, <2>2
  <2>3. CASE t # "turn"
    BY <1>1, <1>2, <1>7, <2>1, <2>3 DEF Busy
  <2>4. QED
    BY <2>2, <2>3
<1>11. QED
  BY <1>1, <1>2, <1>6, <1>8, <1>9, <1>10, SameTreeKeepsShape

\* A transaction closes, and the turn goes on.
LEMMA ClosesFacts ==
    ASSUME Shape, NEW t \in Threads, NEW applied \in BOOLEAN, Busy(t), txn' = Closes(t), phase' = PhaseAfter(t, applied)
    PROVE  /\ txn' \in [Threads -> {NoTxn} \union [variant : Variants, source : Seq(Ids)]]
           /\ \A u \in Threads : txn'[u] = IF u = t THEN NoTxn ELSE txn[u]
           /\ \A u \in Threads : Busy(u)' => u # t /\ Busy(u)
           /\ phase' \in Phases /\ (phase' \in {"idle", "tool", "failed"} => ~Busy("turn")')
           /\ phase' = "tool" => phase = "tool" /\ t = "user"
           /\ phase' = "failed" => phase = "failed" /\ t = "user"
<1>1. /\ txn \in [Threads -> {NoTxn} \union [variant : Variants, source : Seq(Ids)]]
      /\ (phase \in {"idle", "tool", "failed"} => ~Busy("turn")) /\ phase \in Phases
  BY DEF Shape, ContextTypeOK
<1>2. txn' \in [Threads -> {NoTxn} \union [variant : Variants, source : Seq(Ids)]]
  BY <1>1 DEF Closes
<1>3. \A u \in Threads : txn'[u] = IF u = t THEN NoTxn ELSE txn[u]
  BY <1>1 DEF Closes
<1>4. \A u \in Threads : Busy(u)' => u # t /\ Busy(u)
  BY <1>3 DEF Busy, NoTxn
<1>5. "turn" \in Threads /\ (t = "turn" \/ t = "user")
  BY DEF Threads
<1>6. CASE t = "user"
  <2>1. phase' = phase
    BY <1>6 DEF PhaseAfter
  <2>2. Busy("turn")' => Busy("turn")
    BY <1>4, <1>5
  <2>3. QED
    BY <1>1, <1>2, <1>3, <1>4, <1>6, <2>1, <2>2
<1>7. CASE t = "turn"
  <2>1. ~Busy("turn")' /\ phase \notin {"idle", "tool", "failed"}
    BY <1>1, <1>4, <1>5, <1>7
  <2>2. phase' \in {"run", "idle"} \/ phase' = phase
    BY <1>7 DEF PhaseAfter
  <2>3. phase' \in Phases /\ phase' \notin {"tool", "failed"}
    BY <1>1, <2>1, <2>2 DEF Phases
  <2>4. QED
    BY <1>2, <1>3, <1>4, <2>1, <2>3
<1>8. QED
  BY <1>5, <1>6, <1>7

\* A compaction without a result keeps the shape.
LEMMA MakesNoChangeShape ==
    ASSUME Shape, NEW t \in Threads, MakesNoChange(t)
    PROVE  Shape'
<1> DEFINE source == txn[t].source
<1>1. /\ Busy(t) /\ txn' = Closes(t) /\ phase' = PhaseAfter(t, FALSE) /\ raced' = (raced \/ notice)
      /\ UNCHANGED <<tree, leaf, setting, notice, other, gone, lost, skewed>>
      /\ live' = live \/ live' = Only(source, Of(tree, EntryKinds \ {"hidden"})) \/ live' = source
  BY DEF MakesNoChange
<1>2. /\ txn' \in [Threads -> {NoTxn} \union [variant : Variants, source : Seq(Ids)]]
      /\ \A u \in Threads : txn'[u] = IF u = t THEN NoTxn ELSE txn[u]
      /\ \A u \in Threads : Busy(u)' => u # t /\ Busy(u)
      /\ phase' \in Phases /\ (phase' \in {"idle", "tool", "failed"} => ~Busy("turn")')
      /\ phase' = "tool" => phase = "tool"
  BY <1>1, ClosesFacts
<1>3. live \in Seq(0..Len(tree)) /\ leaf \in 0..Len(tree) /\ setting \in 0..Len(tree) /\ notice \in BOOLEAN /\ other \in 0..MaxOther /\ raced \in BOOLEAN
  BY DEF Shape, ContextTypeOK
<1>4. source \in Seq(Nat) /\ Range(source) \subseteq 1..Len(tree) /\ Len(tree) \in Nat
  BY ShapeFacts
<1>5. ASSUME NEW s \in Seq(Nat), Range(s) \subseteq 1..Len(tree) PROVE s \in Seq(0..Len(tree))
  <2>1. Len(s) \in Nat /\ s = [i \in 1..Len(s) |-> s[i]] /\ \A i \in 1..Len(s) : s[i] \in Range(s)
    BY Places
  <2>2. \A i \in 1..Len(s) : s[i] \in 0..Len(tree)
    BY <1>4, <1>5, <2>1
  <2>3. [i \in 1..Len(s) |-> s[i]] \in Seq(0..Len(tree))
    BY <2>1, <2>2
  <2>4. QED
    BY <2>1, <2>3
<1>6. live' \in Seq(0..Len(tree))
  <2> HIDE DEF source
  <2>1. /\ Only(source, Of(tree, EntryKinds \ {"hidden"})) \in Seq(Nat)
        /\ Range(Only(source, Of(tree, EntryKinds \ {"hidden"}))) \subseteq 1..Len(tree)
    BY <1>4, OnlyFacts
  <2>2. QED
    BY <1>1, <1>3, <1>4, <1>5, <2>1
<1>7. Busy("user")' => txn'["user"].variant \in {"manual", "deep"}
  <2>1. "user" \in Threads
    BY DEF Threads
  <2>2. QED
    BY <1>2, <2>1 DEF Shape
<1>8. \A u \in Threads : Range(txn'[u].source) \subseteq DOMAIN tree
  <2>1. Range(NoTxn.source) = {}
    BY RangeEmpty DEF NoTxn
  <2>2. QED
    BY <1>2, <2>1 DEF Shape
<1>9. QED
  BY <1>1, <1>2, <1>3, <1>6, <1>7, <1>8, SameTreeKeepsShape

\* The places of a source that the compressor sees.
LEMMA SeenFacts ==
    ASSUME NEW source \in Seq(Nat)
    PROVE  LET seen == SourceIndices(source)
           IN  /\ seen \in Seq(Nat) /\ Len(seen) \in Nat /\ DOMAIN seen = 1..Len(seen)
               /\ Range(seen) = {i \in 1..Len(source) : Kind(source[i]) # "hidden"}
               /\ \A i \in 1..Len(seen) : seen[i] \in Range(seen) /\ seen[i] \in 1..Len(source)
               /\ \A i \in Range(seen) : \E k \in 1..Len(seen) : i = seen[k]
               /\ \A i, j \in 1..Len(seen) : i < j => seen[i] < seen[j]
<1> DEFINE d == [i \in DOMAIN source |-> i]
           S == {i \in DOMAIN source : Kind(source[i]) # "hidden"}
           seen == SourceIndices(source)
<1>1. Len(source) \in Nat /\ DOMAIN source = 1..Len(source)
  OBVIOUS
<1>2. d \in Seq(Nat) /\ Len(d) = Len(source) /\ \A i \in 1..Len(source) : d[i] = i
  BY <1>1
<1>3. DOMAIN d = 1..Len(source) /\ Range(d) = 1..Len(source)
  BY <1>1, <1>2 DEF Range
<1>4. Arrayed(d, Ascending)
  BY <1>1, <1>2, <1>3 DEF Arrayed, Ascending
<1>5. seen = Only(d, S)
  BY DEF SourceIndices
<1> HIDE DEF d, S, seen
<1>6. seen \in Seq(Nat) /\ Range(seen) = Range(d) \intersect S
  BY <1>2, <1>5, OnlyFacts
<1>7. Arrayed(seen, Ascending)
  BY <1>2, <1>4, <1>5, OnlyArrayed
<1>8. Range(seen) = {i \in 1..Len(source) : Kind(source[i]) # "hidden"}
  BY <1>1, <1>3, <1>6 DEF S
<1>9. /\ Len(seen) \in Nat /\ DOMAIN seen = 1..Len(seen)
      /\ \A i \in 1..Len(seen) : seen[i] \in Range(seen)
      /\ \A i \in Range(seen) : \E k \in 1..Len(seen) : i = seen[k]
  BY <1>6, Places
<1>10. \A i, j \in 1..Len(seen) : i < j => seen[i] < seen[j]
  BY <1>7, <1>9 DEF Arrayed, Ascending
<1>11. \A i \in 1..Len(seen) : seen[i] \in 1..Len(source)
  BY <1>8, <1>9
<1>12. QED
  BY <1>6, <1>8, <1>9, <1>10, <1>11 DEF seen

\* The entry that a compaction stores.
CompactionEntry(t, p) ==
    [kind |-> "compaction", ref |-> FirstKept(txn[t].variant, txn[t].source, p, Stored),
     parent |-> ParentFor(txn[t].variant, txn[t].source, Stored)]

\* The stored context is a sequence of entries of the tree.
LEMMA StoredFacts ==
    ASSUME Shape
    PROVE  /\ Stored \in Seq(Nat) /\ Range(Stored) \subseteq 1..Len(tree) /\ Len(Stored) \in Nat /\ DOMAIN Stored = 1..Len(Stored)
           /\ \A i \in 1..Len(Stored) : Stored[i] \in Range(Stored) /\ Stored[i] \in 1..Len(tree)
<1>1. Well(tree) /\ leaf \in 0..Len(tree)
  BY ShapeFacts
<1>2. Stored \in Seq(Nat) /\ Range(Stored) \subseteq 1..Len(tree)
  BY <1>1, ContextRange DEF Stored
<1>3. /\ Len(Stored) \in Nat /\ DOMAIN Stored = 1..Len(Stored)
      /\ \A i \in 1..Len(Stored) : Stored[i] \in Range(Stored)
  BY <1>2, Places
<1>4. QED
  BY <1>2, <1>3

\* What applying a compaction does to the tree, the leaf and live.
LEMMA AppliesTree ==
    ASSUME Shape, NEW t \in Threads, NEW p \in Nat, Applies(t, p)
    PROVE  LET x == CompactionEntry(t, p)
               new == Len(tree) + 1
           IN  /\ x \in Entry /\ x.parent \in 0..Len(tree) /\ x.ref \in 0..Len(tree) /\ x.kind = "compaction"
               /\ tree' = Append(tree, x) /\ leaf' = new /\ Len(tree') = new /\ Well(tree') /\ DOMAIN tree' = 1..new
               /\ new \in Nat /\ new <= MaxEntries
               /\ tree'[new] = x /\ \A e \in 1..Len(tree) : tree'[e] = tree[e]
               /\ tree' \in Seq([kind : EntryKinds, parent : 0..MaxEntries, ref : 0..MaxEntries])
               /\ \A K : Of(tree', K) = Of(tree, K) \union (IF "compaction" \in K THEN {new} ELSE {})
               /\ live' = Stored' /\ Stored' \in Seq(Nat) /\ Stored' \in Seq(0..new) /\ Range(Stored') \subseteq 1..new
<1> DEFINE x == CompactionEntry(t, p)
           new == Len(tree) + 1
           v == txn[t].variant
           source == txn[t].source
           seen == SourceIndices(source)
           kept == FirstKept(v, source, p, Stored)
           P == ParentFor(v, source, Stored)
<1>1. Well(tree) /\ Len(tree) \in Nat /\ leaf \in 0..Len(tree) /\ MaxEntries \in Nat
  BY ShapeFacts
<1>2. /\ Len(Stored) \in Nat /\ DOMAIN Stored = 1..Len(Stored)
      /\ \A i \in 1..Len(Stored) : Stored[i] \in 1..Len(tree)
  BY StoredFacts
<1>3. kept \in 0..Len(tree)
  <2>1. kept = leaf \/ kept = 0 \/ (seen[p] \in DOMAIN Stored /\ kept = Stored[seen[p]])
    BY DEF FirstKept
  <2>2. QED
    BY <1>1, <1>2, <2>1
<1>4. P \in 0..Len(tree)
  <2>1. P = leaf \/ (Len(source) \in DOMAIN Stored /\ P = Stored[Len(source)])
    BY DEF ParentFor
  <2>2. QED
    BY <1>1, <1>2, <2>1
<1>5. x = [kind |-> "compaction", ref |-> kept, parent |-> P]
  BY DEF CompactionEntry
<1>6. Len(tree) < MaxEntries /\ tree' = Append(tree, x) /\ leaf' = new /\ live' = Restored(tree', leaf')
  BY <1>5 DEF Applies
<1> HIDE DEF kept, P, x
<1>7. x \in Entry /\ x.parent = P /\ x.ref = kept /\ x.kind = "compaction"
  <2>1. kept \in Nat /\ P \in Nat /\ "compaction" \in EntryKinds
    BY <1>1, <1>3, <1>4 DEF EntryKinds
  <2>2. QED
    BY <1>5, <2>1 DEF Entry
<1>8. x.parent <= Len(tree) /\ x.ref <= Len(tree)
  BY <1>1, <1>3, <1>4, <1>7
<1>9. Well(tree') /\ Len(tree') = new /\ tree'[new] = x /\ \A e \in 1..Len(tree) : tree'[e] = tree[e]
  BY <1>1, <1>6, <1>7, <1>8, Grown
<1>10. DOMAIN tree' = 1..new
  BY <1>9, EntryFacts
<1>11. new \in Nat /\ new <= MaxEntries /\ new \in 0..new
  BY <1>1, <1>6
<1>12. tree' \in Seq([kind : EntryKinds, parent : 0..MaxEntries, ref : 0..MaxEntries])
  <2>1. tree \in Seq([kind : EntryKinds, parent : 0..MaxEntries, ref : 0..MaxEntries])
    BY DEF Shape, ContextTypeOK
  <2>2. kept \in 0..MaxEntries /\ P \in 0..MaxEntries /\ "compaction" \in EntryKinds
    BY <1>1, <1>3, <1>4, <1>6 DEF EntryKinds
  <2>3. x \in [kind : EntryKinds, parent : 0..MaxEntries, ref : 0..MaxEntries]
    BY <1>5, <2>2
  <2>4. QED
    BY <1>6, <2>1, <2>3
<1>13. \A K : Of(tree', K) = Of(tree, K) \union (IF "compaction" \in K THEN {new} ELSE {})
  BY <1>1, <1>6, <1>7, <1>8, OfGrown
<1>14. live' = Stored'
  BY <1>6 DEF Restored, Stored
<1>15. Stored' \in Seq(Nat) /\ Stored' \in Seq(0..new) /\ Range(Stored') \subseteq 1..new
  <2>1. Stored' = ContextOf(tree', leaf')
    BY DEF Stored
  <2>2. leaf' \in 0..Len(tree')
    BY <1>6, <1>9, <1>11
  <2>3. QED
    BY <1>9, <2>1, <2>2, ContextRange
<1>16. QED
  BY <1>3, <1>4, <1>6, <1>7, <1>9, <1>10, <1>11, <1>12, <1>13, <1>14, <1>15 DEF x

\* Applying a compaction keeps the shape.
LEMMA AppliesShape ==
    ASSUME Shape, NEW t \in Threads, NEW p \in Nat, Applies(t, p)
    PROVE  Shape'
<1> DEFINE x == CompactionEntry(t, p)
           new == Len(tree) + 1
           source == txn[t].source
           seen == SourceIndices(source)
<1>1. /\ leaf' = new /\ Len(tree') = new /\ Well(tree') /\ DOMAIN tree' = 1..new
      /\ new \in Nat /\ new <= MaxEntries
      /\ \A e \in 1..Len(tree) : tree'[e] = tree[e]
      /\ tree' \in Seq([kind : EntryKinds, parent : 0..MaxEntries, ref : 0..MaxEntries])
      /\ \A K : Of(tree', K) = Of(tree, K) \union (IF "compaction" \in K THEN {new} ELSE {})
      /\ live' = Stored' /\ Stored' \in Seq(0..new)
  BY AppliesTree
<1>2. /\ Busy(t) /\ txn' = Closes(t) /\ phase' = PhaseAfter(t, TRUE)
      /\ gone' \subseteq gone \union {source[seen[i]] : i \in 1..(p - 1)}
      /\ lost' \subseteq lost \union (Range(live) \intersect Of(tree, EntryKinds \ {"hidden", "failed", "compaction"}))
      /\ skewed' \in BOOLEAN /\ raced' \in BOOLEAN
      /\ p \in Boundaries(txn[t].variant, source)
      /\ UNCHANGED <<setting, notice, other>>
  BY DEF Applies
<1>3. /\ txn' \in [Threads -> {NoTxn} \union [variant : Variants, source : Seq(Ids)]]
      /\ \A u \in Threads : txn'[u] = IF u = t THEN NoTxn ELSE txn[u]
      /\ \A u \in Threads : Busy(u)' => u # t /\ Busy(u)
      /\ phase' \in Phases /\ (phase' \in {"idle", "tool", "failed"} => ~Busy("turn")')
      /\ phase' = "tool" => phase = "tool"
  BY <1>2, ClosesFacts
<1>4. Len(tree) \in Nat /\ DOMAIN tree = 1..Len(tree) /\ source \in Seq(Nat) /\ Range(source) \subseteq 1..Len(tree) /\ MaxEntries \in Nat
  BY ShapeFacts
<1>5. setting \in 0..Len(tree) /\ notice \in BOOLEAN /\ other \in 0..MaxOther /\ gone \subseteq Ids /\ lost \subseteq Ids
  BY DEF Shape, ContextTypeOK
<1>6. {source[seen[i]] : i \in 1..(p - 1)} \subseteq 1..Len(tree)
  <2>1. /\ Len(seen) \in Nat
        /\ \A i \in 1..Len(seen) : seen[i] \in 1..Len(source)
    BY <1>4, SeenFacts
  <2>2. p - 1 <= Len(seen)
    BY <1>2, <2>1 DEF Boundaries
  <2>3. \A i \in 1..Len(source) : source[i] \in Range(source)
    BY <1>4, Places
  <2>4. \A i \in 1..(p - 1) : i \in 1..Len(seen)
    BY <2>1, <2>2
  <2>5. \A i \in 1..(p - 1) : source[seen[i]] \in Range(source)
    BY <2>1, <2>3, <2>4
  <2>6. QED
    BY <1>4, <2>5
<1>7. 1..Len(tree) \subseteq 1..new /\ 1..Len(tree) \subseteq Ids
  BY <1>1, <1>4 DEF Ids
<1>8. gone' \subseteq 1..new /\ gone' \subseteq Ids
  <2>1. gone \subseteq 1..Len(tree)
    BY <1>4 DEF Shape
  <2>2. QED
    BY <1>2, <1>6, <1>7, <2>1
<1>9. lost' \subseteq Ids
  <2>1. Of(tree, EntryKinds \ {"hidden", "failed", "compaction"}) \subseteq 1..Len(tree)
    BY <1>4 DEF Of
  <2>2. QED
    BY <1>2, <1>5, <1>7, <2>1
<1>10. setting' \in 0..new /\ leaf' \in 0..new
  BY <1>1, <1>2, <1>4, <1>5
<1>11. \A e \in DOMAIN tree' : tree'[e].parent < e /\ tree'[e].ref < e
  BY <1>1 DEF Well
<1>12. ContextTypeOK'
  <2>1. notice' \in BOOLEAN /\ other' \in 0..MaxOther
    BY <1>2, <1>5
  <2>2. QED
    BY <1>1, <1>2, <1>3, <1>8, <1>9, <1>10, <1>11, <2>1 DEF ContextTypeOK
<1>13. CallEntries' = CallEntries /\ Of(tree', {"result"}) = Of(tree, {"result"})
  BY <1>1 DEF CallEntries
<1>14. \A e \in Of(tree', {"result"}) : tree'[e].ref \in CallEntries'
  <2>1. SUFFICES ASSUME NEW e \in Of(tree, {"result"}) PROVE tree'[e].ref \in CallEntries
    BY <1>13
  <2>2. e \in 1..Len(tree) /\ tree[e].ref \in CallEntries
    BY <1>4 DEF Shape, Of
  <2>3. QED
    BY <1>1, <2>2
<1>15. Busy("user")' => txn'["user"].variant \in {"manual", "deep"}
  <2>1. "user" \in Threads
    BY DEF Threads
  <2>2. QED
    BY <1>3, <2>1 DEF Shape
<1>16. \A u \in Threads : Range(txn'[u].source) \subseteq DOMAIN tree'
  <2>1. Range(NoTxn.source) = {}
    BY RangeEmpty DEF NoTxn
  <2>2. \A u \in Threads : Range(txn[u].source) \subseteq 1..Len(tree)
    BY <1>4 DEF Shape
  <2>3. QED
    BY <1>1, <1>3, <1>7, <2>1, <2>2
<1>17. phase' = "tool" => CallEntries' # {}
  BY <1>3, <1>13 DEF Shape
<1>18. QED
  BY <1>1, <1>8, <1>12, <1>14, <1>15, <1>16, <1>17 DEF Shape

\* Every step keeps the shape.
LEMMA ShapeStep ==
    ASSUME Shape, [ContextNext]_contextVars
    PROVE  Shape'
<1>0. /\ Len(tree) \in Nat /\ 0 \in 0..Len(tree) /\ DOMAIN tree = 1..Len(tree) /\ Well(tree) /\ MaxEntries \in Nat
      /\ live \in Seq(Nat) /\ Range(live) \subseteq 0..Len(tree)
      /\ phase \in Phases /\ (phase \in {"idle", "tool", "failed"} => ~Busy("turn"))
  BY ShapeFacts DEF Shape, ContextTypeOK
<1>1. CASE UNCHANGED contextVars
  BY <1>0, <1>1, QuietShape DEF contextVars
<1>2. CASE TurnStarts
  BY <1>2, QuietShape DEF TurnStarts, Phases
<1>3. CASE Prompts
  <2>1. "user" \in EntryKinds \ {"compaction"} /\ "run" \in Phases /\ Turn("start", "user", 0, "run")
    BY <1>3 DEF EntryKinds, Phases, Prompts
  <2>2. QED
    BY <1>0, <2>1, TurnShape
<1>4. CASE Replies
  <2>1. "reply" \in EntryKinds \ {"compaction"} /\ "post" \in Phases /\ Turn("run", "reply", 0, "post")
    BY <1>4 DEF EntryKinds, Phases, Replies
  <2>2. QED
    BY <1>0, <2>1, TurnShape
<1>5. CASE Calls
  <2>1. "call" \in EntryKinds \ {"compaction"} /\ "tool" \in Phases /\ Turn("run", "call", 0, "tool")
    BY <1>5 DEF EntryKinds, Phases, Calls
  <2>2. QED
    BY <1>0, <2>1, TurnShape
<1>6. CASE Results
  <2>1. "result" \in EntryKinds \ {"compaction"} /\ "run" \in Phases /\ Turn("tool", "result", Max(CallEntries), "run")
    BY <1>6 DEF EntryKinds, Phases, Results, CallEntries
  <2>2. phase = "tool"
    BY <1>6 DEF Results, Turn
  <2>3. Max(CallEntries) \in CallEntries /\ Max(CallEntries) \in 0..Len(tree)
    BY <2>2, CallFacts DEF Shape
  <2>4. QED
    BY <2>1, <2>3, TurnShape
<1>7. CASE Fails
  <2>1. "failed" \in EntryKinds \ {"compaction"} /\ "failed" \in Phases /\ Turn("run", "failed", 0, "failed")
    BY <1>7 DEF EntryKinds, Phases, Fails
  <2>2. QED
    BY <1>0, <2>1, TurnShape
<1>8. CASE Retries
  BY <1>8, RetriesShape
<1>9. CASE GivesUp
  BY <1>9, QuietShape DEF GivesUp, Phases
<1>10. CASE TurnEnds
  BY <1>10, QuietShape DEF TurnEnds, Phases
<1>11. CASE Sets
  BY <1>11, SetsShape
<1>12. CASE RecordsBash
  BY <1>12, RecordsBashShape
<1>13. CASE NoticeComes
  BY <1>13, NoticeComesShape
<1>14. CASE NoticeStored
  BY <1>14, NoticeStoredShape
<1>15. ASSUME NEW e \in DOMAIN tree, Navigates(e) PROVE Shape'
  <2>1. PICK l : l = (IF Kind(e) \in {"user", "notice"} THEN tree[e].parent ELSE e) /\ Rebuild(l)
    BY <1>15 DEF Navigates
  <2>2. e \in 1..Len(tree) /\ tree[e].parent \in 0..(e - 1)
    BY <1>0, <1>15, EntryFacts
  <2>3. l \in 0..Len(tree)
    BY <1>0, <2>1, <2>2
  <2>4. QED
    BY <2>1, <2>3, RebuildShape
<1>16. CASE Resumes
  <2>1. Len(tree) \in 0..Len(tree)
    BY <1>0
  <2>2. QED
    BY <1>16, <2>1, RebuildShape DEF Resumes
<1>17. ASSUME NEW v \in {"manual", "deep"}, UserCompacts(v) PROVE Shape'
  <2>1. "user" \in Threads /\ v \in Variants /\ Copies("user", v, live)
    BY <1>17 DEF Threads, Variants, UserCompacts
  <2>2. QED
    BY <1>0, <2>1, CopiesShape
<1>18. CASE AutoCompacts
  <2>1. "turn" \in Threads /\ "auto" \in Variants /\ Copies("turn", "auto", live) /\ phase \notin {"idle", "tool", "failed"}
    BY <1>18 DEF Threads, Variants, AutoCompacts
  <2>2. QED
    BY <1>0, <2>1, CopiesShape
<1>19. CASE RecoversOverflow
  <2>1. "turn" \in Threads /\ "overflow" \in Variants /\ Copies("turn", "overflow", RemoveAt(live, LastAssistant))
        /\ phase \notin {"idle", "tool", "failed"} /\ LastFailed
    BY <1>19 DEF Threads, Variants, RecoversOverflow
  <2>2. LastAssistant \in 1..Len(live)
    BY <2>1, LastAssistantFacts
  <2>3. RemoveAt(live, LastAssistant) \in Seq(Nat) /\ Range(RemoveAt(live, LastAssistant)) \subseteq 0..Len(tree)
    BY <1>0, <2>2, RemoveFacts
  <2>4. QED
    BY <2>1, <2>3, CopiesShape
<1>20. CASE CompactsFailedTurn
  <2>1. "turn" \in Threads /\ "error" \in Variants /\ Copies("turn", "error", live) /\ phase \notin {"idle", "tool", "failed"}
    BY <1>20 DEF Threads, Variants, CompactsFailedTurn
  <2>2. QED
    BY <1>0, <2>1, CopiesShape
<1>21. ASSUME NEW t \in Threads, NEW p \in 1..(MaxEntries + 1), Applies(t, p) PROVE Shape'
  BY <1>0, <1>21, AppliesShape
<1>22. ASSUME NEW t \in Threads, MakesNoChange(t) PROVE Shape'
  BY <1>22, MakesNoChangeShape
<1>23. QED
  BY <1>1, <1>2, <1>3, <1>4, <1>5, <1>6, <1>7, <1>8, <1>9, <1>10, <1>11, <1>12, <1>13, <1>14,
     <1>15, <1>16, <1>17, <1>18, <1>19, <1>20, <1>21, <1>22 DEF ContextNext

-----------------------------------------------------------------------------
(* Agreement is kept.                                                      *)

\* The kinds of entries, against each other.
LEMMA KindFacts ==
    ASSUME Shape
    PROVE  /\ \A K : Of(tree, K) \subseteq 1..Len(tree) /\ 0 \notin Of(tree, K)
           /\ Failed \subseteq Assistant /\ Failed \intersect Said = {}
           /\ \A e \in 1..Len(tree) : e \notin Failed /\ tree[e].kind # "hidden" => e \in Said
<1>1. Well(tree) /\ Len(tree) \in Nat /\ DOMAIN tree = 1..Len(tree)
  BY ShapeFacts
<1>2. \A e \in 1..Len(tree) : tree[e].kind \in EntryKinds
  BY <1>1, EntryFacts
<1>3. \A K : Of(tree, K) \subseteq 1..Len(tree) /\ 0 \notin Of(tree, K)
  BY <1>1 DEF Of
<1>4. Failed \subseteq Assistant /\ Failed \intersect Said = {}
  BY DEF Of, Failed, Assistant, Said
<1>5. \A e \in 1..Len(tree) : e \notin Failed /\ tree[e].kind # "hidden" => e \in Said
  BY <1>1, <1>2 DEF Of, Failed, Said
<1>6. QED
  BY <1>3, <1>4, <1>5

\* A message at the end of live and at the end of the branch.
LEMMA PutMessageAgrees ==
    ASSUME Shape, Agreement, NEW kind \in EntryKinds \ {"compaction", "setting"}, NEW ref \in 0..Len(tree),
           PutMessage(kind, ref), ~raced /\ kind = "result" => ref \in Range(Messages(tree, leaf)),
           phase' = "tool" => kind = "call", UNCHANGED <<txn, notice>>
    PROVE  Agreement'
<1> DEFINE new == Len(tree) + 1
           K == EntryKinds \ {"failed", "hidden"}
<1>1. Put(kind, ref) /\ live' = Append(live, new) /\ raced' = (raced \/ Compacting \/ notice)
  BY DEF PutMessage
<1>2. /\ new \in Nat
      /\ Stored' = IF kind = "setting" \/ (kind = "result" /\ ref \notin Range(Messages(tree, leaf)))
                   THEN Stored ELSE Append(Stored, new)
      /\ \A L : Of(tree', L) = Of(tree, L) \union (IF kind \in L THEN {new} ELSE {})
      /\ \A L : \A s \in Seq(Nat) : Range(s) \subseteq 0..Len(tree) => Only(s, Of(tree', L)) = Only(s, Of(tree, L))
  BY <1>1, Puts
<1>3. live \in Seq(Nat) /\ Range(live) \subseteq 0..Len(tree) /\ Len(tree) \in Nat
  BY ShapeFacts
<1>4. Stored \in Seq(Nat) /\ Range(Stored) \subseteq 0..Len(tree)
  <2>1. Stored \in Seq(Nat) /\ Range(Stored) \subseteq 1..Len(tree)
    BY StoredFacts
  <2>2. QED
    BY <1>3, <2>1
<1>5. Range(live') = Range(live) \union {new} /\ new # 0
  BY <1>1, <1>2, <1>3, RangeAppend
<1>6. ~notice' => 0 \notin Range(live')
  BY <1>5 DEF Agreement
<1>7. ASSUME ~raced'
      PROVE  /\ ~raced /\ ~Compacting /\ ~notice /\ 0 \notin Range(live')
             /\ Stored' = Append(Stored, new) /\ Only(live', Said') = Only(Stored', Said')
  <2>1. ~raced /\ ~Compacting /\ ~notice /\ 0 \notin Range(live')
    BY <1>1, <1>6, <1>7
  <2>2. Stored' = Append(Stored, new)
    BY <1>2, <2>1
  <2>3. Said' = Of(tree', K) /\ Said = Of(tree, K)
    BY DEF Said
  <2>4. Only(live, Said') = Only(live, Said) /\ Only(Stored, Said') = Only(Stored, Said)
    BY <1>2, <1>3, <1>4, <2>3
  <2>5. Only(live, Said) = Only(Stored, Said)
    BY <2>1 DEF Agreement
  <2>n. new \in Nat /\ live \in Seq(Nat) /\ Stored \in Seq(Nat)
    BY <1>2, <1>3, <1>4
  <2> HIDE DEF new
  <2>6. Only(Append(live, new), Said') = IF new \in Said' THEN Append(Only(live, Said'), new) ELSE Only(live, Said')
    BY <2>n, OnlyAppend
  <2>7. Only(Append(Stored, new), Said') = IF new \in Said' THEN Append(Only(Stored, Said'), new) ELSE Only(Stored, Said')
    BY <2>n, OnlyAppend
  <2>8. QED
    BY <1>1, <2>1, <2>2, <2>4, <2>5, <2>6, <2>7
<1>8. ~raced' => \A i \in DOMAIN live' : live'[i] = 0 => i = Len(live')
  BY <1>7 DEF Range
<1>9. Compacting' = Compacting /\ \A t \in Threads : Busy(t)' => Compacting
  BY DEF Compacting, Busy
<1>10. \A t \in Threads : ~(Busy(t)' /\ ~raced')
  BY <1>7, <1>9
<1>11. ~raced' /\ phase' = "tool" => ~Compacting' /\ ~notice' /\ Max(CallEntries') \in Range(Stored')
  <2>1. SUFFICES ASSUME ~raced', phase' = "tool" PROVE ~Compacting' /\ ~notice' /\ Max(CallEntries') \in Range(Stored')
    OBVIOUS
  <2>2. CallEntries' = CallEntries \union {new} /\ CallEntries \subseteq 1..Len(tree)
    <3>1. kind = "call"
      BY <2>1
    <3>2. Of(tree', {"call"}) = Of(tree, {"call"}) \union {new}
      BY <1>2, <3>1
    <3>3. QED
      BY <3>2, KindFacts DEF CallEntries
  <2>3. CallEntries' \subseteq 0..new /\ CallEntries' # {}
    <3>1. new \in 0..new /\ 1..Len(tree) \subseteq 0..new
      BY <1>3
    <3>2. QED
      BY <2>2, <3>1
  <2>4. Max(CallEntries') \in CallEntries' /\ \A y \in CallEntries' : y <= Max(CallEntries')
    BY <1>2, <2>3, Greatest
  <2>5. Max(CallEntries') = new
    <3>1. new <= Max(CallEntries') /\ Max(CallEntries') \in 0..new
      BY <2>2, <2>3, <2>4
    <3>2. QED
      BY <1>3, <3>1
  <2>6. new \in Range(Stored')
    BY <1>2, <1>4, <1>7, <2>1, RangeAppend
  <2>7. QED
    BY <1>7, <1>9, <2>1, <2>5, <2>6
<1>12. QED
  BY <1>6, <1>7, <1>8, <1>10, <1>11 DEF Agreement

\* A setting is not part of the conversation.
LEMMA SetsAgrees ==
    ASSUME Shape, Agreement, Sets
    PROVE  Agreement'
<1> DEFINE K == EntryKinds \ {"failed", "hidden"}
<1>0. Len(tree) \in Nat /\ 0 \in 0..Len(tree) /\ "setting" \in EntryKinds \ {"compaction"}
  BY ShapeFacts DEF EntryKinds
<1>1. Put("setting", 0) /\ UNCHANGED <<live, phase, txn, notice, raced>>
  BY DEF Sets
<1>2. /\ Stored' = Stored
      /\ \A L : Of(tree', L) = Of(tree, L) \union (IF "setting" \in L THEN {Len(tree) + 1} ELSE {})
      /\ \A L : \A s \in Seq(Nat) : Range(s) \subseteq 0..Len(tree) => Only(s, Of(tree', L)) = Only(s, Of(tree, L))
  BY <1>0, <1>1, Puts
<1>3. /\ live \in Seq(Nat) /\ Range(live) \subseteq 0..Len(tree)
      /\ \A t \in Threads : txn[t].source \in Seq(Nat) /\ Range(txn[t].source) \subseteq 0..Len(tree)
      /\ Stored \in Seq(Nat) /\ Range(Stored) \subseteq 0..Len(tree)
  <2>1. 1..Len(tree) \subseteq 0..Len(tree)
    BY <1>0
  <2>2. Stored \in Seq(Nat) /\ Range(Stored) \subseteq 1..Len(tree)
    BY StoredFacts
  <2>3. /\ live \in Seq(Nat) /\ Range(live) \subseteq 0..Len(tree)
        /\ \A t \in Threads : txn[t].source \in Seq(Nat) /\ Range(txn[t].source) \subseteq 1..Len(tree)
    BY ShapeFacts
  <2>4. QED
    BY <2>1, <2>2, <2>3
<1>4. Said' = Of(tree', K) /\ Said = Of(tree, K)
  BY DEF Said
<1>5. Only(live, Said') = Only(live, Said) /\ Only(Stored, Said') = Only(Stored, Said)
  BY <1>2, <1>3, <1>4
<1>6. \A t \in Threads : Only(txn[t].source, Said') = Only(txn[t].source, Said)
  BY <1>2, <1>3, <1>4
<1>7. CallEntries' = CallEntries
  BY <1>2 DEF CallEntries
<1>8. Compacting' = Compacting /\ \A t \in Threads : Busy(t)' = Busy(t)
  BY <1>1 DEF Compacting, Busy
<1>9. ~notice' => 0 \notin Range(live')
  BY <1>1 DEF Agreement
<1>10. ~raced' => \A i \in DOMAIN live' : live'[i] = 0 => i = Len(live')
  BY <1>1 DEF Agreement
<1>11. ~raced' => Only(live', Said') = Only(Stored', Said')
  BY <1>1, <1>2, <1>5 DEF Agreement
<1>12. \A t \in Threads : Busy(t)' /\ ~raced' => Only(txn'[t].source, Said') = Only(Stored', Said')
  BY <1>1, <1>2, <1>5, <1>6, <1>8 DEF Agreement
<1>13. ~raced' /\ phase' = "tool" => ~Compacting' /\ ~notice' /\ Max(CallEntries') \in Range(Stored')
  BY <1>1, <1>2, <1>7, <1>8 DEF Agreement
<1>14. QED
  BY <1>9, <1>10, <1>11, <1>12, <1>13 DEF Agreement

\* Live with the notice that is about to be stored.
LEMMA NoticeLast ==
    ASSUME Shape, Agreement, NoticeStored, ~raced'
    PROVE  /\ ~raced /\ ~Compacting
           /\ \E u \in Seq(Nat) : /\ live = Append(u, 0) /\ live' = Append(u, Len(tree) + 1)
                                  /\ Range(u) \subseteq 0..Len(tree)
<1> DEFINE new == Len(tree) + 1
<1>1. /\ live' = [i \in DOMAIN live |-> IF live[i] = 0 THEN new ELSE live[i]]
      /\ raced' = (raced \/ Compacting \/ 0 \notin Range(live))
  BY DEF NoticeStored
<1>2. ~raced /\ ~Compacting /\ 0 \in Range(live)
  BY <1>1
<1>3. live \in Seq(Nat) /\ Range(live) \subseteq 0..Len(tree) /\ Len(tree) \in Nat
  BY ShapeFacts
<1>4. PICK i \in 1..Len(live) : live[i] = 0
  BY <1>2, <1>3, Places
<1>5. \A j \in DOMAIN live : live[j] = 0 => j = Len(live)
  BY <1>2 DEF Agreement
<1>6. DOMAIN live = 1..Len(live) /\ Len(live) \in Nat
  BY <1>3
<1>7. live[Len(live)] = 0 /\ live # <<>>
  BY <1>4, <1>5, <1>6
<1>8. PICK u \in Seq(Nat), x \in Nat : live = Append(u, x) /\ Len(u) = Len(live) - 1
  BY <1>3, <1>7, LastSplit
<1>9. x = 0 /\ Len(live) = Len(u) + 1 /\ Len(u) \in Nat /\ \A j \in 1..Len(u) : live[j] = u[j]
  BY <1>6, <1>7, <1>8
<1>10. \A j \in 1..Len(u) : u[j] # 0 /\ live'[j] = u[j]
  <2>1. SUFFICES ASSUME NEW j \in 1..Len(u) PROVE u[j] # 0 /\ live'[j] = u[j]
    OBVIOUS
  <2>2. j \in DOMAIN live /\ j # Len(live) /\ live[j] = u[j]
    BY <1>6, <1>9
  <2>3. QED
    BY <1>1, <1>5, <2>2
<1>11. live'[Len(u) + 1] = new
  <2>1. Len(u) + 1 \in DOMAIN live /\ live[Len(u) + 1] = 0
    BY <1>6, <1>7, <1>9
  <2>2. QED
    BY <1>1, <2>1
<1>12. live' = Append(u, new)
  <2> DEFINE w == Append(u, new)
  <2>1. w \in Seq(Nat) /\ Len(w) = Len(u) + 1 /\ w[Len(u) + 1] = new /\ \A j \in 1..Len(u) : w[j] = u[j]
    BY <1>3, <1>9
  <2>2. live' \in Seq(Nat) /\ Len(live') = Len(u) + 1
    <3>1. \A j \in 1..(Len(u) + 1) : (IF live[j] = 0 THEN new ELSE live[j]) \in Nat
      BY <1>3, <1>6, <1>9
    <3>2. live' = [j \in 1..(Len(u) + 1) |-> IF live[j] = 0 THEN new ELSE live[j]]
      BY <1>1, <1>6, <1>9
    <3>3. QED
      BY <1>9, <3>1, <3>2
  <2> HIDE DEF w
  <2>3. \A j \in 1..(Len(u) + 1) : j \in 1..Len(u) \/ j = Len(u) + 1
    BY <1>9
  <2>4. \A j \in 1..(Len(u) + 1) : live'[j] = w[j]
    BY <1>10, <1>11, <2>1, <2>3
  <2>5. live' = w
    BY <2>1, <2>2, <2>4, SameSeq
  <2>6. QED
    BY <2>5 DEF w
<1>13. Range(u) \subseteq 0..Len(tree)
  BY <1>3, <1>8, RangeAppend
<1>14. QED
  BY <1>2, <1>8, <1>9, <1>12, <1>13

\* A notice is stored as the last message, which it is in live.
LEMMA NoticeStoredAgrees ==
    ASSUME Shape, Agreement, NoticeStored
    PROVE  Agreement'
<1> DEFINE new == Len(tree) + 1
           K == EntryKinds \ {"failed", "hidden"}
<1>0. Len(tree) \in Nat /\ 0 \in 0..Len(tree) /\ "notice" \in EntryKinds \ {"compaction"}
  BY ShapeFacts DEF EntryKinds
<1>1. /\ Put("notice", 0) /\ notice /\ notice' = FALSE /\ raced' = (raced \/ Compacting \/ 0 \notin Range(live))
      /\ live' = [i \in DOMAIN live |-> IF live[i] = 0 THEN new ELSE live[i]]
      /\ UNCHANGED <<phase, txn>>
  BY DEF NoticeStored
<1>2. /\ new \in Nat
      /\ Stored' = Append(Stored, new)
      /\ \A L : \A s \in Seq(Nat) : Range(s) \subseteq 0..Len(tree) => Only(s, Of(tree', L)) = Only(s, Of(tree, L))
  BY <1>0, <1>1, Puts
<1>3. 0 \notin Range(live')
  <2>1. DOMAIN live' = DOMAIN live /\ \A i \in DOMAIN live : live'[i] # 0
    BY <1>0, <1>1
  <2>2. QED
    BY <2>1 DEF Range
<1>4. ASSUME ~raced' PROVE ~raced /\ ~Compacting /\ Only(live', Said') = Only(Stored', Said')
  <2>1. ~raced /\ ~Compacting
    BY <1>4, NoticeLast
  <2>2. PICK u \in Seq(Nat) : live = Append(u, 0) /\ live' = Append(u, new) /\ Range(u) \subseteq 0..Len(tree)
    BY <1>4, NoticeLast
  <2>3. Stored \in Seq(Nat) /\ Range(Stored) \subseteq 0..Len(tree)
    <3>1. Stored \in Seq(Nat) /\ Range(Stored) \subseteq 1..Len(tree)
      BY StoredFacts
    <3>2. QED
      BY <1>0, <3>1
  <2>4. Said' = Of(tree', K) /\ Said = Of(tree, K) /\ 0 \notin Said
    BY KindFacts DEF Said
  <2>5. Only(u, Said') = Only(u, Said) /\ Only(Stored, Said') = Only(Stored, Said)
    BY <1>2, <2>2, <2>3, <2>4
  <2>6. Only(live, Said) = Only(u, Said)
    BY <2>2, <2>4, OnlyAppend
  <2>7. Only(live, Said) = Only(Stored, Said)
    BY <2>1 DEF Agreement
  <2>n. new \in Nat /\ Stored \in Seq(Nat)
    BY <1>2, <2>3
  <2> HIDE DEF new
  <2>8. Only(Append(u, new), Said') = IF new \in Said' THEN Append(Only(u, Said'), new) ELSE Only(u, Said')
    BY <2>n, OnlyAppend
  <2>9. Only(Append(Stored, new), Said') = IF new \in Said' THEN Append(Only(Stored, Said'), new) ELSE Only(Stored, Said')
    BY <2>n, OnlyAppend
  <2>10. QED
    BY <1>2, <2>1, <2>2, <2>5, <2>6, <2>7, <2>8, <2>9
<1>5. \A t \in Threads : Busy(t)' => Compacting
  BY <1>1 DEF Compacting, Busy
<1>6. \A t \in Threads : ~(Busy(t)' /\ ~raced')
  BY <1>4, <1>5
<1>7. ~raced' => \A i \in DOMAIN live' : live'[i] = 0 => i = Len(live')
  BY <1>3 DEF Range
<1>8. ~(~raced' /\ phase' = "tool")
  BY <1>1, <1>4 DEF Agreement
<1>9. QED
  BY <1>3, <1>4, <1>6, <1>7, <1>8 DEF Agreement

\* A notice that is not stored yet is not said yet.
LEMMA NoticeComesAgrees ==
    ASSUME Shape, Agreement, NoticeComes
    PROVE  Agreement'
<1>1. /\ phase # "tool" /\ ~notice /\ live' = Append(live, 0) /\ notice' = TRUE
      /\ UNCHANGED <<tree, leaf, phase, txn, raced>>
  BY DEF NoticeComes
<1>2. live \in Seq(Nat) /\ 0 \notin Range(live) /\ 0 \notin Said
  BY <1>1, ShapeFacts, KindFacts DEF Agreement, Said
<1>3. Stored' = Stored /\ Said' = Said
  BY <1>1 DEF Stored, Said
<1>4. Only(live', Said) = Only(live, Said)
  BY <1>1, <1>2, OnlyAppend
<1>5. \A i \in DOMAIN live' : live'[i] = 0 => i = Len(live')
  <2>1. /\ Len(live) \in Nat /\ Len(live') = Len(live) + 1 /\ DOMAIN live' = 1..(Len(live) + 1)
        /\ \A i \in 1..Len(live) : live'[i] = live[i] /\ live[i] \in Range(live)
    BY <1>1, <1>2, Places
  <2>2. QED
    BY <1>2, <2>1
<1>6. \A t \in Threads : Busy(t)' = Busy(t) /\ txn'[t] = txn[t]
  BY <1>1 DEF Busy
<1>7. ~raced' => Only(live', Said') = Only(Stored', Said')
  BY <1>1, <1>3, <1>4 DEF Agreement
<1>8. \A t \in Threads : Busy(t)' /\ ~raced' => Only(txn'[t].source, Said') = Only(Stored', Said')
  BY <1>1, <1>3, <1>6 DEF Agreement
<1>9. QED
  BY <1>1, <1>5, <1>7, <1>8 DEF Agreement

\* A step that leaves the conversation as it is.
LEMMA QuietAgrees ==
    ASSUME Agreement, phase' = "tool" => phase = "tool", UNCHANGED <<tree, leaf, live, txn, notice, raced>>
    PROVE  Agreement'
<1>1. Stored' = Stored /\ Said' = Said /\ CallEntries' = CallEntries
  BY DEF Stored, Said, CallEntries
<1>2. Compacting' = Compacting /\ \A t \in Threads : Busy(t)' = Busy(t) /\ txn'[t] = txn[t]
  BY DEF Compacting, Busy
<1>3. QED
  BY <1>1, <1>2 DEF Agreement

\* The failed message leaves live.
LEMMA FailedLeaves ==
    ASSUME Shape, Agreement, Failure, phase = "failed", live # <<>>, Last(live) \in Assistant, live' = Front(live),
           phase' # "tool", UNCHANGED <<tree, leaf, txn, notice, raced>>
    PROVE  Agreement'
<1>1. /\ phase = "failed" /\ live # <<>> /\ live[Len(live)] \in Assistant /\ live' = Front(live) /\ phase' # "tool"
      /\ UNCHANGED <<tree, leaf, txn, notice, raced>>
  BY DEF Last
<1>2. live \in Seq(Nat)
  BY ShapeFacts
<1>3. PICK u \in Seq(Nat), x \in Nat : live = Append(u, x) /\ Len(u) = Len(live) - 1
  BY <1>1, <1>2, LastSplit
<1>4. live' = u /\ x \in Assistant /\ Len(live) = Len(u) + 1 /\ Len(u) \in Nat /\ \A i \in 1..Len(u) : live[i] = u[i]
  BY <1>1, <1>2, <1>3 DEF Front
<1>5. Range(u) \subseteq Range(live)
  BY <1>3, RangeAppend
<1>6. Stored' = Stored /\ Said' = Said
  BY <1>1 DEF Stored, Said
<1>7. ASSUME ~raced PROVE Only(u, Said) = Only(Stored, Said)
  <2> DEFINE a == Only(live, Assistant)
  <2>1. a = Append(Only(u, Assistant), x) /\ Only(u, Assistant) \in Seq(Nat)
    BY <1>3, <1>4, OnlyAppend, OnlyFacts
  <2>2. a # <<>> => a[Len(a)] \in Failed
    BY <1>1, <1>7 DEF Failure, FailedLast
  <2> HIDE DEF a
  <2>3. a # <<>> /\ a[Len(a)] = x
    <3>1. a \in Seq(Nat) /\ Len(a) = Len(Only(u, Assistant)) + 1 /\ Len(Only(u, Assistant)) \in Nat
          /\ a[Len(Only(u, Assistant)) + 1] = x
      BY <2>1
    <3>2. QED
      BY <3>1
  <2>4. x \notin Said
    BY <2>2, <2>3, KindFacts
  <2>5. Only(live, Said) = Only(u, Said)
    BY <1>3, <2>4, OnlyAppend
  <2>6. QED
    BY <1>7, <2>5 DEF Agreement
<1>8. ~notice' => 0 \notin Range(live')
  BY <1>1, <1>4, <1>5 DEF Agreement
<1>9. ~raced' => \A i \in DOMAIN live' : live'[i] = 0 => i = Len(live')
  <2>1. SUFFICES ASSUME ~raced, NEW i \in 1..Len(u), u[i] = 0 PROVE FALSE
    BY <1>1, <1>4
  <2>2. live[i] = 0 /\ i \in DOMAIN live /\ i # Len(live)
    BY <1>2, <1>4, <2>1
  <2>3. QED
    BY <2>1, <2>2 DEF Agreement
<1>10. \A t \in Threads : Busy(t)' = Busy(t) /\ txn'[t] = txn[t]
  BY <1>1 DEF Busy
<1>11. \A t \in Threads : Busy(t)' /\ ~raced' => Only(txn'[t].source, Said') = Only(Stored', Said')
  BY <1>1, <1>6, <1>10 DEF Agreement
<1>12. QED
  BY <1>1, <1>4, <1>6, <1>7, <1>8, <1>9, <1>11 DEF Agreement

\* A retry takes away a message that failed, by Failure, and that was not said.
LEMMA RetriesAgrees ==
    ASSUME Shape, Agreement, Failure, Retries
    PROVE  Agreement'
<1>1. /\ phase = "failed" /\ phase' # "tool" /\ UNCHANGED <<tree, leaf, txn, notice, raced>>
      /\ live' = live \/ (live # <<>> /\ Last(live) \in Assistant /\ live' = Front(live))
  BY DEF Retries, Assistant
<1>2. CASE live' = live
  BY <1>1, <1>2, QuietAgrees
<1>3. CASE live # <<>> /\ Last(live) \in Assistant /\ live' = Front(live)
  BY <1>1, <1>3, FailedLeaves
<1>4. QED
  BY <1>1, <1>2, <1>3

\* A rebuilt conversation is the stored one.
LEMMA RebuildAgrees ==
    ASSUME Shape, NEW l \in 0..Len(tree), Rebuild(l)
    PROVE  Agreement'
<1>1. /\ phase' = "idle" /\ ~Compacting /\ leaf' = l /\ live' = ContextOf(tree, l) /\ UNCHANGED <<tree, txn, notice>>
  BY DEF Rebuild
<1>2. Stored' = live'
  BY <1>1 DEF Stored
<1>3. live' \in Seq(Nat) /\ Range(live') \subseteq 1..Len(tree)
  BY <1>1, ContextRange, ShapeFacts
<1>4. 0 \notin Range(live') /\ \A i \in DOMAIN live' : live'[i] # 0
  <2>1. 0 \notin Range(live')
    BY <1>3
  <2>2. QED
    BY <2>1 DEF Range
<1>5. \A t \in Threads : ~Busy(t)'
  BY <1>1 DEF Compacting, Busy
<1>6. QED
  BY <1>1, <1>2, <1>4, <1>5 DEF Agreement

\* A copy of what live says.
LEMMA CopiesAgrees ==
    ASSUME Shape, Agreement, NEW t \in Threads, NEW variant, NEW source, Copies(t, variant, source), phase # "tool",
           Only(source, Said) = Only(live, Said)
    PROVE  Agreement'
<1>1. /\ txn' = [txn EXCEPT ![t] = [variant |-> variant, source |-> source]]
      /\ UNCHANGED <<tree, leaf, live, phase, notice, raced>>
  BY DEF Copies
<1>2. DOMAIN txn = Threads
  BY ShapeFacts
<1>3. txn'[t].source = source /\ \A u \in Threads : u # t => txn'[u] = txn[u]
  BY <1>1, <1>2
<1>4. Stored' = Stored /\ Said' = Said
  BY <1>1 DEF Stored, Said
<1>5. ASSUME NEW u \in Threads, Busy(u)', ~raced' PROVE Only(txn'[u].source, Said') = Only(Stored', Said')
  <2>1. CASE u = t
    BY <1>1, <1>3, <1>4, <1>5, <2>1 DEF Agreement
  <2>2. CASE u # t
    BY <1>1, <1>3, <1>4, <1>5, <2>2 DEF Agreement, Busy
  <2>3. QED
    BY <2>1, <2>2
<1>6. QED
  BY <1>1, <1>4, <1>5 DEF Agreement

\* Putting the copy back in live changes nothing that is said.
LEMMA MakesNoChangeAgrees ==
    ASSUME Shape, Agreement, NEW t \in Threads, MakesNoChange(t)
    PROVE  Agreement'
<1> DEFINE source == txn[t].source
           shown == Of(tree, EntryKinds \ {"hidden"})
<1>1. /\ Busy(t) /\ txn' = Closes(t) /\ phase' = PhaseAfter(t, FALSE) /\ raced' = (raced \/ notice)
      /\ UNCHANGED <<tree, leaf, notice>>
      /\ live' = live \/ live' = Only(source, shown) \/ live' = source
  BY DEF MakesNoChange
<1>2. /\ \A u \in Threads : txn'[u] = IF u = t THEN NoTxn ELSE txn[u]
      /\ \A u \in Threads : Busy(u)' => u # t /\ Busy(u)
      /\ phase' = "tool" => phase = "tool"
  BY <1>1, ClosesFacts
<1>3. source \in Seq(Nat) /\ Range(source) \subseteq 1..Len(tree) /\ live \in Seq(Nat)
  BY ShapeFacts
<1>4. Stored' = Stored /\ Said' = Said
  BY <1>1 DEF Stored, Said
<1>5. Only(Only(source, shown), Said) = Only(source, Said) /\ Range(Only(source, shown)) \subseteq Range(source)
  <2>1. shown \intersect Said = Said
    BY DEF Said, Of
  <2> HIDE DEF shown, source
  <2>2. QED
    BY <1>3, <2>1, OnlyTwice, OnlyFacts
<1>6. ~notice' => 0 \notin Range(live')
  <2>1. 0 \notin Range(source) /\ 0 \notin Range(Only(source, shown))
    <3> HIDE DEF source, shown
    <3>1. 0 \notin 1..Len(tree)
      BY ShapeFacts
    <3>2. QED
      BY <1>3, <1>5, <3>1
  <2>2. ~notice' => 0 \notin Range(live)
    BY <1>1 DEF Agreement
  <2>3. QED
    BY <1>1, <2>1, <2>2
<1>7. ~raced' => ~raced /\ 0 \notin Range(live')
  BY <1>1, <1>6
<1>8. ~raced' => \A i \in DOMAIN live' : live'[i] = 0 => i = Len(live')
  BY <1>7 DEF Range
<1>9. ~raced => Only(source, Said) = Only(Stored, Said) /\ Only(live, Said) = Only(Stored, Said)
  BY <1>1 DEF Agreement
<1>10. ~raced' => Only(live', Said') = Only(Stored', Said')
  BY <1>1, <1>4, <1>5, <1>7, <1>9
<1>11. \A u \in Threads : Busy(u)' /\ ~raced' => Only(txn'[u].source, Said') = Only(Stored', Said')
  BY <1>2, <1>4, <1>7 DEF Agreement
<1>12. ~(~raced' /\ phase' = "tool")
  BY <1>1, <1>2, <1>7 DEF Agreement, Compacting
<1>13. QED
  BY <1>6, <1>8, <1>10, <1>11, <1>12 DEF Agreement

\* After a compaction live is the stored context; a copy of another thread counts as
\* raced.
LEMMA AppliesAgrees ==
    ASSUME Shape, Agreement, NEW t \in Threads, NEW p \in Nat, Applies(t, p)
    PROVE  Agreement'
<1>1. live' = Stored' /\ Range(Stored') \subseteq 1..(Len(tree) + 1)
  BY AppliesTree
<1>2. /\ Busy(t) /\ txn' = Closes(t) /\ phase' = PhaseAfter(t, TRUE)
      /\ raced' = (raced \/ \E u \in Threads \ {t} : Busy(u))
  BY DEF Applies
<1>3. /\ \A u \in Threads : Busy(u)' => u # t /\ Busy(u)
      /\ phase' = "tool" => phase = "tool"
  BY <1>2, ClosesFacts
<1>4. 0 \notin Range(live') /\ \A i \in DOMAIN live' : live'[i] # 0
  <2>1. 0 \notin Range(live')
    BY <1>1
  <2>2. QED
    BY <2>1 DEF Range
<1>5. \A u \in Threads : ~(Busy(u)' /\ ~raced')
  BY <1>2, <1>3
<1>6. ~(~raced' /\ phase' = "tool")
  BY <1>2, <1>3 DEF Agreement, Compacting
<1>7. QED
  BY <1>1, <1>4, <1>5, <1>6 DEF Agreement

\* Every step keeps the agreement of live, the copies and the store.
LEMMA AgreementStep ==
    ASSUME Shape, Agreement, Failure, [ContextNext]_contextVars
    PROVE  Agreement'
<1>0. /\ Len(tree) \in Nat /\ 0 \in 0..Len(tree) /\ DOMAIN tree = 1..Len(tree) /\ Well(tree) /\ MaxEntries \in Nat
      /\ live \in Seq(Nat) /\ leaf \in 0..Len(tree)
  BY ShapeFacts
<1>1. CASE UNCHANGED contextVars
  BY <1>1, QuietAgrees DEF contextVars
<1>2. CASE TurnStarts
  BY <1>2, QuietAgrees DEF TurnStarts
<1>3. CASE Prompts
  BY <1>0, <1>3, PutMessageAgrees DEF EntryKinds, Prompts, Turn
<1>4. CASE Replies
  BY <1>0, <1>4, PutMessageAgrees DEF EntryKinds, Replies, Turn
<1>5. CASE Calls
  BY <1>0, <1>5, PutMessageAgrees DEF EntryKinds, Calls, Turn
<1>6. CASE Results
  <2>1. "result" \in EntryKinds \ {"compaction", "setting"} /\ phase = "tool" /\ phase' = "run"
        /\ PutMessage("result", Max(CallEntries)) /\ UNCHANGED <<txn, notice>>
    BY <1>6 DEF EntryKinds, Results, Turn, CallEntries
  <2>2. Max(CallEntries) \in 0..Len(tree)
    BY <2>1, CallFacts DEF Shape
  <2>3. ~raced => Max(CallEntries) \in Range(Stored)
    BY <2>1 DEF Agreement
  <2>4. Range(Stored) \subseteq Range(Messages(tree, leaf))
    BY <1>0, ContextFacts DEF Stored
  <2>5. QED
    BY <2>1, <2>2, <2>3, <2>4, PutMessageAgrees
<1>7. CASE Fails
  BY <1>0, <1>7, PutMessageAgrees DEF EntryKinds, Fails, Turn
<1>8. CASE Retries
  BY <1>8, RetriesAgrees
<1>9. CASE GivesUp
  BY <1>9, QuietAgrees DEF GivesUp
<1>10. CASE TurnEnds
  BY <1>10, QuietAgrees DEF TurnEnds
<1>11. CASE Sets
  BY <1>11, SetsAgrees
<1>12. CASE RecordsBash
  BY <1>0, <1>12, PutMessageAgrees DEF EntryKinds, RecordsBash
<1>13. CASE NoticeComes
  BY <1>13, NoticeComesAgrees
<1>14. CASE NoticeStored
  BY <1>14, NoticeStoredAgrees
<1>15. ASSUME NEW e \in DOMAIN tree, Navigates(e) PROVE Agreement'
  <2>1. PICK l : l = (IF Kind(e) \in {"user", "notice"} THEN tree[e].parent ELSE e) /\ Rebuild(l)
    BY <1>15 DEF Navigates
  <2>2. e \in 1..Len(tree) /\ tree[e].parent \in 0..(e - 1)
    BY <1>0, <1>15, EntryFacts
  <2>3. l \in 0..Len(tree)
    BY <1>0, <2>1, <2>2
  <2>4. QED
    BY <2>1, <2>3, RebuildAgrees
<1>16. CASE Resumes
  <2>1. Len(tree) \in 0..Len(tree)
    BY <1>0
  <2>2. QED
    BY <1>16, <2>1, RebuildAgrees DEF Resumes
<1>17. ASSUME NEW v \in {"manual", "deep"}, UserCompacts(v) PROVE Agreement'
  <2>1. "user" \in Threads /\ Copies("user", v, live) /\ phase # "tool"
    BY <1>17 DEF Threads, UserCompacts
  <2>2. QED
    BY <2>1, CopiesAgrees
<1>18. CASE AutoCompacts
  <2>1. "turn" \in Threads /\ Copies("turn", "auto", live) /\ phase # "tool"
    BY <1>18 DEF Threads, AutoCompacts
  <2>2. QED
    BY <2>1, CopiesAgrees
<1>19. CASE RecoversOverflow
  <2>1. "turn" \in Threads /\ Copies("turn", "overflow", RemoveAt(live, LastAssistant)) /\ phase # "tool" /\ LastFailed
    BY <1>19 DEF Threads, RecoversOverflow
  <2>2. LastAssistant \in 1..Len(live) /\ live[LastAssistant] \notin Said
    BY <2>1, LastAssistantFacts, KindFacts
  <2>3. Only(RemoveAt(live, LastAssistant), Said) = Only(live, Said)
    BY <1>0, <2>2, RemoveFacts
  <2>4. QED
    BY <2>1, <2>3, CopiesAgrees
<1>20. CASE CompactsFailedTurn
  <2>1. "turn" \in Threads /\ Copies("turn", "error", live) /\ phase # "tool"
    BY <1>20 DEF Threads, CompactsFailedTurn
  <2>2. QED
    BY <2>1, CopiesAgrees
<1>21. ASSUME NEW t \in Threads, NEW p \in 1..(MaxEntries + 1), Applies(t, p) PROVE Agreement'
  BY <1>0, <1>21, AppliesAgrees
<1>22. ASSUME NEW t \in Threads, MakesNoChange(t) PROVE Agreement'
  BY <1>22, MakesNoChangeAgrees
<1>23. QED
  BY <1>1, <1>2, <1>3, <1>4, <1>5, <1>6, <1>7, <1>8, <1>9, <1>10, <1>11, <1>12, <1>13, <1>14,
     <1>15, <1>16, <1>17, <1>18, <1>19, <1>20, <1>21, <1>22 DEF ContextNext

-----------------------------------------------------------------------------
(* Failure is kept.                                                        *)

\* The failed message is stored last.
LEMMA FailsFailure ==
    ASSUME Shape, Fails
    PROVE  Failure'
<1> DEFINE new == Len(tree) + 1
<1>0. Len(tree) \in Nat /\ 0 \in 0..Len(tree) /\ "failed" \in EntryKinds \ {"compaction"} /\ live \in Seq(Nat)
      /\ Well(tree) /\ leaf \in 0..Len(tree)
  BY ShapeFacts DEF EntryKinds
<1>1. Put("failed", 0) /\ live' = Append(live, new) /\ raced' = (raced \/ Compacting \/ notice) /\ UNCHANGED txn
  BY DEF Fails, Turn, PutMessage
<1>2. /\ new \in Nat
      /\ BranchIn(tree', leaf') = Append(BranchIn(tree, leaf), new)
      /\ \A L : Of(tree', L) = Of(tree, L) \union (IF "failed" \in L THEN {new} ELSE {})
  BY <1>0, <1>1, Puts
<1>3. BranchIn(tree, leaf) \in Seq(Nat)
  BY <1>0, BranchFits DEF Fits
<1>4. new \in Range(BranchIn(tree', leaf'))
  BY <1>2, <1>3, RangeAppend
<1>5. new \in Failed' /\ Assistant' = Assistant \union {new} /\ new \in Assistant'
  BY <1>2 DEF Failed, Assistant
<1>6. \A e \in Assistant' : e <= new
  <2>1. Assistant \subseteq 1..Len(tree)
    BY KindFacts DEF Assistant
  <2>2. QED
    BY <1>0, <1>5, <2>1
<1>7. FailedLast(live)'
  <2> DEFINE s == Only(live, Assistant')
             a == Only(live', Assistant')
  <2>1. s \in Seq(Nat)
    BY <1>0, OnlyFacts
  <2>2. a = Append(s, new)
    <3> HIDE DEF new
    <3>1. Only(Append(live, new), Assistant') = IF new \in Assistant' THEN Append(s, new) ELSE s
      BY <1>0, <1>2, OnlyAppend
    <3>2. QED
      BY <1>1, <1>5, <3>1
  <2> HIDE DEF s, a
  <2>3. a \in Seq(Nat) /\ Len(a) = Len(s) + 1 /\ a[Len(s) + 1] = new
    BY <1>2, <2>1, <2>2
  <2>4. a[Len(a)] \in Failed'
    BY <1>5, <2>3
  <2>5. QED
    BY <2>4 DEF FailedLast, a
<1>8. ~raced' => ~Busy("user")'
  BY <1>1 DEF Compacting, Busy, Threads
<1>9. QED
  BY <1>4, <1>5, <1>6, <1>7, <1>8 DEF Failure

\* An entry of no assistant at the end of the branch.
LEMMA FailureKept ==
    ASSUME Shape, Failure, phase = "failed", Well(tree), leaf \in 0..Len(tree), NEW new \in Nat,
           BranchIn(tree', leaf') = Append(BranchIn(tree, leaf), new),
           Assistant' = Assistant, Failed' = Failed
    PROVE  \E m \in Range(BranchIn(tree', leaf')) \intersect Failed' : \A e \in Assistant' : e <= m
<1>1. BranchIn(tree, leaf) \in Seq(Nat)
  BY BranchFits DEF Fits
<1>2. Range(BranchIn(tree', leaf')) = Range(BranchIn(tree, leaf)) \union {new}
  BY <1>1, RangeAppend
<1>3. QED
  BY <1>2 DEF Failure

\* A setting does not come after the failure as a message.
LEMMA SetsFailure ==
    ASSUME Shape, Failure, Sets
    PROVE  Failure'
<1>0. Len(tree) \in Nat /\ 0 \in 0..Len(tree) /\ "setting" \in EntryKinds \ {"compaction"} /\ Well(tree) /\ leaf \in 0..Len(tree)
  BY ShapeFacts DEF EntryKinds
<1>1. Put("setting", 0) /\ UNCHANGED <<live, phase, txn, raced>>
  BY DEF Sets
<1>2. /\ Len(tree) + 1 \in Nat
      /\ BranchIn(tree', leaf') = Append(BranchIn(tree, leaf), Len(tree) + 1)
      /\ \A L : Of(tree', L) = Of(tree, L) \union (IF "setting" \in L THEN {Len(tree) + 1} ELSE {})
  BY <1>0, <1>1, Puts
<1>3. Assistant' = Assistant /\ Failed' = Failed
  BY <1>2 DEF Assistant, Failed
<1>4. phase' = "failed" => \E m \in Range(BranchIn(tree', leaf')) \intersect Failed' : \A e \in Assistant' : e <= m
  BY <1>0, <1>1, <1>2, <1>3, FailureKept
<1>5. FailedLast(live)' = FailedLast(live) /\ FailedLast(txn["user"].source)' = FailedLast(txn["user"].source)
  BY <1>1, <1>3 DEF FailedLast
<1>6. QED
  BY <1>1, <1>4, <1>5 DEF Failure, Busy

\* A notice is no message of an assistant.
LEMMA NoticeComesFailure ==
    ASSUME Shape, Failure, NoticeComes
    PROVE  Failure'
<1>1. live' = Append(live, 0) /\ UNCHANGED <<tree, leaf, phase, txn, raced>>
  BY DEF NoticeComes
<1>2. Assistant' = Assistant /\ Failed' = Failed /\ 0 \notin Assistant /\ live \in Seq(Nat)
  BY <1>1, KindFacts, ShapeFacts DEF Assistant, Failed
<1>3. Only(live', Assistant) = Only(live, Assistant)
  BY <1>1, <1>2, OnlyAppend
<1>4. FailedLast(live)' = FailedLast(live) /\ FailedLast(txn["user"].source)' = FailedLast(txn["user"].source)
  BY <1>1, <1>2, <1>3 DEF FailedLast
<1>5. QED
  BY <1>1, <1>2, <1>4 DEF Failure, Busy

\* Storing a notice leaves the failed message the last of an assistant.
LEMMA NoticeStoredFailure ==
    ASSUME Shape, Agreement, Failure, NoticeStored
    PROVE  Failure'
<1> DEFINE new == Len(tree) + 1
<1>0. Len(tree) \in Nat /\ 0 \in 0..Len(tree) /\ "notice" \in EntryKinds \ {"compaction"} /\ Well(tree) /\ leaf \in 0..Len(tree)
  BY ShapeFacts DEF EntryKinds
<1>1. Put("notice", 0) /\ UNCHANGED <<phase, txn>>
  BY DEF NoticeStored
<1>2. /\ new \in Nat
      /\ BranchIn(tree', leaf') = Append(BranchIn(tree, leaf), new)
      /\ \A L : Of(tree', L) = Of(tree, L) \union (IF "notice" \in L THEN {new} ELSE {})
  BY <1>0, <1>1, Puts
<1>3. Assistant' = Assistant /\ Failed' = Failed /\ Assistant \subseteq 1..Len(tree)
  BY <1>2, KindFacts DEF Assistant, Failed
<1>4. phase' = "failed" => \E m \in Range(BranchIn(tree', leaf')) \intersect Failed' : \A e \in Assistant' : e <= m
  BY <1>0, <1>1, <1>2, <1>3, FailureKept
<1>5. ASSUME phase' = "failed", ~raced' PROVE FailedLast(live)' /\ ~Busy("user")'
  <2>1. ~raced /\ ~Compacting
    BY <1>5, NoticeLast
  <2>2. PICK u \in Seq(Nat) : live = Append(u, 0) /\ live' = Append(u, new)
    BY <1>5, NoticeLast
  <2>3. 0 \notin Assistant /\ new \notin Assistant
    BY <1>0, <1>3
  <2> HIDE DEF new
  <2>4. Only(Append(u, 0), Assistant) = Only(u, Assistant)
    BY <2>3, OnlyAppend
  <2>5. Only(Append(u, new), Assistant) = Only(u, Assistant)
    BY <1>2, <2>3, OnlyAppend
  <2>6. FailedLast(live)
    BY <1>1, <1>5, <2>1 DEF Failure
  <2>7. FailedLast(live)'
    BY <1>3, <2>2, <2>4, <2>5, <2>6 DEF FailedLast
  <2>8. ~Busy("user")'
    BY <1>1, <2>1 DEF Compacting, Busy, Threads
  <2>9. QED
    BY <2>7, <2>8
<1>6. QED
  BY <1>4, <1>5 DEF Failure

\* During a failure only the user copies, and copies live.
LEMMA CopiesFailure ==
    ASSUME Shape, Failure, NEW t \in Threads, NEW variant, NEW source, Copies(t, variant, source),
           phase = "failed" => t = "user" /\ source = live
    PROVE  Failure'
<1>1. /\ txn' = [txn EXCEPT ![t] = [variant |-> variant, source |-> source]]
      /\ UNCHANGED <<tree, leaf, live, phase, raced>>
  BY DEF Copies
<1>2. DOMAIN txn = Threads /\ "user" \in Threads
  BY ShapeFacts DEF Threads
<1>3. Assistant' = Assistant /\ Failed' = Failed
  BY <1>1 DEF Assistant, Failed
<1>4. phase' = "failed" /\ ~raced' => FailedLast(live)' /\ FailedLast(txn["user"].source)'
  <2>1. SUFFICES ASSUME phase = "failed", ~raced PROVE FailedLast(live)' /\ FailedLast(txn["user"].source)'
    BY <1>1
  <2>2. FailedLast(live)
    BY <2>1 DEF Failure
  <2>3. txn'["user"].source = live
    BY <1>1, <1>2, <2>1
  <2>4. QED
    BY <1>1, <1>3, <2>2, <2>3 DEF FailedLast
<1>5. QED
  BY <1>1, <1>3, <1>4 DEF Failure

\* The copy put back in live ends with the failed message as well.
LEMMA MakesNoChangeFailure ==
    ASSUME Shape, Failure, NEW t \in Threads, MakesNoChange(t)
    PROVE  Failure'
<1> DEFINE source == txn[t].source
           shown == Of(tree, EntryKinds \ {"hidden"})
<1>1. /\ Busy(t) /\ txn' = Closes(t) /\ phase' = PhaseAfter(t, FALSE) /\ raced' = (raced \/ notice)
      /\ UNCHANGED <<tree, leaf>>
      /\ live' = live \/ live' = Only(source, shown) \/ live' = source
  BY DEF MakesNoChange
<1>2. /\ \A u \in Threads : Busy(u)' => u # t /\ Busy(u)
      /\ phase' = "failed" => phase = "failed" /\ t = "user"
  BY <1>1, ClosesFacts
<1>3. Assistant' = Assistant /\ Failed' = Failed /\ source \in Seq(Nat) /\ "user" \in Threads
  BY <1>1, ShapeFacts DEF Assistant, Failed, Threads
<1>4. Only(Only(source, shown), Assistant) = Only(source, Assistant)
  <2>1. shown \intersect Assistant = Assistant
    BY DEF Assistant, Of, EntryKinds
  <2> HIDE DEF shown, source
  <2>2. QED
    BY <1>3, <2>1, OnlyTwice
<1>5. ASSUME phase' = "failed", ~raced' PROVE FailedLast(live)' /\ ~Busy("user")'
  <2>1. phase = "failed" /\ t = "user" /\ ~raced /\ ~Busy("user")'
    BY <1>1, <1>2, <1>3, <1>5
  <2>2. FailedLast(live) /\ FailedLast(source)
    BY <1>1, <2>1 DEF Failure
  <2>3. Only(live', Assistant) = Only(live, Assistant) \/ Only(live', Assistant) = Only(source, Assistant)
    BY <1>1, <1>4
  <2>4. QED
    BY <1>3, <2>1, <2>2, <2>3 DEF FailedLast
<1>6. QED
  BY <1>1, <1>2, <1>3, <1>5 DEF Failure

\* The context starts with a compaction, or is in order.
LEMMA TopFacts ==
    ASSUME NEW t, Well(t), NEW l \in 0..Len(t)
    PROVE  LET h == Top(t, BranchIn(t, l)) IN h = 0 \/ t[h].kind = "compaction"
<1>1. BranchIn(t, l) \in Seq(Nat)
  BY BranchFits DEF Fits
<1>2. QED
  BY <1>1, LastCompactionFacts DEF Top

\* If a compaction keeps any message of an assistant, it keeps the last one.
LEMMA AppliesFailure ==
    ASSUME Shape, Failure, NEW t \in Threads, NEW p \in Nat, Applies(t, p)
    PROVE  Failure'
<1> DEFINE x == CompactionEntry(t, p)
           new == Len(tree) + 1
           b == BranchIn(tree, leaf)
           h == Top(tree', BranchIn(tree', leaf'))
<1>0. Len(tree) \in Nat /\ Well(tree) /\ leaf \in 0..Len(tree)
  BY ShapeFacts
<1>1. /\ x \in Entry /\ x.parent \in 0..Len(tree) /\ x.ref \in 0..Len(tree) /\ x.kind = "compaction"
      /\ tree' = Append(tree, x) /\ leaf' = new /\ Len(tree') = new /\ Well(tree')
      /\ new \in Nat /\ \A e \in 1..Len(tree) : tree'[e] = tree[e]
      /\ \A K : Of(tree', K) = Of(tree, K) \union (IF "compaction" \in K THEN {new} ELSE {})
      /\ live' = Stored' /\ Stored' \in Seq(Nat)
  BY AppliesTree
<1>2. /\ Busy(t) /\ txn' = Closes(t) /\ phase' = PhaseAfter(t, TRUE)
  BY DEF Applies
<1>3. /\ \A u \in Threads : Busy(u)' => u # t /\ Busy(u)
      /\ phase' = "failed" => phase = "failed" /\ t = "user"
  BY <1>2, ClosesFacts
<1>4. Assistant' = Assistant /\ Failed' = Failed /\ Assistant \subseteq 1..Len(tree) /\ Failed \subseteq Assistant
  <2>1. Of(tree', {"reply", "call", "failed"}) = Of(tree, {"reply", "call", "failed"}) /\ Of(tree', {"failed"}) = Of(tree, {"failed"})
    BY <1>1
  <2>2. Assistant \subseteq 1..Len(tree) /\ Failed \subseteq Assistant
    BY KindFacts DEF Assistant
  <2>3. QED
    BY <2>1, <2>2 DEF Assistant, Failed
<1>5. SUFFICES ASSUME phase' = "failed" PROVE Failure'
  BY DEF Failure
<1>6. phase = "failed" /\ t = "user" /\ ~Busy("user")' /\ "user" \in Threads
  BY <1>3, <1>5 DEF Threads
<1>7. x.parent = leaf
  <2>1. txn[t].variant \in {"manual", "deep"}
    BY <1>2, <1>6 DEF Shape
  <2>2. QED
    BY <2>1 DEF CompactionEntry, ParentFor
<1> HIDE DEF x
<1>8. x.parent <= Len(tree) /\ x.ref <= Len(tree)
  BY <1>0, <1>1
<1>9. BranchIn(tree', leaf') = Append(b, new)
  BY <1>0, <1>1, <1>7, <1>8, BranchGrown
<1>10. PICK m \in Range(b) \intersect Failed : \A e \in Assistant : e <= m
  BY <1>6 DEF Failure
<1>11. \E k \in Range(BranchIn(tree', leaf')) \intersect Failed' : \A e \in Assistant' : e <= k
  BY <1>0, <1>1, <1>4, <1>6, <1>9, FailureKept
<1>12. Range(Messages(tree', leaf')) =
           {new} \union {e \in Range(b) : x.ref \in Range(b) /\ x.ref <= e /\ tree[e].kind # "setting"}
  <2> HIDE DEF b
  <2>1. Range(Messages(Append(tree, x), Len(tree) + 1)) =
            {Len(tree) + 1} \union {e \in Range(BranchIn(tree, x.parent)) :
                x.ref \in Range(BranchIn(tree, x.parent)) /\ x.ref <= e /\ tree[e].kind # "setting"}
    BY <1>0, <1>1, <1>8, MessagesCompacted
  <2>2. QED
    BY <1>1, <1>7, <2>1 DEF b
<1>13. leaf' \in 0..Len(tree')
  BY <1>0, <1>1
<1>14. /\ Range(Stored') = {e \in Range(Messages(tree', leaf')) :
                                tree'[e].kind = "result" => tree'[e].ref \in Range(Messages(tree', leaf'))}
       /\ Arrayed(Stored', Headed(h))
  <2>1. Stored' = ContextOf(tree', leaf')
    BY DEF Stored
  <2>2. Well(tree')
    BY <1>1
  <2>3. QED
    BY <1>13, <2>1, <2>2, ContextFacts
<1>15. h \notin Assistant
  <2>1. h = 0 \/ tree'[h].kind = "compaction"
    BY <1>1, <1>13, TopFacts
  <2>2. 0 \notin Assistant /\ \A e \in Assistant : e \in 1..Len(tree) /\ tree[e].kind # "compaction"
    BY <1>4 DEF Assistant, Of
  <2>3. QED
    BY <1>1, <2>1, <2>2
<1>16. tree[m].kind = "failed" /\ m \in 1..Len(tree) /\ m \in Assistant /\ m \in Nat
  BY <1>4, <1>10 DEF Failed, Of
<1> DEFINE a == Only(Stored', Assistant)
<1>17. a \in Seq(Nat) /\ Range(a) = Range(Stored') \intersect Assistant /\ Arrayed(a, Headed(h))
  <2> HIDE DEF h
  <2>1. QED
    BY <1>1, <1>14, OnlyFacts, OnlyArrayed
<1> HIDE DEF a, h, b
<1>18. ASSUME a # <<>> PROVE a[Len(a)] \in Failed
  <2>1. Len(a) \in 1..Len(a) /\ Len(a) \in Nat /\ DOMAIN a = 1..Len(a) /\ a[Len(a)] \in Range(a)
    BY <1>17, <1>18, Places
  <2> DEFINE y == a[Len(a)]
  <2>2. y \in Range(Messages(tree', leaf')) /\ y \in Assistant /\ y <= m /\ y \in 1..Len(tree)
    BY <1>4, <1>10, <1>14, <1>17, <2>1
  <2>3. y \in Range(b) /\ x.ref \in Range(b) /\ x.ref <= y
    BY <1>0, <1>12, <2>2
  <2>4. x.ref <= m
    BY <1>1, <1>16, <2>2, <2>3
  <2>5. m \in Range(Messages(tree', leaf'))
    BY <1>10, <1>12, <1>16, <2>3, <2>4
  <2>6. m \in Range(Stored')
    <3>1. tree'[m].kind # "result"
      BY <1>1, <1>16
    <3>2. QED
      BY <1>14, <2>5, <3>1
  <2>7. m \in Range(a)
    BY <1>16, <1>17, <2>6
  <2>8. PICK k \in 1..Len(a) : m = a[k]
    BY <1>17, <2>7, Places
  <2>9. k = Len(a)
    <3>0. k = Len(a) \/ k < Len(a)
      <4>1. \A n \in Nat : \A i \in 1..n : i = n \/ i < n
        OBVIOUS
      <4>2. QED
        BY <2>1, <2>8, <4>1
    <3>1. SUFFICES ASSUME k < Len(a) PROVE FALSE
      BY <3>0
    <3>2. <<a[k], a[Len(a)]>> \in Headed(h)
      BY <1>17, <2>1, <2>8, <3>1 DEF Arrayed
    <3>3. m < y \/ m = h
      BY <2>8, <3>2 DEF Headed
    <3>4. m < y
      BY <1>15, <1>16, <3>3
    <3>5. QED
      BY <1>16, <2>2, <3>4
  <2>10. QED
    BY <1>10, <2>8, <2>9
<1>19. FailedLast(live)'
  BY <1>1, <1>4, <1>18 DEF FailedLast, a
<1>20. QED
  BY <1>6, <1>11, <1>19 DEF Failure

\* Every step keeps the failed message the last one of an assistant.
LEMMA FailureStep ==
    ASSUME Shape, Agreement, Failure, [ContextNext]_contextVars
    PROVE  Failure'
<1>0. MaxEntries \in Nat
  BY ContextAssumption
<1>1. CASE UNCHANGED contextVars
  BY <1>1 DEF contextVars, Failure, FailedLast, Assistant, Failed, Busy
<1>2. CASE phase' # "failed"
  BY <1>2 DEF Failure
<1>7. CASE Fails
  BY <1>7, FailsFailure
<1>11. CASE Sets
  BY <1>11, SetsFailure
<1>13. CASE NoticeComes
  BY <1>13, NoticeComesFailure
<1>14. CASE NoticeStored
  BY <1>14, NoticeStoredFailure
<1>17. ASSUME NEW v \in {"manual", "deep"}, UserCompacts(v) PROVE Failure'
  <2>1. "user" \in Threads /\ Copies("user", v, live)
    BY <1>17 DEF Threads, UserCompacts
  <2>2. QED
    BY <2>1, CopiesFailure
<1>18. CASE AutoCompacts \/ RecoversOverflow \/ CompactsFailedTurn
  BY <1>2, <1>18 DEF AutoCompacts, RecoversOverflow, CompactsFailedTurn, Copies
<1>21. ASSUME NEW t \in Threads, NEW p \in 1..(MaxEntries + 1), Applies(t, p) PROVE Failure'
  BY <1>0, <1>21, AppliesFailure
<1>22. ASSUME NEW t \in Threads, MakesNoChange(t) PROVE Failure'
  BY <1>22, MakesNoChangeFailure
<1>23. CASE TurnStarts \/ Prompts \/ Replies \/ Calls \/ Results \/ Retries \/ GivesUp \/ TurnEnds
  BY <1>2, <1>23 DEF TurnStarts, Prompts, Replies, Calls, Results, Retries, GivesUp, TurnEnds, Turn
<1>24. CASE RecordsBash
  BY <1>2, <1>24 DEF RecordsBash
<1>25. ASSUME NEW e \in DOMAIN tree, Navigates(e) PROVE Failure'
  BY <1>2, <1>25 DEF Navigates, Rebuild
<1>26. CASE Resumes
  BY <1>2, <1>26 DEF Resumes, Rebuild
<1>27. QED
  BY <1>1, <1>7, <1>11, <1>13, <1>14, <1>17, <1>18, <1>21, <1>22, <1>23, <1>24, <1>25, <1>26 DEF ContextNext

-----------------------------------------------------------------------------
(* Kept is kept: what a compaction leaves in the context.                  *)

\* The entries that a context keeps begin on the branch.
LEMMA StartBound ==
    ASSUME NEW t, NEW b \in Seq(Nat)
    PROVE  Start(t, b) = 0 \/ Start(t, b) \in Range(b)
<1>1. LastCompaction(t, b) \in 0..Len(b) /\ Len(b) \in Nat
  BY LastCompactionFacts
<1>2. LastCompaction(t, b) # 0 => b[LastCompaction(t, b)] \in Range(b)
  BY <1>1, Places
<1>3. QED
  BY <1>2 DEF Start

\* The parent of a compaction is in the branch, and its branch is the part
\* of the branch up to there.
LEMMA ParentBranch ==
    ASSUME Shape, NEW t \in Threads
    PROVE  LET P == ParentFor(txn[t].variant, txn[t].source, Stored)
               b == BranchIn(tree, leaf)
           IN  P \in 0..Len(tree) /\ Range(BranchIn(tree, P)) = {e \in Range(b) : e <= P}
<1> DEFINE P == ParentFor(txn[t].variant, txn[t].source, Stored)
           b == BranchIn(tree, leaf)
<1>1. Well(tree) /\ Len(tree) \in Nat /\ leaf \in 0..Len(tree)
  BY ShapeFacts
<1>2. Range(b) \subseteq 1..leaf
  BY <1>1, BranchFits
<1>3. DOMAIN Stored = 1..Len(Stored) /\ \A i \in 1..Len(Stored) : Stored[i] \in Range(Stored) /\ Stored[i] \in 1..Len(tree)
  BY StoredFacts
<1>4. Range(Stored) \subseteq Range(b)
  BY <1>1, ContextFacts DEF Stored
<1>5. P = leaf \/ (P \in Range(b) /\ P \in 1..Len(tree))
  BY <1>3, <1>4 DEF ParentFor
<1> HIDE DEF P
<1>6. CASE P = leaf
  <2>1. \A e \in Range(b) : e <= leaf
    BY <1>1, <1>2
  <2>2. Range(BranchIn(tree, P)) = {e \in Range(b) : e <= P}
    BY <1>6, <2>1
  <2>3. QED
    BY <1>1, <1>6, <2>2 DEF P
<1>7. CASE P \in Range(b) /\ P \in 1..Len(tree)
  <2>1. Range(BranchIn(tree, P)) = {e \in Range(b) : e <= P}
    BY <1>1, <1>7, Ancestors
  <2>2. P \in 0..Len(tree)
    BY <1>1, <1>7
  <2>3. QED
    BY <2>1, <2>2 DEF P
<1>8. QED
  BY <1>5, <1>6, <1>7

\* What the context is after a compaction.
LEMMA CompactedContext ==
    ASSUME Shape, NEW t \in Threads, NEW p \in Nat, Applies(t, p)
    PROVE  LET K == FirstKept(txn[t].variant, txn[t].source, p, Stored)
               P == ParentFor(txn[t].variant, txn[t].source, Stored)
               b == BranchIn(tree, leaf)
               N == Range(Messages(tree', leaf'))
           IN  /\ N = {Len(tree) + 1} \union {e \in Range(b) : K \in Range(b) /\ K <= P /\ K <= e /\ e <= P /\ tree[e].kind # "setting"}
               /\ Range(Stored') = {e \in N : tree'[e].kind = "result" => tree'[e].ref \in N}
<1> DEFINE x == CompactionEntry(t, p)
           new == Len(tree) + 1
           K == FirstKept(txn[t].variant, txn[t].source, p, Stored)
           P == ParentFor(txn[t].variant, txn[t].source, Stored)
           b == BranchIn(tree, leaf)
           N == Range(Messages(tree', leaf'))
<1>0. Len(tree) \in Nat /\ Well(tree) /\ leaf \in 0..Len(tree)
  BY ShapeFacts
<1>1. /\ x \in Entry /\ x.parent \in 0..Len(tree) /\ x.ref \in 0..Len(tree) /\ x.kind = "compaction"
      /\ tree' = Append(tree, x) /\ leaf' = new /\ Len(tree') = new /\ Well(tree')
  BY AppliesTree
<1>2. x.ref = K /\ x.parent = P
  BY DEF CompactionEntry
<1>3. P \in 0..Len(tree) /\ Range(BranchIn(tree, P)) = {e \in Range(b) : e <= P}
  BY ParentBranch
<1> HIDE DEF x, K, P, b
<1>4. x.parent <= Len(tree) /\ x.ref <= Len(tree)
  BY <1>0, <1>1
<1>5. Range(Messages(Append(tree, x), Len(tree) + 1)) =
            {Len(tree) + 1} \union {e \in Range(BranchIn(tree, x.parent)) :
                x.ref \in Range(BranchIn(tree, x.parent)) /\ x.ref <= e /\ tree[e].kind # "setting"}
  BY <1>0, <1>1, <1>4, MessagesCompacted
<1>6. N = {new} \union {e \in Range(BranchIn(tree, P)) :
                            K \in Range(BranchIn(tree, P)) /\ K <= e /\ tree[e].kind # "setting"}
  BY <1>1, <1>2, <1>5
<1>7. N = {new} \union {e \in Range(b) : K \in Range(b) /\ K <= P /\ K <= e /\ e <= P /\ tree[e].kind # "setting"}
  BY <1>3, <1>6
<1>8. leaf' \in 0..Len(tree')
  BY <1>0, <1>1
<1>9. Stored' = ContextOf(tree', leaf') /\ Well(tree')
  BY <1>1 DEF Stored
<1>10. Range(Stored') = {e \in N : tree'[e].kind = "result" => tree'[e].ref \in N}
  BY <1>8, <1>9, ContextFacts
<1>11. QED
  BY <1>7, <1>10 DEF K, P, b

\* A compaction brings nothing into the context but its summary.
LEMMA NothingComesBack ==
    ASSUME Shape, NEW t \in Threads, NEW p \in Nat, Applies(t, p)
    PROVE  Range(Stored') \subseteq Range(Stored) \union {Len(tree) + 1}
<1> DEFINE new == Len(tree) + 1
           K == FirstKept(txn[t].variant, txn[t].source, p, Stored)
           P == ParentFor(txn[t].variant, txn[t].source, Stored)
           b == BranchIn(tree, leaf)
           N == Range(Messages(tree', leaf'))
           M == Range(Messages(tree, leaf))
<1>0. Len(tree) \in Nat /\ Well(tree) /\ leaf \in 0..Len(tree)
  BY ShapeFacts
<1>1. /\ N = {new} \union {e \in Range(b) : K \in Range(b) /\ K <= P /\ K <= e /\ e <= P /\ tree[e].kind # "setting"}
      /\ Range(Stored') = {e \in N : tree'[e].kind = "result" => tree'[e].ref \in N}
  BY CompactedContext
<1>2. \A e \in 1..Len(tree) : tree'[e] = tree[e]
  BY AppliesTree
<1>3. /\ M = {e \in Range(b) : Start(tree, b) <= e /\ tree[e].kind # "setting"}
      /\ Range(Stored) = {e \in M : tree[e].kind = "result" => tree[e].ref \in M}
  BY <1>0, MessagesFacts, ContextFacts DEF Stored
<1>4. b \in Seq(Nat) /\ Range(b) \subseteq 1..leaf
  BY <1>0, BranchFits DEF Fits
<1>5. K = 0 \/ K = leaf \/ K \in Range(Stored)
  <2>1. DOMAIN Stored = 1..Len(Stored) /\ \A i \in 1..Len(Stored) : Stored[i] \in Range(Stored)
    BY StoredFacts
  <2>2. QED
    BY <2>1 DEF FirstKept
<1>6. Start(tree, b) = 0 \/ Start(tree, b) \in Range(b)
  BY <1>4, StartBound
<1> HIDE DEF K, P, b, M, N
<1>7. K \in Range(b) => Start(tree, b) <= K
  <2>1. CASE K \in Range(Stored)
    BY <1>3, <2>1
  <2>2. CASE K = leaf
    BY <1>0, <1>4, <1>6, <2>2
  <2>3. CASE K = 0
    BY <1>0, <1>4, <2>3
  <2>4. QED
    BY <1>5, <2>1, <2>2, <2>3
<1>8. ASSUME NEW e \in N, e # new PROVE e \in M /\ e \in 1..Len(tree)
  <2>1. e \in Range(b) /\ K \in Range(b) /\ K <= e /\ tree[e].kind # "setting"
    BY <1>1, <1>8
  <2>2. e \in Nat /\ K \in Nat /\ e \in 1..Len(tree)
    BY <1>0, <1>4, <2>1
  <2>3. Start(tree, b) \in Nat
    BY <1>0, <1>4, <1>6
  <2>4. Start(tree, b) <= e
    BY <1>7, <2>1, <2>2, <2>3
  <2>5. QED
    BY <1>3, <2>1, <2>2, <2>4
<1>9. ASSUME NEW e \in Range(Stored'), e # new PROVE e \in Range(Stored)
  <2>1. e \in N /\ (tree'[e].kind = "result" => tree'[e].ref \in N)
    BY <1>1, <1>9
  <2>2. e \in M /\ e \in 1..Len(tree) /\ tree'[e] = tree[e]
    BY <1>2, <1>8, <1>9, <2>1
  <2>3. tree[e].ref # new
    <3>1. tree[e].ref \in 0..(e - 1)
      BY <1>0, <2>2, EntryFacts
    <3>2. QED
      BY <1>0, <2>2, <3>1
  <2>4. tree[e].kind = "result" => tree[e].ref \in M
    BY <1>8, <2>1, <2>2, <2>3
  <2>5. QED
    BY <1>3, <2>2, <2>4
<1>10. QED
  BY <1>9

\* What it means that a compaction is applied to the context it copied.
LEMMA Aligned ==
    ASSUME Shape, Agreement, NEW t \in Threads, NEW p \in Nat, Applies(t, p), ~skewed'
    PROVE  LET source == txn[t].source
               seen == SourceIndices(source)
               visible == Range(live) \intersect Of(tree, EntryKinds \ {"hidden", "failed", "compaction"})
           IN  /\ ~skewed
               /\ Len(source) <= Len(Stored) /\ \A i \in 1..Len(source) : source[i] = Stored[i]
               /\ \A y \in Range(Stored) : tree[y].kind \notin {"failed", "hidden"} =>
                      \E k \in 1..Len(seen) : y = source[seen[k]]
               /\ visible \subseteq Range(Stored)
               /\ \A y \in visible : tree[y].kind \notin {"failed", "hidden"}
<1> DEFINE source == txn[t].source
           seen == SourceIndices(source)
           visible == Range(live) \intersect Of(tree, EntryKinds \ {"hidden", "failed", "compaction"})
           S == Of(tree, EntryKinds \ {"failed"})
<1>1. ~skewed /\ ~raced /\ IsPrefix(source, Stored) /\ Only(Stored, S) = Only(source, S)
  BY DEF Applies
<1>2. /\ source \in Seq(Nat) /\ Range(source) \subseteq 1..Len(tree) /\ live \in Seq(Nat)
      /\ Len(tree) \in Nat /\ DOMAIN tree = 1..Len(tree) /\ Well(tree)
  BY ShapeFacts
<1>3. Stored \in Seq(Nat) /\ Range(Stored) \subseteq 1..Len(tree)
  BY StoredFacts
<1>4. \A e \in 1..Len(tree) : tree[e].kind \in EntryKinds
  BY <1>2, EntryFacts
<1>5. Len(source) <= Len(Stored) /\ \A i \in 1..Len(source) : source[i] = Stored[i]
  <2> HIDE DEF source
  <2>0. Len(source) \in Nat /\ Len(Stored) \in Nat
    BY <1>2, <1>3
  <2>1. Len(source) <= Len(Stored) /\ SubSeq(source, 1, Len(source)) = SubSeq(Stored, 1, Len(source))
    BY <1>1 DEF IsPrefix
  <2>2. \A i \in 1..Len(source) : SubSeq(source, 1, Len(source))[i] = source[i]
    BY <1>2, <2>0
  <2>3. \A i \in 1..Len(source) : SubSeq(Stored, 1, Len(source))[i] = Stored[i]
    BY <1>3, <2>0, <2>1
  <2>4. QED
    BY <2>1, <2>2, <2>3
<1>6. ASSUME NEW y \in Range(Stored), tree[y].kind \notin {"failed", "hidden"}
      PROVE  \E k \in 1..Len(seen) : y = source[seen[k]]
  <2>1. y \in S
    <3>1. y \in 1..Len(tree)
      BY <1>3
    <3>2. QED
      BY <1>2, <1>4, <1>6, <3>1 DEF Of
  <2>2. Range(Only(Stored, S)) = Range(Stored) \intersect S
    BY <1>3, OnlyFacts
  <2>3. Range(Only(source, S)) = Range(source) \intersect S
    BY <1>2, OnlyFacts
  <2>4. y \in Range(source)
    BY <1>1, <2>1, <2>2, <2>3
  <2>5. PICK i \in 1..Len(source) : y = source[i]
    BY <1>2, <2>4, Places
  <2>6. Range(seen) = {j \in 1..Len(source) : Kind(source[j]) # "hidden"} /\ \A j \in Range(seen) : \E k \in 1..Len(seen) : j = seen[k]
    BY <1>2, SeenFacts
  <2>7. i \in Range(seen)
    BY <1>6, <2>5, <2>6 DEF Kind
  <2>8. QED
    BY <2>5, <2>6, <2>7
<1>7. ASSUME NEW y \in visible PROVE y \in Range(Stored) /\ tree[y].kind \notin {"failed", "hidden"}
  <2>1. y \in Range(live) /\ y \in DOMAIN tree /\ tree[y].kind \in EntryKinds \ {"hidden", "failed", "compaction"}
    BY <1>7 DEF Of
  <2>2. y \in Said
    BY <2>1 DEF Said, Of
  <2>3. Only(live, Said) = Only(Stored, Said)
    BY <1>1 DEF Agreement
  <2>4. Range(Only(live, Said)) = Range(live) \intersect Said
    BY <1>2, OnlyFacts
  <2>5. Range(Only(Stored, Said)) = Range(Stored) \intersect Said
    BY <1>3, OnlyFacts
  <2>6. QED
    BY <2>1, <2>2, <2>3, <2>4, <2>5
<1>8. QED
  BY <1>1, <1>5, <1>6, <1>7

\* The order of the stored context, by places.
LEMMA StoredOrder ==
    ASSUME Shape
    PROVE  \E h \in Nat : /\ h = 0 \/ tree[h].kind = "compaction"
                          /\ \A i, j \in 1..Len(Stored) : i < j => (Stored[i] < Stored[j] \/ Stored[i] = h) /\ Stored[j] # h
<1> DEFINE h == Top(tree, BranchIn(tree, leaf))
<1>1. Well(tree) /\ leaf \in 0..Len(tree)
  BY ShapeFacts
<1>2. h = 0 \/ tree[h].kind = "compaction"
  BY <1>1, TopFacts
<1>3. h \in Nat
  <2>1. BranchIn(tree, leaf) \in Seq(Nat)
    BY <1>1, BranchFits DEF Fits
  <2>2. LastCompaction(tree, BranchIn(tree, leaf)) \in 0..Len(BranchIn(tree, leaf))
    BY <2>1, LastCompactionFacts
  <2>3. QED
    BY <2>1, <2>2 DEF Top
<1>4. Arrayed(Stored, Headed(h)) /\ DOMAIN Stored = 1..Len(Stored)
  BY <1>1, ContextFacts, StoredFacts DEF Stored
<1> HIDE DEF h
<1>5. \A i, j \in 1..Len(Stored) : i < j => (Stored[i] < Stored[j] \/ Stored[i] = h) /\ Stored[j] # h
  <2>1. SUFFICES ASSUME NEW i \in 1..Len(Stored), NEW j \in 1..Len(Stored), i < j
                 PROVE  (Stored[i] < Stored[j] \/ Stored[i] = h) /\ Stored[j] # h
    OBVIOUS
  <2>2. <<Stored[i], Stored[j]>> \in Headed(h)
    BY <1>4, <2>1 DEF Arrayed
  <2>3. QED
    BY <2>2 DEF Headed
<1>6. QED
  BY <1>2, <1>3, <1>5

\* A part of the copied context is kept: nothing summarised is in the
\* context, and everything else that was said is.
LEMMA PartKept ==
    ASSUME Shape, Agreement, NEW t \in Threads, NEW p \in Nat, Applies(t, p), ~skewed',
           txn[t].variant \notin {"deep", "error"}, p \in DOMAIN SourceIndices(txn[t].source)
    PROVE  LET source == txn[t].source
               seen == SourceIndices(source)
               summarised == {source[seen[i]] : i \in 1..(p - 1)}
               visible == Range(live) \intersect Of(tree, EntryKinds \ {"hidden", "failed", "compaction"})
           IN  /\ \A e \in summarised : tree[e].kind # "compaction" => e \notin Range(Stored')
               /\ visible \subseteq Range(Stored') \union summarised
<1> DEFINE source == txn[t].source
           seen == SourceIndices(source)
           summarised == {source[seen[i]] : i \in 1..(p - 1)}
           visible == Range(live) \intersect Of(tree, EntryKinds \ {"hidden", "failed", "compaction"})
           new == Len(tree) + 1
           K == FirstKept(txn[t].variant, source, p, Stored)
           P == ParentFor(txn[t].variant, source, Stored)
           b == BranchIn(tree, leaf)
           N == Range(Messages(tree', leaf'))
           M == Range(Messages(tree, leaf))
           q == seen[p]
<1>0. /\ Len(tree) \in Nat /\ Well(tree) /\ leaf \in 0..Len(tree) /\ source \in Seq(Nat)
  BY ShapeFacts
<1>1. /\ N = {new} \union {e \in Range(b) : K \in Range(b) /\ K <= P /\ K <= e /\ e <= P /\ tree[e].kind # "setting"}
      /\ Range(Stored') = {e \in N : tree'[e].kind = "result" => tree'[e].ref \in N}
  BY CompactedContext
<1>2. /\ Len(source) <= Len(Stored) /\ \A i \in 1..Len(source) : source[i] = Stored[i]
      /\ \A y \in Range(Stored) : tree[y].kind \notin {"failed", "hidden"} => \E k \in 1..Len(seen) : y = source[seen[k]]
      /\ visible \subseteq Range(Stored)
      /\ \A y \in visible : tree[y].kind \notin {"failed", "hidden"}
  BY Aligned
<1>3. /\ Len(seen) \in Nat /\ DOMAIN seen = 1..Len(seen)
      /\ \A i \in 1..Len(seen) : seen[i] \in 1..Len(source)
      /\ \A i, j \in 1..Len(seen) : i < j => seen[i] < seen[j]
  BY <1>0, SeenFacts
<1>p. p \in 1..Len(seen)
  BY <1>3
<1>4. /\ Len(Stored) \in Nat /\ DOMAIN Stored = 1..Len(Stored)
      /\ \A i \in 1..Len(Stored) : Stored[i] \in Range(Stored) /\ Stored[i] \in 1..Len(tree)
      /\ Range(Stored) \subseteq 1..Len(tree)
  BY StoredFacts
<1>5. /\ p \in 2..(Len(seen) + 1)
      /\ \A r \in {source[seen[i]] : i \in p..Len(seen)} : Kind(r) = "result" => tree[r].ref \notin summarised
  BY DEF Applies, Boundaries
<1>6. Len(source) \in Nat /\ \A i \in 1..Len(source) : i \in 1..Len(Stored)
  BY <1>0, <1>2, <1>4
<1>7. q \in 1..Len(source) /\ 2 <= q /\ q \in 1..Len(Stored) /\ 1 \in 1..Len(Stored)
  <2>1. 1 \in 1..Len(seen) /\ p \in 1..Len(seen) /\ 1 < p
    BY <1>3, <1>5
  <2>2. seen[1] < seen[p] /\ seen[1] \in 1..Len(source) /\ seen[p] \in 1..Len(source)
    BY <1>3, <2>1
  <2>3. 2 <= q
    BY <1>6, <2>2
  <2>4. QED
    BY <1>4, <1>6, <2>2, <2>3
<1>8. K = Stored[q]
  BY <1>4, <1>7 DEF FirstKept
<1>9. P = leaf \/ (Len(source) \in 1..Len(Stored) /\ P = Stored[Len(source)])
  BY <1>4 DEF ParentFor
<1>10. PICK h \in Nat : /\ h = 0 \/ tree[h].kind = "compaction"
                        /\ \A i, j \in 1..Len(Stored) : i < j => (Stored[i] < Stored[j] \/ Stored[i] = h) /\ Stored[j] # h
  BY StoredOrder
<1>11. /\ M = {e \in Range(b) : Start(tree, b) <= e /\ tree[e].kind # "setting"}
       /\ Range(Stored) = {e \in M : tree[e].kind = "result" => tree[e].ref \in M}
  BY <1>0, MessagesFacts, ContextFacts DEF Stored
<1>12. Range(b) \subseteq 1..leaf
  BY <1>0, BranchFits
<1>13. \A e \in 1..Len(tree) : tree'[e] = tree[e]
  BY AppliesTree
<1> HIDE DEF source, seen, summarised, visible, K, P, b, N, M, q
<1>14. \A j \in 1..Len(Stored) : 2 <= j => Stored[j] # h
  <2>1. \A j \in 1..Len(Stored) : 2 <= j => 1 < j
    BY <1>4
  <2>2. QED
    BY <1>7, <1>10, <2>1
<1>15. \A i, j \in 1..Len(Stored) : 2 <= i /\ i <= j => Stored[i] <= Stored[j]
  <2>1. SUFFICES ASSUME NEW i \in 1..Len(Stored), NEW j \in 1..Len(Stored), 2 <= i, i <= j PROVE Stored[i] <= Stored[j]
    OBVIOUS
  <2>2. Stored[i] \in Nat /\ Stored[j] \in Nat
    BY <1>4
  <2>3. CASE i = j
    BY <2>2, <2>3
  <2>4. CASE i # j
    <3>1. i < j
      BY <1>4, <2>1, <2>4
    <3>2. Stored[i] < Stored[j]
      BY <1>10, <1>14, <2>1, <3>1
    <3>3. QED
      BY <2>2, <3>2
  <2>5. QED
    BY <2>3, <2>4
\* What is not summarised is kept.
<1>16. ASSUME NEW j \in 1..Len(source), q <= j PROVE Stored[j] \in N
  <2>1. j \in 1..Len(Stored) /\ Stored[j] \in Range(Stored) /\ Stored[q] \in Range(Stored)
    BY <1>4, <1>6, <1>7, <1>16
  <2>2. Stored[j] \in Range(b) /\ tree[Stored[j]].kind # "setting" /\ Stored[q] \in Range(b)
    BY <1>11, <2>1
  <2>3. Stored[q] <= Stored[j]
    BY <1>7, <1>15, <1>16, <2>1
  <2>4. Stored[j] <= P /\ Stored[q] <= P
    <3>1. CASE P = leaf
      BY <1>0, <1>12, <2>2, <3>1
    <3>2. CASE Len(source) \in 1..Len(Stored) /\ P = Stored[Len(source)]
      <4>1. 2 <= j /\ j <= Len(source) /\ q <= Len(source)
        BY <1>6, <1>7, <1>16
      <4>2. QED
        BY <1>7, <1>15, <2>1, <3>2, <4>1
    <3>3. QED
      BY <1>9, <3>1, <3>2
  <2>5. QED
    BY <1>1, <1>8, <2>2, <2>3, <2>4
<1>17. ASSUME NEW y \in Range(Stored), tree[y].kind \notin {"failed", "hidden"}, y \notin summarised PROVE y \in N
  <2>1. PICK k \in 1..Len(seen) : y = source[seen[k]]
    BY <1>2, <1>17
  <2>2. ~(k \in 1..(p - 1))
    BY <1>17, <2>1 DEF summarised
  <2>3. p <= k /\ p \in 1..Len(seen)
    BY <1>3, <1>5, <2>2
  <2>4. q <= seen[k] /\ seen[k] \in 1..Len(source)
    <3>1. seen[k] \in 1..Len(source) /\ seen[p] \in 1..Len(source)
      BY <1>3, <2>3
    <3>2. CASE p = k
      BY <1>6, <3>1, <3>2 DEF q
    <3>3. CASE p # k
      <4>1. p < k
        BY <1>3, <2>3, <3>3
      <4>2. seen[p] < seen[k]
        BY <1>3, <2>3, <4>1
      <4>3. QED
        BY <1>6, <3>1, <4>2 DEF q
    <3>4. QED
      BY <3>2, <3>3
  <2>5. y = Stored[seen[k]]
    BY <1>2, <2>1, <2>4
  <2>6. QED
    BY <1>16, <2>4, <2>5
<1>18. ASSUME NEW e \in summarised, tree[e].kind # "compaction" PROVE e \notin Range(Stored')
  <2>1. PICK i \in 1..(p - 1) : e = source[seen[i]]
    BY <1>18 DEF summarised
  <2>2. i \in 1..Len(seen) /\ p \in 1..Len(seen) /\ i < p
    BY <1>3, <1>5, <1>p
  <2>3. seen[i] \in 1..Len(source) /\ seen[i] < q
    BY <1>3, <2>2 DEF q
  <2>4. e = Stored[seen[i]] /\ seen[i] \in 1..Len(Stored)
    BY <1>2, <1>6, <2>1, <2>3
  <2>5. Stored[seen[i]] < Stored[q] \/ Stored[seen[i]] = h
    BY <1>7, <1>10, <2>3, <2>4
  <2>6. e \in 1..Len(tree)
    BY <1>4, <2>4
  <2>7. e # h
    BY <1>10, <1>18, <2>6
  <2>8. e < K /\ K \in Nat
    BY <1>4, <1>7, <1>8, <2>4, <2>5, <2>7
  <2>9. e \notin N
    <3>1. e # new
      BY <1>0, <2>6
    <3>2. ~(K <= e)
      BY <2>6, <2>8
    <3>3. QED
      BY <1>1, <3>1, <3>2
  <2>10. QED
    BY <1>1, <2>9
<1>19. ASSUME NEW y \in visible PROVE y \in Range(Stored') \union summarised
  <2>1. y \in Range(Stored) /\ tree[y].kind \notin {"failed", "hidden"} /\ y \in 1..Len(tree)
    BY <1>2, <1>4, <1>19
  <2>2. SUFFICES ASSUME y \notin summarised PROVE y \in Range(Stored')
    OBVIOUS
  <2>3. y \in N
    BY <1>17, <2>1, <2>2
  <2>4. ASSUME tree[y].kind = "result" PROVE tree[y].ref \in N
    <3> DEFINE r == tree[y].ref
    <3>1. r \in CallEntries
      <4>1. y \in Of(tree, {"result"})
        <5>1. y \in DOMAIN tree
          BY <2>1, ShapeFacts
        <5>2. QED
          BY <2>4, <5>1 DEF Of
      <4>2. QED
        BY <4>1 DEF Shape
    <3>2. tree[r].kind = "call"
      BY <3>1 DEF CallEntries, Of
    <3>3. r \in Range(Stored)
      BY <1>11, <2>1, <2>4, <3>2
    <3>4. r \notin summarised
      <4>1. PICK k \in 1..Len(seen) : y = source[seen[k]]
        BY <1>2, <2>1
      <4>2. ~(k \in 1..(p - 1))
        BY <2>2, <4>1 DEF summarised
      <4>3. k \in p..Len(seen)
        BY <1>3, <1>5, <4>2
      <4>4. QED
        BY <1>5, <2>4, <4>1, <4>3 DEF Kind
    <3>5. QED
      BY <1>17, <3>2, <3>3, <3>4
  <2>5. QED
    BY <1>1, <1>13, <2>1, <2>3, <2>4
<1>20. QED
  BY <1>18, <1>19 DEF source, seen, summarised, visible

\* All of the copied context is summarised.
LEMMA AllSummarised ==
    ASSUME Shape, Agreement, NEW t \in Threads, NEW p \in Nat, Applies(t, p), ~skewed',
           txn[t].variant \in {"deep", "error"} \/ p \notin DOMAIN SourceIndices(txn[t].source)
    PROVE  LET source == txn[t].source
               seen == SourceIndices(source)
               summarised == {source[seen[i]] : i \in 1..(p - 1)}
               past == txn[t].variant = "manual" /\ p > Len(seen)
               visible == Range(live) \intersect Of(tree, EntryKinds \ {"hidden", "failed", "compaction"})
           IN  /\ \A e \in summarised : ~(past /\ e = leaf) => e \notin Range(Stored')
               /\ visible \subseteq summarised
<1> DEFINE v == txn[t].variant
           source == txn[t].source
           seen == SourceIndices(source)
           summarised == {source[seen[i]] : i \in 1..(p - 1)}
           past == v = "manual" /\ p > Len(seen)
           visible == Range(live) \intersect Of(tree, EntryKinds \ {"hidden", "failed", "compaction"})
           new == Len(tree) + 1
           K == FirstKept(v, source, p, Stored)
           P == ParentFor(v, source, Stored)
           b == BranchIn(tree, leaf)
           N == Range(Messages(tree', leaf'))
<1>0. /\ Len(tree) \in Nat /\ Well(tree) /\ leaf \in 0..Len(tree) /\ source \in Seq(Nat) /\ Range(source) \subseteq 1..Len(tree)
  BY ShapeFacts
<1>1. /\ N = {new} \union {e \in Range(b) : K \in Range(b) /\ K <= P /\ K <= e /\ e <= P /\ tree[e].kind # "setting"}
      /\ Range(Stored') = {e \in N : tree'[e].kind = "result" => tree'[e].ref \in N}
  BY CompactedContext
<1>2. /\ \A y \in Range(Stored) : tree[y].kind \notin {"failed", "hidden"} => \E k \in 1..Len(seen) : y = source[seen[k]]
      /\ visible \subseteq Range(Stored)
      /\ \A y \in visible : tree[y].kind \notin {"failed", "hidden"}
  BY Aligned
<1>3. /\ Len(seen) \in Nat /\ DOMAIN seen = 1..Len(seen)
      /\ \A i \in 1..Len(seen) : seen[i] \in 1..Len(source)
  BY <1>0, SeenFacts
<1>4. Range(b) \subseteq 1..leaf
  BY <1>0, BranchFits
<1>5. p = Len(seen) + 1
  <2>1. CASE v \in {"deep", "error"}
    BY <2>1 DEF Applies, Boundaries
  <2>2. CASE v \notin {"deep", "error"}
    <3>1. p \in 2..(Len(seen) + 1) /\ p \notin 1..Len(seen)
      BY <1>3, <2>2 DEF Applies, Boundaries
    <3>2. QED
      BY <1>3, <3>1
  <2>3. QED
    BY <2>1, <2>2
<1>6. K = (IF v = "manual" THEN leaf ELSE 0) /\ (v = "manual" => past)
  <2>1. ~(v \notin {"deep", "error"} /\ p \in DOMAIN seen)
    BY <1>3
  <2>2. p > Len(seen)
    BY <1>3, <1>5
  <2>3. QED
    BY <2>1, <2>2 DEF FirstKept
<1> HIDE DEF v, source, seen, summarised, past, visible, K, P, b, N
<1>7. ASSUME NEW e \in summarised, ~(past /\ e = leaf) PROVE e \notin Range(Stored')
  <2>1. e \in 1..Len(tree)
    <3>1. PICK i \in 1..(p - 1) : e = source[seen[i]]
      BY <1>7 DEF summarised
    <3>2. i \in 1..Len(seen)
      BY <1>3, <1>5
    <3>3. e \in Range(source)
      BY <1>0, <1>3, <3>1, <3>2, Places
    <3>4. QED
      BY <1>0, <3>3
  <2>2. SUFFICES ASSUME e \in N PROVE FALSE
    BY <1>1
  <2>3. e # new
    BY <1>0, <2>1
  <2>4. e \in Range(b) /\ K \in Range(b) /\ K <= e
    BY <1>1, <2>2, <2>3
  <2>5. K # 0
    BY <1>0, <1>4, <2>4
  <2>6. v = "manual" /\ K = leaf /\ past
    BY <1>6, <2>5
  <2>7. e = leaf
    BY <1>0, <1>4, <2>4, <2>6
  <2>8. QED
    BY <1>7, <2>6, <2>7
<1>8. ASSUME NEW y \in visible PROVE y \in summarised
  <2>1. PICK k \in 1..Len(seen) : y = source[seen[k]]
    BY <1>2, <1>8
  <2>2. k \in 1..(p - 1)
    BY <1>3, <1>5
  <2>3. QED
    BY <2>1, <2>2 DEF summarised
<1>9. QED
  BY <1>7, <1>8 DEF v, source, seen, summarised, past, visible

\* A compaction applied to the context it copied loses nothing and brings nothing back.
LEMMA AppliesKept ==
    ASSUME Shape, Agreement, Kept, NEW t \in Threads, NEW p \in Nat, Applies(t, p)
    PROVE  Kept'
<1> DEFINE source == txn[t].source
           seen == SourceIndices(source)
           summarised == {source[seen[i]] : i \in 1..(p - 1)}
           past == txn[t].variant = "manual" /\ p > Len(seen)
           visible == Range(live) \intersect Of(tree, EntryKinds \ {"hidden", "failed", "compaction"})
<1>1. SUFFICES ASSUME ~skewed' PROVE lost' = {} /\ gone' \intersect Range(Stored') = {}
  BY DEF Kept
<1>2. /\ gone' = gone \union {e \in summarised : Kind(e) # "compaction" /\ ~(past /\ e = leaf)}
      /\ lost' = lost \union (visible \ (Range(live') \union summarised))
  BY DEF Applies
<1>3. live' = Stored' /\ Range(Stored') \subseteq Range(Stored) \union {Len(tree) + 1}
  BY AppliesTree, NothingComesBack
<1>4. ~skewed /\ lost = {} /\ gone \intersect Range(Stored) = {}
  BY <1>1, Aligned DEF Kept
<1>5. gone \intersect Range(Stored') = {}
  <2>1. Len(tree) + 1 \notin gone
    BY ShapeFacts DEF Shape
  <2>2. QED
    BY <1>3, <1>4, <2>1
<1>6. /\ \A e \in summarised : Kind(e) # "compaction" /\ ~(past /\ e = leaf) => e \notin Range(Stored')
      /\ visible \subseteq Range(Stored') \union summarised
  <2>1. CASE txn[t].variant \notin {"deep", "error"} /\ p \in DOMAIN SourceIndices(txn[t].source)
    BY <1>1, <2>1, PartKept DEF Kind
  <2>2. CASE ~(txn[t].variant \notin {"deep", "error"} /\ p \in DOMAIN SourceIndices(txn[t].source))
    BY <1>1, <2>2, AllSummarised
  <2>3. QED
    BY <2>1, <2>2
<1> HIDE DEF summarised, past, visible
<1>7. QED
  BY <1>2, <1>3, <1>4, <1>5, <1>6

\* A step that does not compact.
LEMMA OthersKept ==
    ASSUME Shape, Kept, UNCHANGED <<lost, skewed>>, gone' \subseteq gone,
           gone' = {} \/ Range(Stored') \subseteq Range(Stored) \union {Len(tree) + 1}
    PROVE  Kept'
<1>1. Len(tree) + 1 \notin gone
  BY ShapeFacts DEF Shape
<1>2. QED
  BY <1>1 DEF Kept

\* A stored entry brings nothing into the context but itself.
LEMMA PutsKept ==
    ASSUME Shape, NEW kind \in EntryKinds \ {"compaction"}, NEW ref \in 0..Len(tree), Put(kind, ref)
    PROVE  Range(Stored') \subseteq Range(Stored) \union {Len(tree) + 1}
<1>1. /\ Len(tree) + 1 \in Nat
      /\ Stored' = Stored \/ Stored' = Append(Stored, Len(tree) + 1)
  BY Puts
<1>2. Stored \in Seq(Nat)
  BY StoredFacts
<1>3. Range(Append(Stored, Len(tree) + 1)) = Range(Stored) \union {Len(tree) + 1}
  BY <1>1, <1>2, RangeAppend
<1>4. QED
  BY <1>1, <1>3

\* Every step keeps what is kept.
LEMMA KeptStep ==
    ASSUME Shape, Agreement, Kept, [ContextNext]_contextVars
    PROVE  Kept'
<1>0. MaxEntries \in Nat /\ Len(tree) \in Nat /\ 0 \in 0..Len(tree)
  BY ShapeFacts
<1>1. ASSUME UNCHANGED <<tree, leaf, gone, lost, skewed>> PROVE Kept'
  BY <1>1 DEF Kept, Stored
<1>2. CASE UNCHANGED contextVars
  BY <1>1, <1>2 DEF contextVars
<1>3. CASE TurnStarts \/ Retries \/ GivesUp \/ TurnEnds \/ NoticeComes
  BY <1>1, <1>3 DEF TurnStarts, Retries, GivesUp, TurnEnds, NoticeComes
<1>4. ASSUME NEW kind \in EntryKinds \ {"compaction"}, NEW ref \in 0..Len(tree), Put(kind, ref), UNCHANGED <<gone, lost, skewed>>
      PROVE  Kept'
  <2>1. Range(Stored') \subseteq Range(Stored) \union {Len(tree) + 1}
    BY <1>4, PutsKept
  <2>2. QED
    BY <1>4, <2>1, OthersKept
<1>5. CASE Prompts \/ Replies \/ Calls \/ Fails
  BY <1>0, <1>4, <1>5 DEF Prompts, Replies, Calls, Fails, Turn, PutMessage, EntryKinds
<1>6. CASE Results
  <2>1. "result" \in EntryKinds \ {"compaction"} /\ phase = "tool" /\ Put("result", Max(CallEntries)) /\ UNCHANGED <<gone, lost, skewed>>
    BY <1>6 DEF EntryKinds, Results, Turn, CallEntries, PutMessage
  <2>2. Max(CallEntries) \in 0..Len(tree)
    BY <2>1, CallFacts DEF Shape
  <2>3. QED
    BY <1>4, <2>1, <2>2
<1>7. CASE Sets \/ RecordsBash \/ NoticeStored
  BY <1>0, <1>4, <1>7 DEF Sets, RecordsBash, NoticeStored, PutMessage, EntryKinds
<1>8. ASSUME NEW l, Rebuild(l) PROVE Kept'
  <2>1. leaf' = l /\ gone' = (IF l = leaf THEN gone ELSE {}) /\ UNCHANGED <<tree, lost, skewed>>
    BY <1>8 DEF Rebuild
  <2>2. CASE l = leaf
    BY <1>1, <2>1, <2>2
  <2>3. CASE l # leaf
    BY <2>1, <2>3, OthersKept
  <2>4. QED
    BY <2>2, <2>3
<1>9. CASE (\E e \in DOMAIN tree : Navigates(e)) \/ Resumes
  BY <1>8, <1>9 DEF Navigates, Resumes
<1>10. CASE (\E v \in {"manual", "deep"} : UserCompacts(v)) \/ AutoCompacts \/ RecoversOverflow \/ CompactsFailedTurn
  BY <1>1, <1>10 DEF UserCompacts, AutoCompacts, RecoversOverflow, CompactsFailedTurn, Copies
<1>11. ASSUME NEW t \in Threads, NEW p \in 1..(MaxEntries + 1), Applies(t, p) PROVE Kept'
  BY <1>0, <1>11, AppliesKept
<1>12. ASSUME NEW t \in Threads, MakesNoChange(t) PROVE Kept'
  BY <1>1, <1>12 DEF MakesNoChange
<1>13. QED
  BY <1>2, <1>3, <1>5, <1>6, <1>7, <1>9, <1>10, <1>11, <1>12 DEF ContextNext

\* The inductive invariant of SessionContext.
ContextInvariant == Shape /\ Agreement /\ Failure /\ Kept

\* The invariant holds of a new session.
LEMMA ContextStart ==
    ASSUME ContextInit
    PROVE  ContextInvariant
<1>1. /\ tree = <<>> /\ leaf = 0 /\ live = <<>> /\ setting = 0 /\ phase = "idle"
      /\ txn = [t \in Threads |-> NoTxn] /\ notice = FALSE /\ other = 0
      /\ gone = {} /\ lost = {} /\ skewed = FALSE /\ raced = FALSE
  BY DEF ContextInit
<1>2. \A t \in Threads : txn[t] = NoTxn /\ ~Busy(t)
  BY <1>1 DEF Busy, NoTxn
<1>3. "turn" \in Threads /\ "user" \in Threads
  BY DEF Threads
<1>4. Len(tree) = 0 /\ DOMAIN tree = {} /\ Of(tree, {"result"}) = {}
  BY <1>1 DEF Of
<1>5. ContextTypeOK
  <2>1. tree \in Seq([kind : EntryKinds, parent : 0..MaxEntries, ref : 0..MaxEntries]) /\ live \in Seq(0..Len(tree))
    BY <1>1
  <2>2. other \in 0..MaxOther /\ leaf \in 0..Len(tree) /\ setting \in 0..Len(tree)
    BY <1>1, <1>4, ContextAssumption
  <2>3. txn \in [Threads -> {NoTxn} \union [variant : Variants, source : Seq(Ids)]]
    BY <1>1
  <2>4. QED
    BY <1>1, <1>2, <1>3, <1>4, <2>1, <2>2, <2>3 DEF ContextTypeOK, Phases
<1>6. Shape
  <2>1. \A t \in Threads : Range(txn[t].source) = {}
    BY <1>2, RangeEmpty DEF NoTxn
  <2>2. Len(tree) <= MaxEntries
    BY <1>4, ContextAssumption
  <2>3. QED
    BY <1>1, <1>2, <1>3, <1>4, <1>5, <2>1, <2>2 DEF Shape
<1>7. Stored = <<>>
  <2>1. Stored \in Seq(Nat) /\ Range(Stored) \subseteq 1..Len(tree)
    BY <1>6, StoredFacts
  <2>2. Range(Stored) = {}
    BY <1>4, <2>1
  <2>3. QED
    BY <2>1, <2>2 DEF Range
<1>8. Agreement
  BY <1>1, <1>2, <1>7, RangeEmpty DEF Agreement
<1>9. Failure /\ Kept
  BY <1>1 DEF Failure, Kept
<1>10. QED
  BY <1>6, <1>8, <1>9 DEF ContextInvariant

\* The invariant behind the properties of compaction holds in every session
\* of any length: the tree and the copies keep their shape, the conversation
\* of the agent, the copies of the compactions under way and the stored
\* context say the same unless two threads changed the conversation at once,
\* a failed message is the last of an assistant until it is retried or given
\* up, and what compactions summarised away stays away.
THEOREM ContextInvariance == ContextSpec => []ContextInvariant
<1>1. ContextInit => ContextInvariant
  BY ContextStart
<1>2. ContextInvariant /\ [ContextNext]_contextVars => ContextInvariant'
  BY ShapeStep, AgreementStep, FailureStep, KeptStep DEF ContextInvariant
<1>3. QED
  BY <1>1, <1>2, PTL DEF ContextSpec

\* Between turns, the conversation the next request is built from is the one
\* that a restart rebuilds from the session file (agent.state.messages against
\* _context_messages_and_entry_ids), but for failed messages and hidden bash
\* results and unless two threads changed it at once: for every length of the
\* session, through turns, retries, notices, branches, restarts and
\* compactions of both threads.
THEOREM LiveIsStoredCorrect == ContextSpec => []LiveIsStored
<1>1. ContextInvariant => LiveIsStored
  BY DEF ContextInvariant, Agreement, LiveIsStored, Said
<1>2. QED
  BY <1>1, ContextInvariance, PTL

\* A compaction that is applied to the context it copied
\* (CompactionCoordinator.apply_result and its variants, with the first kept
\* entry and the parent found by position) summarises every message that it
\* discards, and no message summarised away comes back into the context of
\* that branch: for every length of the session.
THEOREM CompactionSoundCorrect == ContextSpec => []CompactionSound
<1>1. ContextInvariant => CompactionSound
  BY DEF ContextInvariant, Shape, Kept, CompactionSound, AlignedKeepsAll, NotResurrected, SummarisesDiscarded
<1>2. QED
  BY <1>1, ContextInvariance, PTL
==============================================================================
