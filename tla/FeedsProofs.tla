---------------------------- MODULE FeedsProofs -----------------------------
(***************************************************************************)
(* What a reader of the event stream and a walk over pages get, for any    *)
(* number of events, rows, pages and writes beside them.                   *)
(***************************************************************************)
EXTENDS ApiFeeds, TLAPS

(* What the lemmas below use of finite sets; FiniteFactsHold, near the end,
   has it from the library.  Few obligations need the library's theorems.  *)
FiniteFacts ==
    /\ \A S : IsFiniteSet(S) => Cardinality(S) \in Nat
    /\ IsFiniteSet({}) /\ Cardinality({}) = 0
    /\ \A S : IsFiniteSet(S) => (Cardinality(S) = 0 <=> S = {})
    /\ \A S : \A T \in SUBSET S : IsFiniteSet(S) =>
         /\ IsFiniteSet(T) /\ Cardinality(T) <= Cardinality(S)
         /\ Cardinality(S) = Cardinality(T) => S = T
    /\ \A S, x : IsFiniteSet(S) =>
         /\ IsFiniteSet(S \cup {x})
         /\ Cardinality(S \cup {x}) = IF x \in S THEN Cardinality(S) ELSE Cardinality(S) + 1
    /\ \A n \in Nat : IsFiniteSet(1..n) /\ Cardinality(1..n) = n
    /\ \A S, T : \A f \in Injection(S, T) : IsFiniteSet(T) =>
         (Cardinality(S) = Cardinality(T) <=> f \in Surjection(S, T))
    /\ \A S, T : IsFiniteSet(S) /\ ExistsBijection(S, T) =>
         IsFiniteSet(T) /\ Cardinality(T) = Cardinality(S)

(* A finite set has a number of members. *)
LEMMA CountType ==
    ASSUME FiniteFacts, NEW S, IsFiniteSet(S)
    PROVE  Cardinality(S) \in Nat
  BY Zenon DEF FiniteFacts

(* Only the empty set has none. *)
LEMMA EmptyCount ==
    ASSUME FiniteFacts
    PROVE  /\ IsFiniteSet({}) /\ Cardinality({}) = 0
           /\ \A S : IsFiniteSet(S) => (Cardinality(S) = 0 <=> S = {})
  BY Zenon DEF FiniteFacts

(* A part has no more members than the whole. *)
LEMMA SubsetCount ==
    ASSUME FiniteFacts, NEW S, IsFiniteSet(S), NEW T \in SUBSET S
    PROVE  /\ IsFiniteSet(T) /\ Cardinality(T) <= Cardinality(S)
           /\ Cardinality(S) = Cardinality(T) => S = T
  BY Zenon DEF FiniteFacts

(* One more member. *)
LEMMA AddedCount ==
    ASSUME FiniteFacts, NEW S, NEW x, IsFiniteSet(S)
    PROVE  /\ IsFiniteSet(S \cup {x})
           /\ Cardinality(S \cup {x}) = IF x \in S THEN Cardinality(S) ELSE Cardinality(S) + 1
  BY Zenon DEF FiniteFacts

(* The numbers up to n. *)
LEMMA IntervalCount ==
    ASSUME FiniteFacts, NEW n \in Nat
    PROVE  IsFiniteSet(1..n) /\ Cardinality(1..n) = n
  BY Zenon DEF FiniteFacts

(* Between sets of one size, one to one is onto. *)
LEMMA InjectionCount ==
    ASSUME FiniteFacts, NEW S, NEW T, NEW f \in Injection(S, T), IsFiniteSet(T)
    PROVE  Cardinality(S) = Cardinality(T) <=> f \in Surjection(S, T)
  BY Zenon DEF FiniteFacts

(* Sets that match one to one have one size. *)
LEMMA BijectionCount ==
    ASSUME FiniteFacts, NEW S, NEW T, IsFiniteSet(S), ExistsBijection(S, T)
    PROVE  IsFiniteSet(T) /\ Cardinality(T) = Cardinality(S)
  BY Zenon DEF FiniteFacts

(* A total order on a set, as pairs. *)
Orders(R, S) ==
    /\ \A x \in S : <<x, x>> \in R
    /\ \A x, y \in S : <<x, y>> \in R \/ <<y, x>> \in R
    /\ \A x, y \in S : <<x, y>> \in R /\ <<y, x>> \in R => x = y
    /\ \A x, y, z \in S : <<x, y>> \in R /\ <<y, z>> \in R => <<x, z>> \in R

(* What comes no later than x; their number is the rank of x. *)
Upto(R, S, x) == {y \in S : <<y, x>> \in R}

(* The first n members of a set. *)
Top(R, S, n) == {x \in S : Cardinality(Upto(R, S, x)) <= n}

(* A rank is between one and the number of members. *)
LEMMA RankType ==
    ASSUME FiniteFacts, NEW S, IsFiniteSet(S), NEW R, Orders(R, S), NEW x \in S
    PROVE  /\ IsFiniteSet(Upto(R, S, x))
           /\ Cardinality(S) \in Nat
           /\ Cardinality(Upto(R, S, x)) \in 1..Cardinality(S)
  <1>1. Upto(R, S, x) \in SUBSET S /\ x \in Upto(R, S, x)
    BY Zenon DEF Upto, Orders
  <1>2. IsFiniteSet(Upto(R, S, x)) /\ Cardinality(Upto(R, S, x)) <= Cardinality(S)
    BY <1>1, SubsetCount, Zenon
  <1>3. Cardinality(S) \in Nat /\ Cardinality(Upto(R, S, x)) \in Nat
    BY <1>2, CountType, Zenon
  <1>4. Cardinality(Upto(R, S, x)) # 0
    BY <1>1, <1>2, EmptyCount, Zenon
  <1> QED
    BY <1>2, <1>3, <1>4

(* Ranks are ordered as the members are. *)
LEMMA RankOrders ==
    ASSUME FiniteFacts, NEW S, IsFiniteSet(S), NEW R, Orders(R, S), NEW x \in S, NEW y \in S
    PROVE  <<x, y>> \in R <=> Cardinality(Upto(R, S, x)) <= Cardinality(Upto(R, S, y))
  <1>1. ASSUME NEW u \in S, NEW v \in S, <<u, v>> \in R
        PROVE  /\ Cardinality(Upto(R, S, u)) <= Cardinality(Upto(R, S, v))
               /\ Cardinality(Upto(R, S, u)) = Cardinality(Upto(R, S, v)) => u = v
    <2>1. Upto(R, S, u) \in SUBSET Upto(R, S, v)
      BY <1>1, Zenon DEF Upto, Orders
    <2>2. IsFiniteSet(Upto(R, S, v))
      BY RankType, Zenon
    <2>3. /\ Cardinality(Upto(R, S, u)) <= Cardinality(Upto(R, S, v))
          /\ Cardinality(Upto(R, S, v)) = Cardinality(Upto(R, S, u)) =>
               Upto(R, S, v) = Upto(R, S, u)
      BY <2>1, <2>2, SubsetCount, Zenon
    <2>4. Upto(R, S, v) = Upto(R, S, u) => u = v
      BY <1>1, Zenon DEF Upto, Orders
    <2> QED
      BY <2>3, <2>4, Zenon
  <1>2. Cardinality(Upto(R, S, x)) \in Nat /\ Cardinality(Upto(R, S, y)) \in Nat
    BY RankType
  <1>3. <<x, y>> \in R \/ <<y, x>> \in R
    BY Zenon DEF Orders
  <1>4. x = y => <<x, y>> \in R
    BY Zenon DEF Orders
  <1> QED
    BY <1>1, <1>2, <1>3, <1>4

(* Every rank is somebody's: members to ranks is one to one between sets of
   the same size.                                                          *)
LEMMA RankOnto ==
    ASSUME FiniteFacts, NEW S, IsFiniteSet(S), NEW R, Orders(R, S), NEW n \in 1..Cardinality(S)
    PROVE  \E x \in S : Cardinality(Upto(R, S, x)) = n
  <1> DEFINE T == 1..Cardinality(S)
             f == [x \in S |-> Cardinality(Upto(R, S, x))]
  <1>1. Cardinality(S) \in Nat
    BY CountType, Zenon
  <1>2. f \in [S -> T]
    BY RankType, Zenon
  <1>3. \A x, y \in S : f[x] = f[y] => x = y
    <2> SUFFICES ASSUME NEW x \in S, NEW y \in S, f[x] = f[y] PROVE x = y
      BY Zenon
    <2>1. f[x] \in Nat /\ f[y] \in Nat
      BY <1>1, <1>2
    <2>2. <<x, y>> \in R /\ <<y, x>> \in R
      BY <2>1, RankOrders
    <2> QED
      BY <2>2, Zenon DEF Orders
  <1>4. f \in Injection(S, T)
    BY <1>2, <1>3, Zenon DEF Injection, IsInjective
  <1>5. IsFiniteSet(T) /\ Cardinality(T) = Cardinality(S)
    BY <1>1, IntervalCount
  <1>6. f \in Surjection(S, T)
    BY <1>4, <1>5, InjectionCount, Zenon
  <1> QED
    BY <1>6, Zenon DEF Surjection

(* The first n are n, or all when there are fewer. *)
LEMMA TopSize ==
    ASSUME FiniteFacts, NEW S, IsFiniteSet(S), NEW R, Orders(R, S), NEW n \in Nat
    PROVE  /\ IsFiniteSet(Top(R, S, n))
           /\ Cardinality(S) <= n => Top(R, S, n) = S
           /\ n <= Cardinality(S) => Cardinality(Top(R, S, n)) = n
           /\ Cardinality(S) \in Nat
  <1>0. Cardinality(S) \in Nat
    BY CountType, Zenon
  <1>1. Top(R, S, n) \in SUBSET S
    BY Zenon DEF Top
  <1>2. IsFiniteSet(Top(R, S, n))
    BY <1>1, SubsetCount, Zenon
  <1>3. ASSUME Cardinality(S) <= n PROVE Top(R, S, n) = S
    <2>1. \A x \in S : Cardinality(Upto(R, S, x)) <= n
      BY <1>0, <1>3, RankType
    <2> QED
      BY <2>1, Zenon DEF Top
  <1>4. ASSUME n <= Cardinality(S) PROVE Cardinality(Top(R, S, n)) = n
    <2> DEFINE f == [x \in Top(R, S, n) |-> Cardinality(Upto(R, S, x))]
    <2>1. \A x \in Top(R, S, n) : x \in S /\ Cardinality(Upto(R, S, x)) \in 1..n
      BY <1>0, RankType DEF Top
    <2>2. f \in [Top(R, S, n) -> 1..n]
      BY <2>1, Zenon
    <2>3. ASSUME NEW x \in Top(R, S, n), NEW y \in Top(R, S, n), f[x] = f[y] PROVE x = y
      <3>1. x \in S /\ y \in S /\ Cardinality(Upto(R, S, x)) \in Nat
            /\ Cardinality(Upto(R, S, x)) = Cardinality(Upto(R, S, y))
        BY <2>1, <2>3
      <3>2. <<x, y>> \in R /\ <<y, x>> \in R
        BY <3>1, RankOrders
      <3> QED
        BY <3>1, <3>2, Zenon DEF Orders
    <2>4. ASSUME NEW k \in 1..n PROVE \E x \in Top(R, S, n) : f[x] = k
      <3>1. k \in 1..Cardinality(S) /\ k <= n
        BY <1>0, <1>4
      <3>2. PICK x \in S : Cardinality(Upto(R, S, x)) = k
        BY <3>1, RankOnto
      <3>3. x \in Top(R, S, n)
        BY <3>1, <3>2, Zenon DEF Top
      <3> QED
        BY <3>2, <3>3, Zenon
    <2>5. f \in Bijection(Top(R, S, n), 1..n)
      BY <2>2, <2>3, <2>4, Zenon DEF Bijection, Injection, Surjection, IsInjective
    <2>6. ExistsBijection(Top(R, S, n), 1..n)
      BY <2>5, Zenon DEF ExistsBijection
    <2>7. Cardinality(1..n) = Cardinality(Top(R, S, n))
      BY <1>2, <2>6, BijectionCount, Zenon
    <2> QED
      BY <2>7, IntervalCount
  <1> QED
    BY <1>0, <1>2, <1>3, <1>4, Zenon

(* What comes before one of the first n is one of them. *)
LEMMA TopClosed ==
    ASSUME FiniteFacts, NEW S, IsFiniteSet(S), NEW R, Orders(R, S), NEW n \in Nat,
           NEW x \in Top(R, S, n), NEW y \in S, <<y, x>> \in R
    PROVE  y \in Top(R, S, n)
  <1>1. x \in S /\ Cardinality(Upto(R, S, x)) <= n
    BY Zenon DEF Top
  <1>2. Cardinality(Upto(R, S, y)) <= Cardinality(Upto(R, S, x))
    BY <1>1, RankOrders, Zenon
  <1>3. Cardinality(Upto(R, S, y)) \in Nat /\ Cardinality(Upto(R, S, x)) \in Nat
    BY <1>1, RankType
  <1> QED
    BY <1>1, <1>2, <1>3 DEF Top

(* A finite ordered set has a last member. *)
LEMMA LastExists ==
    ASSUME FiniteFacts, NEW S, IsFiniteSet(S), NEW R, Orders(R, S), S # {}
    PROVE  \E x \in S : \A y \in S : <<y, x>> \in R
  <1>1. Cardinality(S) \in 1..Cardinality(S) /\ Cardinality(S) \in Nat
    <2>1. Cardinality(S) \in Nat /\ Cardinality(S) # 0
      BY CountType, EmptyCount, Zenon
    <2> QED
      BY <2>1
  <1>2. PICK x \in S : Cardinality(Upto(R, S, x)) = Cardinality(S)
    BY <1>1, RankOnto
  <1>3. ASSUME NEW y \in S PROVE <<y, x>> \in R
    <2>1. Cardinality(Upto(R, S, y)) <= Cardinality(Upto(R, S, x))
      BY <1>1, <1>2, RankType
    <2> QED
      BY <2>1, RankOrders, Zenon
  <1> QED
    BY <1>3, Zenon

(* The subset of an ordered set is ordered. *)
LEMMA SubsetOrdered ==
    ASSUME NEW S, NEW R, Orders(R, S), NEW T \in SUBSET S
    PROVE  Orders(R, T)
  BY Zenon DEF Orders

-----------------------------------------------------------------------------
(* Numbers in ascending and in descending order. *)
Up(S) == {p \in S \X S : p[1] <= p[2]}
Down(S) == {p \in S \X S : p[1] >= p[2]}

(* Both are orders. *)
LEMMA NumbersOrdered ==
    ASSUME NEW S \in SUBSET Nat
    PROVE  /\ \A x, y \in S : <<x, y>> \in Up(S) <=> x <= y
           /\ \A x, y \in S : <<x, y>> \in Down(S) <=> x >= y
           /\ Orders(Up(S), S) /\ Orders(Down(S), S)
  <1>1. /\ \A x, y \in S : <<x, y>> \in Up(S) <=> x <= y
        /\ \A x, y \in S : <<x, y>> \in Down(S) <=> x >= y
    BY Zenon DEF Up, Down
  <1>2. \A x \in S : x \in Nat
    BY Zenon
  <1>3. Orders(Up(S), S)
    BY <1>1, <1>2 DEF Orders
  <1>4. Orders(Down(S), S)
    BY <1>1, <1>2 DEF Orders
  <1> QED
    BY <1>1, <1>3, <1>4, Zenon

(* FirstN and LastN are the first n of the two orders. *)
LEMMA FirstIsTop ==
    ASSUME NEW S \in SUBSET Nat, NEW n
    PROVE  FirstN(S, n) = Top(Up(S), S, n) /\ LastN(S, n) = Top(Down(S), S, n)
  <1>1. \A e \in S : Upto(Up(S), S, e) = {x \in S : x <= e}
    BY NumbersOrdered, Zenon DEF Upto
  <1>2. \A e \in S : Upto(Down(S), S, e) = {x \in S : x >= e}
    BY NumbersOrdered, Zenon DEF Upto
  <1> QED
    BY <1>1, <1>2, Zenon DEF FirstN, LastN, Top

(* A finite set of numbers has a greatest and a least. *)
LEMMA MaxMin ==
    ASSUME FiniteFacts, NEW S \in SUBSET Nat, IsFiniteSet(S), S # {}
    PROVE  /\ Max(S) \in S /\ \A x \in S : x <= Max(S)
           /\ Min(S) \in S /\ \A x \in S : Min(S) <= x
  <1>1. \E x \in S : \A y \in S : x >= y
    <2>1. PICK x \in S : \A y \in S : <<y, x>> \in Up(S)
      BY NumbersOrdered, LastExists, Zenon
    <2> QED
      BY <2>1, NumbersOrdered, Zenon
  <1>2. \E x \in S : \A y \in S : x <= y
    <2>1. PICK x \in S : \A y \in S : <<y, x>> \in Down(S)
      BY NumbersOrdered, LastExists, Zenon
    <2> QED
      BY <2>1, NumbersOrdered, Zenon
  <1>3. Max(S) \in S /\ \A x \in S : x <= Max(S)
    BY <1>1, Zenon DEF Max
  <1>4. Min(S) \in S /\ \A x \in S : Min(S) <= x
    BY <1>2, Zenon DEF Min
  <1> QED
    BY <1>3, <1>4, Zenon

(* A set of numbers. *)
Numbers(S) == S \subseteq Nat

(* Ascending lists every member once, in order. *)
LEMMA AscendingSorts ==
    ASSUME FiniteFacts, NEW S, IsFiniteSet(S), Numbers(S)
    PROVE  /\ Ascending(S) \in Seq(S)
           /\ \A i, j \in DOMAIN Ascending(S) : i < j => Ascending(S)[i] < Ascending(S)[j]
           /\ \A e \in S : \E i \in DOMAIN Ascending(S) : Ascending(S)[i] = e
  <1> DEFINE n == Cardinality(S)
             R == Up(S)
             rank(e) == Cardinality(Upto(R, S, e))
             q == Ascending(S)
  <1>1. n \in Nat /\ Orders(R, S)
    BY CountType, NumbersOrdered, Zenon DEF Numbers
  <1>r. \A x, y \in S : <<x, y>> \in R <=> x <= y
    BY NumbersOrdered, Zenon DEF Numbers
  <1>t. ASSUME NEW k PROVE FirstN(S, k) = Top(R, S, k)
    BY FirstIsTop, Zenon DEF Numbers
  <1> HIDE DEF R
  <1>2. DOMAIN q = 1..n
    BY Zenon DEF Ascending
  <1>3. ASSUME NEW i \in 1..n PROVE q[i] \in S /\ rank(q[i]) = i
    <2>1. PICK e \in S : rank(e) = i
      BY <1>1, RankOnto
    <2>2. FirstN(S, i) = Top(R, S, i)
      BY <1>t, Zenon
    <2>3. e \in FirstN(S, i)
      BY <1>1, <2>1, <2>2 DEF Top
    <2>4. ASSUME NEW x \in FirstN(S, i) PROVE x \in S /\ x <= e
      <3>1. x \in S /\ rank(x) <= i
        BY <2>2, Zenon DEF Top
      <3>2. <<x, e>> \in R
        BY <3>1, <2>1, <1>1, RankOrders, Zenon
      <3> QED
        BY <3>1, <3>2, <2>1, <1>r, Zenon
    <2>5. FirstN(S, i) \in SUBSET Nat
      BY <2>4, Zenon DEF Numbers
    <2>6. IsFiniteSet(FirstN(S, i))
      <3>1. FirstN(S, i) \in SUBSET S
        BY <2>4, Zenon
      <3> QED
        BY <3>1, SubsetCount, Zenon
    <2>7. Max(FirstN(S, i)) \in FirstN(S, i) /\ e <= Max(FirstN(S, i))
      BY <2>3, <2>5, <2>6, MaxMin, Zenon
    <2>8. Max(FirstN(S, i)) = e
      BY <2>1, <2>4, <2>5, <2>7 DEF Numbers
    <2>9. q[i] = e
      BY <2>8, Zenon DEF Ascending
    <2> QED
      BY <2>1, <2>9, Zenon
  <1>4. q \in Seq(S)
    BY <1>1, <1>2, <1>3 DEF Ascending
  <1>5. ASSUME NEW i \in 1..n, NEW j \in 1..n, i < j PROVE q[i] < q[j]
    <2>1. /\ q[i] \in S /\ q[j] \in S
          /\ rank(q[i]) = i /\ rank(q[j]) = j
      BY <1>3, Zenon
    <2>2. ~(q[j] <= q[i])
      <3>1. ~(<<q[j], q[i]>> \in R)
        BY <1>1, <1>5, <2>1, RankOrders
      <3> QED
        BY <2>1, <3>1, <1>r, Zenon
    <2>3. q[i] \in Nat /\ q[j] \in Nat
      BY <2>1, Zenon DEF Numbers
    <2> HIDE DEF q
    <2> QED
      BY <2>2, <2>3
  <1>6. ASSUME NEW e \in S PROVE \E i \in 1..n : q[i] = e
    <2>1. rank(e) \in 1..n
      BY <1>1, RankType, Zenon
    <2>2. q[rank(e)] \in S /\ rank(q[rank(e)]) = rank(e)
      BY <2>1, <1>3, Zenon
    <2>3. <<q[rank(e)], e>> \in R /\ <<e, q[rank(e)]>> \in R
      BY <1>1, <2>1, <2>2, RankOrders
    <2>4. q[rank(e)] = e
      BY <1>1, <2>2, <2>3, Zenon DEF Orders
    <2> QED
      BY <2>1, <2>4, Zenon
  <1> QED
    BY <1>2, <1>4, <1>5, <1>6, Zenon

-----------------------------------------------------------------------------
(* The stream has sent the event. *)
Sent(e) == \E i \in DOMAIN stream.sent : stream.sent[i] = e

(* Events take their numbers in order. *)
EventsOK ==
    /\ event \in [Events -> {"none", "open", "committed", "gone"}]
    /\ \A x, y \in Events : x < y /\ event[x] = "none" => event[y] = "none"

(* A stream has its fields, and its cursor does not go back. *)
StreamShape ==
    /\ DOMAIN stream = {"open", "after", "first", "sent", "late"}
    /\ stream.after \in 0..MaxEvents
    /\ stream.first \in 0..stream.after
    /\ stream.late \subseteq Events
    /\ stream.sent \in Seq(Events)
    /\ opens \in 0..MaxOpens

(* The cursor is an event that was sent or resumed from. *)
StreamCursor ==
    /\ stream.first = 0 => stream.after = 0
    /\ stream.after = 0 => stream.sent = <<>>
    /\ stream.after # 0 => event[stream.after] = "committed"

(* What was sent is in order, up to the cursor. *)
StreamSorted ==
    /\ \A i \in DOMAIN stream.sent : stream.sent[i] <= stream.after
    /\ \A i, j \in DOMAIN stream.sent : i < j => stream.sent[i] < stream.sent[j]

(* Between where the stream began and its cursor, every committed event was
   sent or committed too late.                                             *)
StreamCovers ==
    \A e \in Events : stream.first < e /\ e <= stream.after =>
        /\ event[e] = "open" => e \in stream.late
        /\ event[e] = "committed" => e \in stream.late \/ Sent(e)

(* The inductive invariant of the stream. *)
StreamInv == EventsOK /\ StreamShape /\ StreamCursor /\ StreamSorted /\ StreamCovers

(* Initially there are no events and no stream. *)
LEMMA StreamInitOK == FeedInit => StreamInv
  <1> SUFFICES ASSUME FeedInit PROVE StreamInv
    BY Zenon
  <1>1. EventsOK
    BY Zenon DEF FeedInit, EventsOK
  <1>2. stream = Closed /\ opens = 0
    BY Zenon DEF FeedInit
  <1>3. /\ DOMAIN stream = {"open", "after", "first", "sent", "late"}
        /\ stream.after = 0 /\ stream.first = 0 /\ stream.sent = <<>> /\ stream.late = {}
    BY <1>2, Zenon DEF Closed
  <1>4. StreamShape
    BY <1>2, <1>3, FeedAssumption DEF StreamShape
  <1> QED
    BY <1>1, <1>3, <1>4 DEF StreamInv, StreamCursor, StreamSorted, StreamCovers, Events

(* It is about the stream and the events only. *)
LEMMA StreamKept ==
    ASSUME StreamInv, UNCHANGED <<event, stream, opens>>
    PROVE  StreamInv'
  BY Zenon DEF StreamInv, EventsOK, StreamShape, StreamCursor, StreamSorted, StreamCovers, Sent

(* A new event has the next number. *)
LEMMA InsertKeeps ==
    ASSUME StreamInv, InsertEvent
    PROVE  StreamInv'
  <1>1. PICK e \in Events :
          /\ event[e] = "none" /\ \A x \in 1..(e - 1) : event[x] # "none"
          /\ event' = [event EXCEPT ![e] = "open"]
    BY Zenon DEF InsertEvent
  <1>2. stream' = stream /\ opens' = opens
    BY Zenon DEF InsertEvent
  <1>3. Events \subseteq Nat /\ stream.after \in Nat /\ stream.first \in Nat /\ e \in Nat
    BY FeedAssumption DEF Events, StreamInv, StreamShape
  <1>4. EventsOK'
    <2>1. event' \in [Events -> {"none", "open", "committed", "gone"}]
      BY <1>1, Zenon DEF StreamInv, EventsOK
    <2>2. ASSUME NEW x \in Events, NEW y \in Events, x < y, event'[x] = "none"
          PROVE  event'[y] = "none"
      <3>1. x # e /\ event[x] = "none"
        BY <1>1, <2>2, Zenon DEF StreamInv, EventsOK
      <3>2. event[y] = "none"
        BY <2>2, <3>1, Zenon DEF StreamInv, EventsOK
      <3>3. ~(x < e)
        <4>1. x \in 1..(e - 1) => event[x] # "none"
          BY <1>1, Zenon
        <4> QED
          BY <3>1, <4>1 DEF Events
      <3>4. y # e
        BY <1>3, <2>2, <3>1, <3>3, Zenon
      <3> QED
        BY <1>1, <3>2, <3>4, Zenon DEF StreamInv, EventsOK
    <2> QED
      BY <2>1, <2>2, Zenon DEF EventsOK
  <1>5. e > stream.after
    <2>1. CASE stream.after = 0
      BY <2>1 DEF Events
    <2>2. CASE stream.after # 0
      <3>1. stream.after \in Events /\ event[stream.after] = "committed"
        BY <1>3, <2>2 DEF StreamInv, StreamCursor, StreamShape, Events
      <3>2. ~(e < stream.after) /\ e # stream.after
        BY <1>1, <3>1, Zenon DEF StreamInv, EventsOK
      <3> QED
        BY <1>3, <3>2
    <2> QED
      BY <2>1, <2>2, Zenon
  <1>6. \A x \in Events : x <= stream.after => event'[x] = event[x]
    BY <1>1, <1>3, <1>5 DEF StreamInv, EventsOK
  <1>7. StreamCursor'
    <2>1. stream.after # 0 => stream.after \in Events
      BY <1>3 DEF StreamInv, StreamShape, Events
    <2> QED
      BY <1>2, <1>3, <1>6, <2>1 DEF StreamInv, StreamCursor
  <1>8. StreamCovers'
    BY <1>2, <1>6, Zenon DEF StreamInv, StreamCovers, Sent
  <1> QED
    BY <1>2, <1>4, <1>7, <1>8, Zenon DEF StreamInv, StreamShape, StreamSorted

(* An event that commits behind the cursor is late. *)
LEMMA EndKeeps ==
    ASSUME StreamInv, NEW e \in Events, EndEvent(e)
    PROVE  StreamInv'
  <1>1. PICK outcome \in {"committed", "gone"} : event' = [event EXCEPT ![e] = outcome]
    BY Zenon DEF EndEvent
  <1>2. stream' = stream /\ opens' = opens /\ event[e] = "open"
    BY Zenon DEF EndEvent
  <1>3. /\ event' \in [Events -> {"none", "open", "committed", "gone"}]
        /\ \A x \in Events : event'[x] = IF x = e THEN outcome ELSE event[x]
    BY <1>1, Zenon DEF StreamInv, EventsOK
  <1>4. EventsOK'
    BY <1>2, <1>3, Zenon DEF StreamInv, EventsOK
  <1>5. StreamCursor'
    <2>1. stream.after # 0 => stream.after \in Events
      BY FeedAssumption DEF StreamInv, StreamShape, Events
    <2> QED
      BY <1>2, <1>3, <2>1, Zenon DEF StreamInv, StreamCursor
  <1>6. StreamCovers'
    BY <1>2, <1>3, Zenon DEF StreamInv, StreamCovers, Sent
  <1> QED
    BY <1>2, <1>4, <1>5, <1>6, Zenon DEF StreamInv, StreamShape, StreamSorted

(* A client connects, anew or from an event it knows. *)
LEMMA OpenKeeps ==
    ASSUME StreamInv, NEW after \in {0} \cup Committed, OpenStream(after)
    PROVE  StreamInv'
  <1>1. /\ stream' = [Closed EXCEPT !.open = TRUE, !.after = after, !.first = after]
        /\ opens' = opens + 1 /\ opens < MaxOpens /\ event' = event
    BY Zenon DEF OpenStream
  <1>2. /\ DOMAIN stream' = {"open", "after", "first", "sent", "late"}
        /\ stream'.after = after /\ stream'.first = after
        /\ stream'.sent = <<>> /\ stream'.late = {}
    BY <1>1, Zenon DEF Closed
  <1>3. after \in 0..MaxEvents /\ after \in Nat /\ (after # 0 => event[after] = "committed")
    BY FeedAssumption DEF Committed, Events
  <1>4. StreamShape'
    <2>0. opens \in 0..MaxOpens
      BY Zenon DEF StreamInv, StreamShape
    <2>1. opens' \in 0..MaxOpens
      BY <1>1, <2>0, FeedAssumption
    <2>2. after \in 0..after
      BY <1>3
    <2>3. <<>> \in Seq(Events)
      OBVIOUS
    <2> QED
      BY <1>2, <1>3, <2>1, <2>2, <2>3, Zenon DEF StreamShape
  <1>5. StreamCursor' /\ StreamSorted'
    BY <1>1, <1>2, <1>3 DEF StreamCursor, StreamSorted
  <1>6. StreamCovers'
    BY <1>2, <1>3, FeedAssumption DEF StreamCovers, Events
  <1> QED
    BY <1>1, <1>4, <1>5, <1>6, Zenon DEF StreamInv, EventsOK

(* A client that goes away keeps what it has. *)
LEMMA CloseKeeps ==
    ASSUME StreamInv, CloseStream
    PROVE  StreamInv'
  <1>1. stream' = Closed /\ opens' = opens /\ event' = event
    BY Zenon DEF CloseStream
  <1>2. /\ DOMAIN stream' = {"open", "after", "first", "sent", "late"}
        /\ stream'.after = 0 /\ stream'.first = 0
        /\ stream'.sent = <<>> /\ stream'.late = {}
    BY <1>1, Zenon DEF Closed
  <1>3. StreamShape'
    BY <1>1, <1>2, FeedAssumption DEF StreamInv, StreamShape
  <1> QED
    BY <1>1, <1>2, <1>3 DEF StreamInv, EventsOK, StreamCursor, StreamSorted, StreamCovers, Events

(* A page holds committed events ahead of the cursor and leaves out none
   between the first and the last of them; the first page of a stream without
   a cursor leaves out none after its first.                               *)
LEMMA PageWhole ==
    ASSUME FiniteFacts, EventsOK, NEW after \in 0..MaxEvents, NEW page,
           page = ListEventStream(after), page # {}
    PROVE  /\ page \in SUBSET Committed /\ IsFiniteSet(page) /\ page \in SUBSET Nat
           /\ Max(page) \in page /\ \A x \in page : x <= Max(page)
           /\ Min(page) \in page /\ \A x \in page : Min(page) <= x
           /\ \A x \in page : after < x
           /\ after > 0 => \A e \in Committed : after < e /\ e <= Max(page) => e \in page
           /\ after = 0 => \A e \in Committed : Min(page) <= e => e \in page
  <1>0. after \in Nat /\ StreamLimit \in Nat
    BY FeedAssumption
  <1>1. Committed \in SUBSET Events /\ Events \in SUBSET Nat /\ IsFiniteSet(Events)
    BY FeedAssumption, IntervalCount DEF Committed, Events
  <1>2. IsFiniteSet(Committed)
    BY <1>1, SubsetCount, Zenon
  <1>3. CASE after > 0
    <2> DEFINE S == {e \in Committed : e > after}
    <2>1. page = FirstN(S, StreamLimit)
      BY <1>3, Zenon DEF ListEventStream
    <2>2. S \in SUBSET Committed /\ S \in SUBSET Nat /\ \A x \in S : after < x
      BY <1>1, Zenon
    <2>3. IsFiniteSet(S)
      BY <1>2, <2>2, SubsetCount, Zenon
    <2>4. page \in SUBSET S
      BY <2>1, Zenon DEF FirstN
    <2>5. IsFiniteSet(page) /\ page \in SUBSET Nat
      BY <2>2, <2>3, <2>4, SubsetCount, Zenon
    <2>6. /\ Max(page) \in page /\ \A x \in page : x <= Max(page)
          /\ Min(page) \in page /\ \A x \in page : Min(page) <= x
      BY <2>5, MaxMin, Zenon
    <2>7. ASSUME NEW e \in Committed, after < e, e <= Max(page) PROVE e \in page
      <3>1. e \in S /\ Max(page) \in S
        BY <2>4, <2>6, <2>7, Zenon
      <3>2. <<e, Max(page)>> \in Up(S) /\ Orders(Up(S), S)
        <4> HIDE DEF S
        <4> QED
          BY <2>2, <2>7, <3>1, NumbersOrdered, Zenon
      <3>3. page = Top(Up(S), S, StreamLimit)
        <4> HIDE DEF S
        <4> QED
          BY <2>1, <2>2, FirstIsTop, Zenon
      <3> HIDE DEF S
      <3> QED
        BY <1>0, <2>3, <2>6, <3>1, <3>2, <3>3, TopClosed
    <2> QED
      BY <1>0, <1>3, <2>2, <2>4, <2>5, <2>6, <2>7
  <1>4. CASE after = 0
    <2> DEFINE S == Committed
    <2>1. page = LastN(S, StreamLimit)
      BY <1>4 DEF ListEventStream
    <2>2. S \in SUBSET Nat /\ \A x \in S : after < x
      BY <1>1, <1>4 DEF Events
    <2>4. page \in SUBSET S
      BY <2>1, Zenon DEF LastN
    <2>5. IsFiniteSet(page) /\ page \in SUBSET Nat
      BY <1>2, <2>2, <2>4, SubsetCount, Zenon
    <2>6. /\ Max(page) \in page /\ \A x \in page : x <= Max(page)
          /\ Min(page) \in page /\ \A x \in page : Min(page) <= x
      BY <2>5, MaxMin, Zenon
    <2>7. ASSUME NEW e \in Committed, Min(page) <= e PROVE e \in page
      <3>1. e \in S /\ Min(page) \in S /\ e >= Min(page)
        BY <2>2, <2>4, <2>6, <2>7, Zenon
      <3>2. <<e, Min(page)>> \in Down(S) /\ Orders(Down(S), S)
        <4> HIDE DEF S
        <4> QED
          BY <2>2, <3>1, NumbersOrdered, Zenon
      <3>3. page = Top(Down(S), S, StreamLimit)
        <4> HIDE DEF S
        <4> QED
          BY <2>1, <2>2, FirstIsTop, Zenon
      <3>4. IsFiniteSet(S)
        BY <1>2, Zenon
      <3> HIDE DEF S
      <3> QED
        BY <1>0, <2>6, <3>1, <3>2, <3>3, <3>4, TopClosed
    <2> QED
      BY <1>0, <1>4, <2>2, <2>4, <2>5, <2>6, <2>7
  <1> QED
    BY <1>0, <1>3, <1>4

(* A sequence over a set is one over a larger set. *)
LEMMA SeqWidens ==
    ASSUME NEW A, NEW B, A \subseteq B, NEW s \in Seq(A)
    PROVE  s \in Seq(B)
  <1>1. /\ Len(s) \in Nat /\ s = [i \in 1..Len(s) |-> s[i]]
        /\ \A i \in 1..Len(s) : s[i] \in B
    OBVIOUS
  <1> QED
    BY <1>1

(* The members of two sequences put together. *)
LEMMA Concatenated ==
    ASSUME NEW E, NEW s \in Seq(E), NEW t \in Seq(E)
    PROVE  /\ s \o t \in Seq(E)
           /\ \A i \in DOMAIN s : i \in DOMAIN (s \o t) /\ (s \o t)[i] = s[i]
           /\ \A j \in DOMAIN t : Len(s) + j \in DOMAIN (s \o t) /\ (s \o t)[Len(s) + j] = t[j]
           /\ \A i \in DOMAIN (s \o t) :
                \/ i \in DOMAIN s
                \/ i > Len(s) /\ i - Len(s) \in DOMAIN t /\ (s \o t)[i] = t[i - Len(s)]
  OBVIOUS

(* Two ordered sequences, one below and one above a number, are ordered
   together.                                                               *)
LEMMA SortedConcat ==
    ASSUME NEW s \in Seq(Nat), NEW t \in Seq(Nat), NEW m \in Nat,
           \A i \in DOMAIN s : s[i] <= m,
           \A j \in DOMAIN t : m < t[j],
           \A i, j \in DOMAIN s : i < j => s[i] < s[j],
           \A i, j \in DOMAIN t : i < j => t[i] < t[j]
    PROVE  \A i, j \in DOMAIN (s \o t) : i < j => (s \o t)[i] < (s \o t)[j]
  <1> DEFINE q == s \o t
  <1> SUFFICES ASSUME NEW i \in DOMAIN q, NEW j \in DOMAIN q, i < j
               PROVE  q[i] < q[j]
    BY Zenon
  <1>0. /\ \A k \in DOMAIN s : q[k] = s[k] /\ s[k] \in Nat
        /\ \A k \in DOMAIN t : t[k] \in Nat
        /\ \A k \in DOMAIN q :
             \/ k \in DOMAIN s
             \/ k > Len(s) /\ k - Len(s) \in DOMAIN t /\ q[k] = t[k - Len(s)]
        /\ DOMAIN s = 1..Len(s) /\ Len(s) \in Nat /\ i \in Nat /\ j \in Nat
    <2>1. /\ \A k \in DOMAIN s : s[k] \in Nat
          /\ \A k \in DOMAIN t : t[k] \in Nat
          /\ DOMAIN s = 1..Len(s) /\ Len(s) \in Nat
      OBVIOUS
    <2>2. i \in Nat /\ j \in Nat
      <3>1. q \in Seq(Nat)
        BY Concatenated, Zenon
      <3> HIDE DEF q
      <3> QED
        BY <3>1
    <2>3. \A k \in DOMAIN s : q[k] = s[k]
      OBVIOUS
    <2>4. \A k \in DOMAIN q :
             \/ k \in DOMAIN s
             \/ k > Len(s) /\ k - Len(s) \in DOMAIN t /\ q[k] = t[k - Len(s)]
      OBVIOUS
    <2> HIDE DEF q
    <2> QED
      BY <2>1, <2>2, <2>3, <2>4, Zenon
  <1> HIDE DEF q
  <1>1. CASE j \in DOMAIN s
    <2>1. i \in DOMAIN s
      BY <1>0, <1>1
    <2> QED
      BY <1>0, <1>1, <2>1, Zenon
  <1>2. CASE j \notin DOMAIN s /\ i \in DOMAIN s
    <2>1. q[i] = s[i] /\ s[i] <= m /\ s[i] \in Nat
      BY <1>0, <1>2, Zenon
    <2>2. j - Len(s) \in DOMAIN t /\ q[j] = t[j - Len(s)] /\ m < t[j - Len(s)]
          /\ t[j - Len(s)] \in Nat
      BY <1>0, <1>2, Zenon
    <2> QED
      BY <2>1, <2>2
  <1>3. CASE j \notin DOMAIN s /\ i \notin DOMAIN s
    <2>1. /\ j - Len(s) \in DOMAIN t /\ q[j] = t[j - Len(s)]
          /\ i - Len(s) \in DOMAIN t /\ q[i] = t[i - Len(s)]
      BY <1>0, <1>3, Zenon
    <2>2. i - Len(s) < j - Len(s)
      BY <1>0
    <2> QED
      BY <2>1, <2>2, Zenon
  <1> QED
    BY <1>1, <1>2, <1>3, Zenon

(* A poll sends one page and moves the cursor to its last event. *)
LEMMA PollKeeps ==
    ASSUME FiniteFacts, StreamInv, Poll
    PROVE  StreamInv'
  <1> DEFINE page == ListEventStream(stream.after)
             first == IF stream.first = 0 /\ page # {} THEN Min(page) ELSE stream.first
             asc == Ascending(page)
             last == Max(page)
  <1>0. /\ stream.after \in 0..MaxEvents /\ stream.after \in Nat
        /\ stream.first \in Nat /\ stream.first <= stream.after
        /\ page # {} /\ event' = event /\ opens' = opens
    BY FeedAssumption DEF Poll, StreamInv, StreamShape
  <1>1. /\ page \in SUBSET Committed /\ IsFiniteSet(page) /\ page \in SUBSET Nat
        /\ last \in page /\ \A x \in page : x <= last
        /\ Min(page) \in page /\ \A x \in page : Min(page) <= x
        /\ \A x \in page : stream.after < x
        /\ stream.after > 0 =>
             \A e \in Committed : stream.after < e /\ e <= last => e \in page
        /\ stream.after = 0 => \A e \in Committed : Min(page) <= e => e \in page
    BY <1>0, PageWhole DEF StreamInv
  <1>2. /\ stream' = [stream EXCEPT
                        !.after = last, !.first = first, !.sent = @ \o asc,
                        !.late = @ \cup {e \in first..last : event[e] = "open"}]
    BY <1>0, Zenon DEF Poll, CursorAfter
  <1>3. /\ DOMAIN stream' = {"open", "after", "first", "sent", "late"}
        /\ stream'.after = last /\ stream'.first = first
        /\ stream'.sent = stream.sent \o asc
        /\ stream'.late = stream.late \cup {e \in first..last : event[e] = "open"}
    BY <1>2, Zenon DEF StreamInv, StreamShape
  <1>4. /\ asc \in Seq(page)
        /\ \A i, j \in DOMAIN asc : i < j => asc[i] < asc[j]
        /\ \A e \in page : \E i \in DOMAIN asc : asc[i] = e
    <2>1. Numbers(page)
      BY <1>1, Zenon DEF Numbers
    <2> HIDE DEF page
    <2> QED
      BY <1>1, <2>1, AscendingSorts, Zenon
  <1>5. /\ page \in SUBSET Events /\ Events \in SUBSET Nat
        /\ last \in Nat /\ last \in Events /\ last <= MaxEvents /\ stream.after < last
        /\ event[last] = "committed"
    BY <1>1, FeedAssumption DEF Committed, Events
  <1>6. /\ first \in Nat /\ first # 0 /\ first <= last
        /\ stream.first # 0 => first = stream.first
        /\ stream.first = 0 => first = Min(page) /\ stream.after = 0
    <2>1. Min(page) \in Nat /\ Min(page) # 0 /\ Min(page) <= last
      BY <1>1, <1>5, FeedAssumption DEF Events
    <2>2. stream.first = 0 => stream.after = 0
      BY Zenon DEF StreamInv, StreamCursor
    <2> HIDE DEF page, last
    <2> QED
      BY <1>0, <1>5, <2>1, <2>2
  <1> HIDE DEF page, first, asc, last
  <1>7. stream.sent \in Seq(Events) /\ asc \in Seq(Events)
    <2>1. stream.sent \in Seq(Events)
      BY Zenon DEF StreamInv, StreamShape
    <2>2. asc \in Seq(Events)
      BY <1>4, <1>5, SeqWidens, Zenon
    <2> QED
      BY <2>1, <2>2, Zenon
  <1>8. StreamShape'
    <2>1. stream'.sent \in Seq(Events)
      BY <1>3, <1>7, Concatenated
    <2>2. stream'.late \subseteq Events
      <3>1. stream.late \subseteq Events
        BY Zenon DEF StreamInv, StreamShape
      <3>2. first..last \subseteq Events
        BY <1>5, <1>6, FeedAssumption DEF Events
      <3> QED
        BY <1>3, <3>1, <3>2, Zenon
    <2>3. last \in 0..MaxEvents /\ first \in 0..last
      BY <1>5, <1>6, FeedAssumption
    <2>4. opens' \in 0..MaxOpens
      BY <1>0, Zenon DEF StreamInv, StreamShape
    <2> QED
      BY <1>3, <2>1, <2>2, <2>3, <2>4, Zenon DEF StreamShape
  <1>9. StreamCursor'
    BY <1>0, <1>3, <1>5, <1>6 DEF StreamCursor
  <1>10. StreamSorted'
    <2>1. stream.sent \in Seq(Nat) /\ asc \in Seq(Nat)
      BY <1>5, <1>7, SeqWidens, Zenon
    <2>2. \A i \in DOMAIN stream.sent : stream.sent[i] <= stream.after /\ stream.sent[i] \in Nat
      BY <2>1 DEF StreamInv, StreamSorted
    <2>3. \A i, j \in DOMAIN stream.sent : i < j => stream.sent[i] < stream.sent[j]
      BY Zenon DEF StreamInv, StreamSorted
    <2>4. \A j \in DOMAIN asc : asc[j] \in page /\ stream.after < asc[j] /\ asc[j] <= last
      <3>1. \A j \in DOMAIN asc : asc[j] \in page
        BY <1>4
      <3> QED
        BY <3>1, <1>1, Zenon
    <2>5. \A i, j \in DOMAIN stream'.sent : i < j => stream'.sent[i] < stream'.sent[j]
      <3>1. \A i \in DOMAIN stream.sent : stream.sent[i] <= stream.after
        BY <2>2, Zenon
      <3>2. \A j \in DOMAIN asc : stream.after < asc[j]
        BY <2>4, Zenon
      <3> QED
        <4>1. stream'.sent = stream.sent \o asc
          BY <1>3, Zenon
        <4>2. \A i, j \in DOMAIN asc : i < j => asc[i] < asc[j]
          BY <1>4, Zenon
        <4>3. stream.after \in Nat
          BY <1>0, Zenon
        <4>4. \A i, j \in DOMAIN (stream.sent \o asc) :
                i < j => (stream.sent \o asc)[i] < (stream.sent \o asc)[j]
          BY <2>1, <2>3, <3>1, <3>2, <4>2, <4>3, SortedConcat, ZenonT(30)
        <4> QED
          BY <4>1, <4>4, Zenon
    <2>6. \A i \in DOMAIN stream'.sent : stream'.sent[i] <= last
      <3> SUFFICES ASSUME NEW i \in DOMAIN (stream.sent \o asc)
                   PROVE  (stream.sent \o asc)[i] <= last
        BY <1>3, Zenon
      <3>1. \/ i \in DOMAIN stream.sent /\ (stream.sent \o asc)[i] = stream.sent[i]
            \/ /\ i - Len(stream.sent) \in DOMAIN asc
               /\ (stream.sent \o asc)[i] = asc[i - Len(stream.sent)]
        BY <1>7, Concatenated
      <3>2. CASE i \in DOMAIN stream.sent /\ (stream.sent \o asc)[i] = stream.sent[i]
        <4>1. stream.sent[i] <= stream.after /\ stream.sent[i] \in Nat
          BY <2>2, <3>2, Zenon
        <4> QED
          BY <1>0, <1>5, <3>2, <4>1
      <3>3. CASE /\ i - Len(stream.sent) \in DOMAIN asc
                 /\ (stream.sent \o asc)[i] = asc[i - Len(stream.sent)]
        BY <2>4, <3>3, Zenon
      <3> QED
        BY <3>1, <3>2, <3>3, Zenon
    <2> QED
      BY <1>3, <2>5, <2>6, Zenon DEF StreamSorted
  <1>11. StreamCovers'
    <2> SUFFICES ASSUME NEW e \in Events, first < e, e <= last
                 PROVE  /\ event[e] = "open" => e \in stream'.late
                        /\ event[e] = "committed" => e \in stream'.late \/ Sent(e)'
      BY <1>0, <1>3, Zenon DEF StreamCovers
    <2>0. e \in Nat
      BY <1>5, Zenon
    <2>1. event[e] = "open" => e \in stream'.late
      BY <1>3, <1>5, <1>6, <2>0
    <2>2. ASSUME event[e] = "committed", e \in page PROVE Sent(e)'
      <3>1. PICK i \in DOMAIN asc : asc[i] = e
        BY <1>4, <2>2, Zenon
      <3>2. /\ Len(stream.sent) + i \in DOMAIN (stream.sent \o asc)
            /\ (stream.sent \o asc)[Len(stream.sent) + i] = asc[i]
        BY <1>7, Concatenated
      <3>3. stream'.sent = stream.sent \o asc
        BY <1>3, Zenon
      <3> QED
        BY <3>1, <3>2, <3>3, Zenon DEF Sent
    <2>3. ASSUME Sent(e) PROVE Sent(e)'
      <3>1. PICK i \in DOMAIN stream.sent : stream.sent[i] = e
        BY <2>3, Zenon DEF Sent
      <3>2. i \in DOMAIN stream'.sent /\ stream'.sent[i] = e
        BY <1>3, <1>7, <3>1, Concatenated
      <3> QED
        BY <3>2, Zenon DEF Sent
    <2>4. ASSUME event[e] = "committed" PROVE e \in stream'.late \/ Sent(e)'
      <3>0. e \in Committed
        BY <2>4, Zenon DEF Committed
      <3>1. CASE stream.after = 0
        <4>1. first = Min(page)
          BY <1>0, <1>6, <3>1
        <4>2. e \in page
          BY <1>1, <1>6, <2>0, <3>0, <3>1, <4>1
        <4> QED
          BY <2>2, <2>4, <4>2, Zenon
      <3>2. CASE stream.after # 0 /\ stream.after < e
        <4>1. e \in page
          BY <1>0, <1>1, <3>0, <3>2
        <4> QED
          BY <2>2, <2>4, <4>1, Zenon
      <3>3. CASE stream.after # 0 /\ ~(stream.after < e)
        <4>1. first = stream.first
          BY <1>6, <3>3, Zenon
        <4>2. stream.first < e /\ e <= stream.after
          BY <1>0, <2>0, <3>3, <4>1
        <4>3. e \in stream.late \/ Sent(e)
          BY <2>4, <4>2, Zenon DEF StreamInv, StreamCovers
        <4> QED
          BY <1>3, <2>3, <4>3, Zenon
      <3> QED
        BY <3>1, <3>2, <3>3, Zenon
    <2> QED
      BY <2>1, <2>4, Zenon
  <1> QED
    BY <1>0, <1>8, <1>9, <1>10, <1>11, Zenon DEF StreamInv, EventsOK

-----------------------------------------------------------------------------
(* How many pages a row is on. *)
Pages(got, r) == Cardinality({i \in DOMAIN got : r \in got[i]})

(* The cursor has passed a row. *)
Passed(r) == walk.cursor # NoCursor /\ ~Less(KeyOf(r), walk.cursor)

(* The rows of a collection. *)
RowsTyped ==
    /\ rows \in [RowIds -> [in : BOOLEAN, key : 0..MaxTime]]
    /\ writes \in 0..MaxWrites

(* A walk has its fields, and its quiet rows are there. *)
WalkShape ==
    /\ DOMAIN walk = {"phase", "of", "cursor", "got", "quiet"}
    /\ walk.phase \in {"idle", "walking", "done"}
    /\ walk.got \in Seq(SUBSET RowIds)
    /\ walk.cursor = NoCursor \/ walk.cursor \in (1..MaxTime) \X RowIds
    /\ walk.quiet \subseteq RowIds
    /\ \A r \in walk.quiet : Present(r)
    /\ walk.phase = "idle" => walk.cursor = NoCursor /\ walk.got = <<>> /\ walk.quiet = {}

(* A quiet row is on one page once the cursor has passed it, on none before. *)
WalkCounts ==
    \A r \in walk.quiet :
        /\ walk.phase = "walking" =>
             /\ Passed(r) => Pages(walk.got, r) = 1
             /\ ~Passed(r) => Pages(walk.got, r) = 0
        /\ walk.phase = "done" => Pages(walk.got, r) = 1

(* The inductive invariant of the walk. *)
WalkInv == RowsTyped /\ WalkShape /\ WalkCounts

(* Initially there is no walk. *)
LEMMA WalkInitOK == FeedInit => WalkInv
  <1> SUFFICES ASSUME FeedInit PROVE WalkInv
    BY Zenon
  <1>1. RowsTyped
    <2>1. rows \in [RowIds -> [in : {TRUE}, key : 0..2]] /\ writes = 0
      BY Zenon DEF FeedInit
    <2>2. ASSUME NEW r \in RowIds PROVE rows[r] \in [in : BOOLEAN, key : 0..MaxTime]
      <3>1. rows[r] \in [in : {TRUE}, key : 0..2]
        BY <2>1, Zenon
      <3>2. /\ rows[r] = [in |-> rows[r].in, key |-> rows[r].key]
            /\ rows[r].in = TRUE /\ rows[r].key \in 0..2
        BY <3>1, Zenon
      <3>3. rows[r].key \in 0..MaxTime
        BY <3>2, FeedAssumption
      <3>4. rows[r].in \in BOOLEAN
        BY <3>2, Zenon
      <3> QED
        BY <3>2, <3>3, <3>4, Zenon
    <2>3. rows = [r \in RowIds |-> rows[r]]
      BY <2>1, Zenon
    <2>4. rows \in [RowIds -> [in : BOOLEAN, key : 0..MaxTime]]
      BY <2>2, <2>3, Zenon
    <2>5. writes \in 0..MaxWrites
      BY <2>1, FeedAssumption
    <2> QED
      BY <2>4, <2>5, Zenon DEF RowsTyped
  <1>2. /\ DOMAIN walk = {"phase", "of", "cursor", "got", "quiet"}
        /\ walk.phase = "idle" /\ walk.cursor = NoCursor
        /\ walk.got = <<>> /\ walk.quiet = {}
    BY DEF FeedInit
  <1> QED
    BY <1>1, <1>2 DEF WalkInv, WalkShape, WalkCounts

(* It is about the rows and the walk only. *)
LEMMA WalkKept ==
    ASSUME WalkInv, UNCHANGED <<rows, walk, writes>>
    PROVE  WalkInv'
  BY Zenon DEF WalkInv, RowsTyped, WalkShape, WalkCounts, Present, Passed, KeyOf

(* A write leaves the quiet rows and the walk as they are. *)
LEMMA QuietRowsCount ==
    ASSUME WalkInv, RowsTyped',
           DOMAIN walk' = DOMAIN walk, walk'.phase = walk.phase,
           walk'.cursor = walk.cursor, walk'.got = walk.got,
           walk'.quiet \subseteq walk.quiet,
           \A r \in walk'.quiet : rows'[r] = rows[r]
    PROVE  WalkInv'
  <1>1. \A r \in walk'.quiet : (Present(r)' <=> Present(r)) /\ (Passed(r)' <=> Passed(r))
    BY Zenon DEF Present, Passed, KeyOf
  <1>2. WalkShape'
    BY <1>1, Zenon DEF WalkInv, WalkShape
  <1>3. WalkCounts'
    BY <1>1, Zenon DEF WalkInv, WalkCounts
  <1> QED
    BY <1>2, <1>3, Zenon DEF WalkInv

(* A row that is written is not quiet. *)
LEMMA WriteKeeps ==
    ASSUME WalkInv, NEW r \in RowIds, NEW t \in 1..MaxTime, WriteRow(r, t)
    PROVE  WalkInv'
  <1> DEFINE new == IF rows[r].key = 0 THEN [in |-> TRUE, key |-> t]
                    ELSE IF walk.of.moves THEN [rows[r] EXCEPT !.key = t]
                    ELSE rows[r]
  <1>0. /\ rows \in [RowIds -> [in : BOOLEAN, key : 0..MaxTime]]
        /\ t \in 0..MaxTime
    BY FeedAssumption DEF WalkInv, RowsTyped
  <1>1. /\ rows' = [rows EXCEPT ![r] = new]
        /\ walk' = [walk EXCEPT !.quiet = IF rows'[r] = rows[r] THEN @ ELSE @ \ {r}]
        /\ writes < MaxWrites /\ writes' = writes + 1
    <2>1. rows' = [rows EXCEPT ![r] = new]
      BY Zenon DEF WriteRow
    <2>2. walk' = [walk EXCEPT !.quiet = IF rows'[r] = rows[r] THEN @ ELSE @ \ {r}]
      BY Zenon DEF WriteRow
    <2>3. writes < MaxWrites /\ writes' = writes + 1
      BY Zenon DEF WriteRow
    <2> QED
      BY <2>1, <2>2, <2>3, Zenon
  <1>2. new \in [in : BOOLEAN, key : 0..MaxTime]
    BY <1>0, Zenon
  <1> HIDE DEF new
  <1>3. RowsTyped'
    <2>1. rows' \in [RowIds -> [in : BOOLEAN, key : 0..MaxTime]]
      BY <1>0, <1>1, <1>2, Zenon
    <2>2. writes' \in 0..MaxWrites
      BY <1>1, FeedAssumption DEF WalkInv, RowsTyped
    <2> QED
      BY <2>1, <2>2, Zenon DEF RowsTyped
  <1>4. \A x \in RowIds : x # r => rows'[x] = rows[x]
    BY <1>0, <1>1, Zenon
  <1>5. /\ DOMAIN walk' = DOMAIN walk /\ walk'.phase = walk.phase
        /\ walk'.cursor = walk.cursor /\ walk'.got = walk.got
        /\ walk'.quiet = IF rows'[r] = rows[r] THEN walk.quiet ELSE walk.quiet \ {r}
    <2>1. DOMAIN walk = {"phase", "of", "cursor", "got", "quiet"}
      BY Zenon DEF WalkInv, WalkShape
    <2> QED
      BY <1>1, <2>1, Zenon
  <1>6. walk.quiet \subseteq RowIds
    BY Zenon DEF WalkInv, WalkShape
  <1>7. walk'.quiet \subseteq walk.quiet /\ \A x \in walk'.quiet : rows'[x] = rows[x]
    BY <1>4, <1>5, <1>6, Zenon
  <1> QED
    BY <1>3, <1>5, <1>7, QuietRowsCount, Zenon

(* Nor is one that leaves the filter. *)
LEMMA LeaveKeeps ==
    ASSUME WalkInv, NEW r \in RowIds, LeaveFilter(r)
    PROVE  WalkInv'
  <1>0. rows \in [RowIds -> [in : BOOLEAN, key : 0..MaxTime]]
    BY Zenon DEF WalkInv, RowsTyped
  <1>1. /\ rows' = [rows EXCEPT ![r].in = FALSE]
        /\ walk' = [walk EXCEPT !.quiet = @ \ {r}]
        /\ writes < MaxWrites /\ writes' = writes + 1
    BY Zenon DEF LeaveFilter
  <1>3. RowsTyped'
    <2>1. rows' \in [RowIds -> [in : BOOLEAN, key : 0..MaxTime]]
      BY <1>0, <1>1, Zenon
    <2>2. writes' \in 0..MaxWrites
      BY <1>1, FeedAssumption DEF WalkInv, RowsTyped
    <2> QED
      BY <2>1, <2>2, Zenon DEF RowsTyped
  <1>4. \A x \in RowIds : x # r => rows'[x] = rows[x]
    BY <1>0, <1>1, Zenon
  <1>5. /\ DOMAIN walk' = DOMAIN walk /\ walk'.phase = walk.phase
        /\ walk'.cursor = walk.cursor /\ walk'.got = walk.got
        /\ walk'.quiet = walk.quiet \ {r}
    <2>1. DOMAIN walk = {"phase", "of", "cursor", "got", "quiet"}
      BY Zenon DEF WalkInv, WalkShape
    <2> QED
      BY <1>1, <2>1, Zenon
  <1>6. walk.quiet \subseteq RowIds
    BY Zenon DEF WalkInv, WalkShape
  <1> QED
    BY <1>3, <1>4, <1>5, <1>6, QuietRowsCount, Zenon

(* A walk begins with no page, and every row present is quiet. *)
LEMMA BeginKeeps ==
    ASSUME FiniteFacts, WalkInv, BeginWalk
    PROVE  WalkInv'
  <1>1. /\ walk.phase = "idle" /\ rows' = rows /\ writes' = writes
        /\ walk' = [walk EXCEPT !.phase = "walking", !.quiet = {r \in RowIds : Present(r)}]
    BY Zenon DEF BeginWalk
  <1>2. /\ DOMAIN walk = {"phase", "of", "cursor", "got", "quiet"}
        /\ walk.cursor = NoCursor /\ walk.got = <<>>
    BY <1>1, Zenon DEF WalkInv, WalkShape
  <1>3. /\ DOMAIN walk' = {"phase", "of", "cursor", "got", "quiet"}
        /\ walk'.phase = "walking" /\ walk'.cursor = NoCursor /\ walk'.got = <<>>
        /\ walk'.quiet = {r \in RowIds : Present(r)}
    BY <1>1, <1>2, Zenon
  <1>4. \A r \in RowIds : Present(r)' <=> Present(r)
    BY <1>1, Zenon DEF Present
  <1>5. WalkShape'
    BY <1>3, <1>4 DEF WalkShape
  <1>6. ASSUME NEW r PROVE Pages(<<>>, r) = 0
    <2>1. {i \in DOMAIN <<>> : r \in <<>>[i]} = {}
      OBVIOUS
    <2> QED
      BY <2>1, EmptyCount, Zenon DEF Pages
  <1>7. WalkCounts'
    BY <1>3, <1>6, Zenon DEF WalkCounts, Passed
  <1> QED
    BY <1>1, <1>5, <1>7, Zenon DEF WalkInv, RowsTyped

-----------------------------------------------------------------------------
(* Rows in the order of a walk: later keys first. *)
Newer == {p \in RowIds \X RowIds : ~Less(KeyOf(p[1]), KeyOf(p[2]))}

(* It orders the rows. *)
LEMMA RowsOrdered ==
    ASSUME RowsTyped
    PROVE  /\ \A x, y \in RowIds : <<x, y>> \in Newer <=> ~Less(KeyOf(x), KeyOf(y))
           /\ Orders(Newer, RowIds)
  <1>1. \A x, y \in RowIds : <<x, y>> \in Newer <=> ~Less(KeyOf(x), KeyOf(y))
    BY Zenon DEF Newer
  <1>2. \A x \in RowIds : x \in Nat /\ rows[x].key \in Nat
    BY FeedAssumption DEF RowsTyped
  <1>3. \A x, y \in RowIds :
          Less(KeyOf(x), KeyOf(y)) <=>
            rows[x].key < rows[y].key \/ (rows[x].key = rows[y].key /\ x < y)
    BY Zenon DEF Less, KeyOf
  <1>4. Orders(Newer, RowIds)
    BY <1>1, <1>2, <1>3 DEF Orders
  <1> QED
    BY <1>1, <1>4, Zenon

(* One more page adds one to the rows that are on it. *)
LEMMA PagesAppended ==
    ASSUME FiniteFacts, NEW got \in Seq(SUBSET RowIds), NEW page \in SUBSET RowIds, NEW r
    PROVE  /\ Append(got, page) \in Seq(SUBSET RowIds)
           /\ Pages(got, r) \in Nat
           /\ r \in page => Pages(Append(got, page), r) = Pages(got, r) + 1
           /\ r \notin page => Pages(Append(got, page), r) = Pages(got, r)
  <1> DEFINE q == Append(got, page)
             n == Len(got) + 1
             S == {i \in DOMAIN got : r \in got[i]}
             T == {i \in DOMAIN q : r \in q[i]}
  <1>1. /\ q \in Seq(SUBSET RowIds)
        /\ DOMAIN q = DOMAIN got \cup {n}
        /\ n \notin DOMAIN got
        /\ \A i \in DOMAIN got : q[i] = got[i]
        /\ q[n] = page
        /\ DOMAIN got = 1..Len(got) /\ Len(got) \in Nat
    OBVIOUS
  <1>2. IsFiniteSet(S) /\ Cardinality(S) \in Nat
    <2>1. IsFiniteSet(DOMAIN got)
      BY <1>1, IntervalCount
    <2>2. S \in SUBSET DOMAIN got
      BY Zenon
    <2>3. IsFiniteSet(S)
      BY <2>1, <2>2, SubsetCount, Zenon
    <2> QED
      BY <2>3, CountType, Zenon
  <1>3. ASSUME r \in page PROVE Cardinality(T) = Cardinality(S) + 1
    <2>1. T = S \cup {n} /\ n \notin S
      <3> HIDE DEF q, n
      <3> QED
        BY <1>1, <1>3, Zenon
    <2> HIDE DEF S, T, n
    <2> QED
      BY <1>2, <2>1, AddedCount, Zenon
  <1>4. ASSUME r \notin page PROVE T = S
    <2> HIDE DEF q, n
    <2> QED
      BY <1>1, <1>4, Zenon
  <1> QED
    BY <1>1, <1>2, <1>3, <1>4, Zenon DEF Pages

(* What NextPage cuts from the rows left: when there are more, the page is
   what is not older than its last row; when not, it is all of them.       *)
LEMMA PageCut ==
    ASSUME FiniteFacts, RowsTyped, NEW left \in SUBSET RowIds, NEW found, NEW page,
           found = Foremost(left, PageLimit + 1),
           page = Foremost(found, PageLimit)
    PROVE  /\ page \in SUBSET left
           /\ Cardinality(found) > PageLimit =>
                \E last \in page : \A x \in page : ~Less(KeyOf(x), KeyOf(last))
           /\ Cardinality(found) > PageLimit =>
                \A last \in page : \A r \in left : ~Less(KeyOf(r), KeyOf(last)) => r \in page
           /\ ~(Cardinality(found) > PageLimit) => page = left
  <1>0. PageLimit \in Nat /\ PageLimit # 0 /\ PageLimit + 1 \in Nat
    BY FeedAssumption
  <1>1. /\ \A x, y \in RowIds : <<x, y>> \in Newer <=> ~Less(KeyOf(x), KeyOf(y))
        /\ Orders(Newer, RowIds)
    BY RowsOrdered, Zenon
  <1>2. found \in SUBSET left /\ page \in SUBSET found
    BY Zenon DEF Foremost
  <1>3. IsFiniteSet(left) /\ IsFiniteSet(found) /\ IsFiniteSet(page)
    <2>1. IsFiniteSet(left)
      BY FeedAssumption, SubsetCount, Zenon
    <2>2. IsFiniteSet(found)
      BY <1>2, <2>1, SubsetCount, Zenon
    <2> QED
      BY <1>2, <2>1, <2>2, SubsetCount, Zenon
  <1>4. Orders(Newer, left) /\ Orders(Newer, found) /\ Orders(Newer, page)
    <2>1. Orders(Newer, left)
      BY <1>1, SubsetOrdered, Zenon
    <2>2. Orders(Newer, found)
      BY <1>2, <2>1, SubsetOrdered, Zenon
    <2> QED
      BY <1>2, <2>1, <2>2, SubsetOrdered, Zenon
  <1>5. found = Top(Newer, left, PageLimit + 1)
    <2>1. \A r \in left : Upto(Newer, left, r) = {x \in left : ~Less(KeyOf(x), KeyOf(r))}
      BY <1>1, Zenon DEF Upto
    <2> QED
      BY <2>1, Zenon DEF Top, Foremost
  <1>6. page = Top(Newer, found, PageLimit)
    <2>1. \A r \in found : Upto(Newer, found, r) = {x \in found : ~Less(KeyOf(x), KeyOf(r))}
      BY <1>1, <1>2, Zenon DEF Upto
    <2> QED
      BY <2>1, Zenon DEF Top, Foremost
  <1>7. ASSUME Cardinality(found) > PageLimit
        PROVE  \E last \in page : \A x \in page : ~Less(KeyOf(x), KeyOf(last))
    <2>1. Cardinality(page) = PageLimit
      BY <1>0, <1>3, <1>4, <1>6, <1>7, TopSize
    <2>2. page # {}
      BY <1>0, <2>1, EmptyCount, Zenon
    <2>3. PICK last \in page : \A x \in page : <<x, last>> \in Newer
      BY <1>3, <1>4, <2>2, LastExists, Zenon
    <2> QED
      BY <1>1, <1>2, <2>3, Zenon
  <1>8. ASSUME NEW last \in page, NEW r \in left, ~Less(KeyOf(r), KeyOf(last))
        PROVE  r \in page
    <2>1. <<r, last>> \in Newer
      BY <1>1, <1>2, <1>8, Zenon
    <2>2. r \in found
      BY <1>0, <1>2, <1>3, <1>4, <1>5, <2>1, TopClosed
    <2> QED
      BY <1>0, <1>3, <1>4, <1>6, <2>1, <2>2, TopClosed
  <1>9. ASSUME ~(Cardinality(found) > PageLimit) PROVE page = left
    <2>1. /\ Cardinality(left) <= PageLimit + 1 => found = left
          /\ PageLimit + 1 <= Cardinality(left) => Cardinality(found) = PageLimit + 1
          /\ Cardinality(left) \in Nat
      BY <1>0, <1>3, <1>4, <1>5, TopSize, Zenon
    <2>2. found = left
      BY <1>0, <1>9, <2>1
    <2>3. /\ Cardinality(found) <= PageLimit => page = found
          /\ Cardinality(found) \in Nat
      BY <1>0, <1>3, <1>4, <1>6, TopSize, Zenon
    <2> QED
      BY <1>0, <1>9, <2>2, <2>3
  <1> QED
    BY <1>2, <1>7, <1>8, <1>9, Zenon

(* The next page holds the rows the cursor passes with it, and no other. *)
LEMMA NextPageKeeps ==
    ASSUME FiniteFacts, WalkInv, NextPage
    PROVE  WalkInv'
  <1> DEFINE present == {r \in RowIds : Present(r)}
             left == addResourceCursor(walk.cursor, present)
             found == PageRows(walk.cursor)
             page == Foremost(found, PageLimit)
             more == Cardinality(found) > PageLimit
             last == CHOOSE r \in page : \A x \in page : ~Less(KeyOf(x), KeyOf(r))
  <1>1. /\ walk.phase = "walking" /\ rows' = rows /\ writes' = writes
        /\ walk' = [walk EXCEPT
                      !.got = Append(@, page),
                      !.phase = IF more THEN @ ELSE "done",
                      !.cursor = IF more THEN KeyOf(last) ELSE @]
    BY Zenon DEF NextPage
  <1>2. /\ DOMAIN walk = {"phase", "of", "cursor", "got", "quiet"}
        /\ walk.got \in Seq(SUBSET RowIds)
        /\ walk.quiet \subseteq present
        /\ RowsTyped
        /\ walk.cursor = NoCursor \/ walk.cursor \in (1..MaxTime) \X RowIds
    BY Zenon DEF WalkInv, WalkShape
  <1>3. /\ DOMAIN walk' = {"phase", "of", "cursor", "got", "quiet"}
        /\ walk'.got = Append(walk.got, page)
        /\ walk'.phase = IF more THEN "walking" ELSE "done"
        /\ walk'.cursor = IF more THEN KeyOf(last) ELSE walk.cursor
        /\ walk'.quiet = walk.quiet
    <2> HIDE DEF page, more, last
    <2> QED
      BY <1>1, <1>2, Zenon
  <1>4. left \in SUBSET present /\ left \in SUBSET RowIds
    BY Zenon DEF addResourceCursor
  <1>5. \A r \in present : r \in left <=> walk.cursor = NoCursor \/ Less(KeyOf(r), walk.cursor)
    BY Zenon DEF addResourceCursor
  <1>6. found = Foremost(left, PageLimit + 1)
    BY Zenon DEF PageRows
  <1> HIDE DEF left, found
  <1>7. /\ page \in SUBSET left
        /\ more => \E x \in page : \A y \in page : ~Less(KeyOf(y), KeyOf(x))
        /\ more => \A x \in page : \A r \in left : ~Less(KeyOf(r), KeyOf(x)) => r \in page
        /\ ~more => page = left
    BY <1>2, <1>4, <1>6, PageCut
  <1> HIDE DEF page, more
  <1>8. ASSUME more
        PROVE  /\ last \in page /\ \A x \in page : ~Less(KeyOf(x), KeyOf(last))
               /\ last \in left /\ last \in present /\ last \in RowIds
    <2>1. last \in page /\ \A x \in page : ~Less(KeyOf(x), KeyOf(last))
      BY <1>7, <1>8, Zenon
    <2> HIDE DEF last
    <2> QED
      BY <1>4, <1>7, <2>1, Zenon
  <1> HIDE DEF last
  <1>9. ASSUME NEW r \in walk.quiet
        PROVE  /\ Pages(walk'.got, r) = IF r \in page THEN Pages(walk.got, r) + 1
                                        ELSE Pages(walk.got, r)
               /\ Passed(r) => Pages(walk.got, r) = 1
               /\ ~Passed(r) => Pages(walk.got, r) = 0
               /\ Passed(r) <=> r \notin left
               /\ r \in present
    <2>1. page \in SUBSET RowIds
      BY <1>4, <1>7, Zenon
    <2>2. Pages(walk'.got, r) = IF r \in page THEN Pages(walk.got, r) + 1
                               ELSE Pages(walk.got, r)
      <3>1. walk.got \in Seq(SUBSET RowIds)
        BY <1>2, Zenon
      <3>2. /\ r \in page => Pages(Append(walk.got, page), r) = Pages(walk.got, r) + 1
            /\ r \notin page => Pages(Append(walk.got, page), r) = Pages(walk.got, r)
        BY <2>1, <3>1, PagesAppended, Zenon
      <3>3. walk'.got = Append(walk.got, page)
        BY <1>3, Zenon
      <3> QED
        BY <3>2, <3>3, Zenon
    <2>3. /\ Passed(r) => Pages(walk.got, r) = 1
          /\ ~Passed(r) => Pages(walk.got, r) = 0
      BY <1>1, Zenon DEF WalkInv, WalkCounts
    <2>4. r \in present /\ (Passed(r) <=> r \notin left)
      BY <1>2, <1>5, Zenon DEF Passed
    <2> QED
      BY <2>2, <2>3, <2>4, Zenon
  <1>10. WalkShape'
    <2>1. walk'.got \in Seq(SUBSET RowIds)
      <3>1. page \in SUBSET RowIds
        BY <1>4, <1>7, Zenon
      <3> QED
        BY <1>2, <1>3, <3>1, PagesAppended, Zenon
    <2>2. walk'.cursor = NoCursor \/ walk'.cursor \in (1..MaxTime) \X RowIds
      <3>1. CASE more
        <4>1. last \in RowIds /\ Present(last)
          BY <1>8, <3>1, Zenon
        <4>2. rows[last].key \in 1..MaxTime
          BY <1>2, <4>1, FeedAssumption DEF Present, RowsTyped
        <4> QED
          BY <1>3, <3>1, <4>1, <4>2 DEF KeyOf
      <3>2. CASE ~more
        BY <1>2, <1>3, <3>2, Zenon
      <3> QED
        BY <3>1, <3>2, Zenon
    <2>3. \A r \in walk'.quiet : r \in RowIds /\ Present(r)'
      BY <1>1, <1>2, <1>3, Zenon DEF Present
    <2>4. walk'.phase \in {"walking", "done"}
      BY <1>3, Zenon
    <2> QED
      BY <1>3, <2>1, <2>2, <2>3, <2>4, Zenon DEF WalkShape
  <1>11. CASE more
    <2>1. walk'.phase = "walking" /\ walk'.cursor = KeyOf(last)
      BY <1>3, <1>11, Zenon
    <2>2. KeyOf(last) # NoCursor
      <3>1. Present(last) /\ last \in RowIds
        BY <1>8, <1>11, Zenon
      <3>2. rows[last].key \in Nat /\ rows[last].key > 0
        BY <1>2, <3>1, FeedAssumption DEF Present, RowsTyped
      <3>3. KeyOf(last)[1] = rows[last].key /\ NoCursor[1] = 0
        BY Zenon DEF KeyOf, NoCursor
      <3> QED
        BY <3>2, <3>3
    <2>3. ASSUME NEW r \in walk.quiet
          PROVE  Passed(r)' <=> ~Less(KeyOf(r), KeyOf(last))
      BY <1>1, <2>1, <2>2, Zenon DEF Passed, KeyOf
    <2>4. ASSUME NEW r \in walk.quiet, r \in left
          PROVE  Passed(r)' <=> r \in page
      BY <1>7, <1>8, <1>11, <2>3, <2>4, Zenon
    <2>5. ASSUME NEW r \in walk.quiet, r \notin left
          PROVE  Passed(r)' /\ r \notin page
      <3>1. walk.cursor # NoCursor /\ ~Less(KeyOf(r), walk.cursor)
        BY <1>9, <2>5, Zenon DEF Passed
      <3>2. Less(KeyOf(last), walk.cursor)
        BY <1>5, <1>8, <1>11, <3>1, Zenon
      <3>3. r \in RowIds /\ last \in RowIds /\ walk.cursor \in (1..MaxTime) \X RowIds
        BY <1>2, <1>8, <1>9, <1>11, <3>1, Zenon
      <3>4. ~Less(KeyOf(r), KeyOf(last))
        <4>1. /\ r \in Nat /\ rows[r].key \in Nat
              /\ last \in Nat /\ rows[last].key \in Nat
              /\ walk.cursor[1] \in Nat /\ walk.cursor[2] \in Nat
          BY <1>2, <3>3, FeedAssumption DEF RowsTyped
        <4> QED
          BY <3>1, <3>2, <4>1 DEF Less, KeyOf
      <3> QED
        BY <1>7, <2>3, <2>5, <3>4, Zenon
    <2>6. WalkCounts'
      <3> SUFFICES ASSUME NEW r \in walk.quiet
                   PROVE  /\ Passed(r)' => Pages(walk'.got, r) = 1
                          /\ ~Passed(r)' => Pages(walk'.got, r) = 0
        BY <1>3, <2>1, Zenon DEF WalkCounts
      <3>1. CASE r \in left
        BY <1>9, <2>4, <3>1
      <3>2. CASE r \notin left
        BY <1>9, <2>5, <3>2, Zenon
      <3> QED
        BY <3>1, <3>2, Zenon
    <2> QED
      BY <1>1, <1>10, <2>6, Zenon DEF WalkInv, RowsTyped
  <1>12. CASE ~more
    <2>1. walk'.phase = "done"
      BY <1>3, <1>12, Zenon
    <2>2. page = left
      BY <1>7, <1>12, Zenon
    <2>3. WalkCounts'
      <3> SUFFICES ASSUME NEW r \in walk.quiet PROVE Pages(walk'.got, r) = 1
        BY <1>3, <2>1, Zenon DEF WalkCounts
      <3> QED
        BY <1>9, <2>2
    <2> QED
      BY <1>1, <1>10, <2>3, Zenon DEF WalkInv, RowsTyped
  <1> QED
    BY <1>11, <1>12, Zenon

-----------------------------------------------------------------------------
(* The inductive invariant of the feeds. *)
FeedInv == StreamInv /\ WalkInv

(* Every step of a stream or a walk keeps it. *)
LEMMA FeedStep ==
    ASSUME FiniteFacts
    PROVE  FeedInv /\ [StreamNext \/ WalkNext]_feedVars => FeedInv'
  <1> SUFFICES ASSUME FeedInv, [StreamNext \/ WalkNext]_feedVars PROVE FeedInv'
    BY Zenon
  <1> USE DEF FeedInv
  <1>1. CASE StreamNext
    <2>1. UNCHANGED <<rows, walk, writes>>
      BY <1>1, Zenon DEF StreamNext, InsertEvent, EndEvent, OpenStream, Poll, CloseStream
    <2>2. WalkInv'
      BY <2>1, WalkKept, Zenon
    <2>3. StreamInv'
      BY <1>1, InsertKeeps, EndKeeps, OpenKeeps, PollKeeps, CloseKeeps, Zenon DEF StreamNext
    <2> QED
      BY <2>2, <2>3, Zenon
  <1>2. CASE WalkNext
    <2>1. UNCHANGED <<event, stream, opens>>
      BY <1>2, Zenon DEF WalkNext, WriteRow, LeaveFilter, BeginWalk, NextPage
    <2>2. StreamInv'
      BY <2>1, StreamKept, Zenon
    <2>3. WalkInv'
      BY <1>2, WriteKeeps, LeaveKeeps, BeginKeeps, NextPageKeeps, Zenon DEF WalkNext
    <2> QED
      BY <2>2, <2>3, Zenon
  <1>3. CASE UNCHANGED feedVars
    BY <1>3, StreamKept, WalkKept, Zenon DEF feedVars
  <1> QED
    BY <1>1, <1>2, <1>3, Zenon

(* It says what FeedsAreComplete says, and more. *)
LEMMA FeedInvSuffices == FeedInv => FeedsAreComplete
  <1> SUFFICES ASSUME FeedInv PROVE FeedsAreComplete
    BY Zenon
  <1> USE DEF FeedInv
  <1>1. FeedTypeOK
    BY Zenon DEF FeedTypeOK, StreamInv, EventsOK, StreamShape, WalkInv, RowsTyped, WalkShape
  <1>2. StreamSkipsOnlyLate
    BY Zenon DEF StreamSkipsOnlyLate, StreamInv, StreamSorted, StreamCovers, Sent, Committed
  <1>3. WalkCoversQuiet
    BY Zenon DEF WalkCoversQuiet, WalkInv, WalkCounts, Pages
  <1> QED
    BY <1>1, <1>2, <1>3, Zenon DEF FeedsAreComplete

-----------------------------------------------------------------------------
INSTANCE FiniteSetTheorems

(* The library has the facts about finite sets that the lemmas used. *)
LEMMA FiniteFactsHold == FiniteFacts
  <1>1. \A S : IsFiniteSet(S) => Cardinality(S) \in Nat
    BY FS_CardinalityType, Zenon
  <1>2. /\ IsFiniteSet({}) /\ Cardinality({}) = 0
        /\ \A S : IsFiniteSet(S) => (Cardinality(S) = 0 <=> S = {})
    BY FS_EmptySet, Zenon
  <1>3. \A S : \A T \in SUBSET S : IsFiniteSet(S) =>
             /\ IsFiniteSet(T) /\ Cardinality(T) <= Cardinality(S)
             /\ Cardinality(S) = Cardinality(T) => S = T
    BY FS_Subset, Zenon
  <1>4. \A S, x : IsFiniteSet(S) =>
             /\ IsFiniteSet(S \cup {x})
             /\ Cardinality(S \cup {x}) = IF x \in S THEN Cardinality(S) ELSE Cardinality(S) + 1
    BY FS_AddElement, Zenon
  <1>5. \A n \in Nat : IsFiniteSet(1..n) /\ Cardinality(1..n) = n
    BY FS_Interval
  <1>6. \A S, T : \A f \in Injection(S, T) : IsFiniteSet(T) =>
             (Cardinality(S) = Cardinality(T) <=> f \in Surjection(S, T))
    BY FS_Injection, Zenon
  <1>7. \A S, T : IsFiniteSet(S) /\ ExistsBijection(S, T) =>
             IsFiniteSet(T) /\ Cardinality(T) = Cardinality(S)
    BY FS_Bijection, Zenon
  <1> QED
    BY <1>1, <1>2, <1>3, <1>4, <1>5, <1>6, <1>7, Zenon DEF FiniteFacts

(* However events commit, clients reconnect and rows move under a walk, the
   invariant holds (writeEventStream, the collection queries).             *)
THEOREM FeedInvariance == FeedSpec => []FeedInv
  <1>1. FeedInit => FeedInv
    BY StreamInitOK, WalkInitOK, Zenon DEF FeedInv
  <1>2. FeedInv /\ [StreamNext \/ WalkNext]_feedVars => FeedInv'
    BY FiniteFactsHold, FeedStep, Zenon
  <1> QED
    BY <1>1, <1>2, PTL DEF FeedSpec

(* For any number of events, rows, writes and any limits: a stream sends its
   events in order and leaves out none that was committed when its cursor
   passed, and a walk over pages holds every row that stayed put exactly once
   (writeEventStream, ListRunCollection and its like).                     *)
THEOREM FeedsStayComplete == FeedSpec => []FeedsAreComplete
  <1>1. FeedInv => FeedsAreComplete
    BY FeedInvSuffices, Zenon
  <1> QED
    BY <1>1, FeedInvariance, PTL

=============================================================================
