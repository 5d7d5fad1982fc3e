---------------------------- MODULE AccessProofs ----------------------------
(***************************************************************************)
(* Who may write and what a write leaves behind: access is earned and      *)
(* logins are limited, for any addresses, callers and rows; a managed      *)
(* project's file is put back and its preimage kept, for any number of     *)
(* drills, workers, contents and failures.                                 *)
(***************************************************************************)
EXTENDS ProjectWrite, ApiAccess, TLAPS

(***************************************************************************)
(* Access: credentials, roles and the login limit.                         *)
(***************************************************************************)

(* What the lemmas below use of finite sets; FiniteFactsHold, near the end,
   has it from the library.  Few obligations need the library's theorems.  *)
FiniteFacts ==
    /\ \A S : IsFiniteSet(S) => Cardinality(S) \in Nat
    /\ IsFiniteSet({}) /\ Cardinality({}) = 0
    /\ \A S : IsFiniteSet(S) => (Cardinality(S) = 0 <=> S = {})
    /\ \A S : \A T \in SUBSET S : IsFiniteSet(S) =>
         /\ IsFiniteSet(T) /\ Cardinality(T) <= Cardinality(S)
         /\ Cardinality(S) = Cardinality(T) => S = T
    /\ \A S, x : IsFiniteSet(S) =>
         /\ IsFiniteSet(S \cup {x})
         /\ Cardinality(S \cup {x}) = IF x \in S THEN Cardinality(S) ELSE Cardinality(S) + 1
    /\ \A S, T : IsFiniteSet(S) /\ IsFiniteSet(T) =>
         /\ IsFiniteSet(S \cup T)
         /\ Cardinality(S \cup T) = Cardinality(S) + Cardinality(T) - Cardinality(S \cap T)
    /\ \A n \in Nat : IsFiniteSet(1..n) /\ Cardinality(1..n) = n

(* A finite set has a number of members. *)
LEMMA CountType ==
    ASSUME FiniteFacts, NEW S, IsFiniteSet(S)
    PROVE  Cardinality(S) \in Nat
  BY Zenon DEF FiniteFacts

(* Only the empty set has none. *)
LEMMA EmptyCount ==
    ASSUME FiniteFacts
    PROVE  /\ IsFiniteSet({}) /\ Cardinality({}) = 0
           /\ \A S : IsFiniteSet(S) => (Cardinality(S) = 0 <=> S = {})
  BY Zenon DEF FiniteFacts

(* A part has no more members than the whole. *)
LEMMA SubsetCount ==
    ASSUME FiniteFacts, NEW S, IsFiniteSet(S), NEW T \in SUBSET S
    PROVE  /\ IsFiniteSet(T) /\ Cardinality(T) <= Cardinality(S)
           /\ Cardinality(S) = Cardinality(T) => S = T
  BY Zenon DEF FiniteFacts

(* One more member. *)
LEMMA AddedCount ==
    ASSUME FiniteFacts, NEW S, NEW x, IsFiniteSet(S)
    PROVE  /\ IsFiniteSet(S \cup {x})
           /\ Cardinality(S \cup {x}) = IF x \in S THEN Cardinality(S) ELSE Cardinality(S) + 1
  BY Zenon DEF FiniteFacts

(* The members of two sets. *)
LEMMA UnionCount ==
    ASSUME FiniteFacts, NEW S, NEW T, IsFiniteSet(S), IsFiniteSet(T)
    PROVE  /\ IsFiniteSet(S \cup T)
           /\ Cardinality(S \cup T) = Cardinality(S) + Cardinality(T) - Cardinality(S \cap T)
  <1>1. \A A, B : IsFiniteSet(A) /\ IsFiniteSet(B) =>
             /\ IsFiniteSet(A \cup B)
             /\ Cardinality(A \cup B) = Cardinality(A) + Cardinality(B) - Cardinality(A \cap B)
    BY Zenon DEF FiniteFacts
  <1> QED
    BY <1>1, Zenon

(* The numbers up to n. *)
LEMMA IntervalCount ==
    ASSUME FiniteFacts, NEW n \in Nat
    PROVE  IsFiniteSet(1..n) /\ Cardinality(1..n) = n
  BY Zenon DEF FiniteFacts

(* The logins of one address that were let through from t on, and between t
   and u.                                                                  *)
Since(p, t) == {i \in DOMAIN p : t <= p[i]}
Between(p, t, u) == {i \in DOMAIN p : t <= p[i] /\ p[i] < u}

(* An address whose window began at s has at most n logins since then, none
   past the window's end, and at most the limit in the stretch that a window's
   length leaves before s.                                                 *)
Counted(p, s, n) ==
    /\ \A i \in DOMAIN p : p[i] < s + LoginWindow
    /\ Cardinality(Since(p, s)) <= n
    /\ \A t \in Nat : t + LoginWindow > s => Cardinality(Between(p, t, s)) <= LoginLimit

(* An address without a window at time n: no login at n itself, and at most
   the limit within the last window's length.                              *)
Forgotten(p, n) ==
    /\ \A i \in DOMAIN p : p[i] < n
    /\ \A t \in Nat : t + LoginWindow > n => Cardinality(Since(p, t)) <= LoginLimit

(* No stretch of a window's length holds more than twice the limit. *)
Limited(p) ==
    \A t \in 1..MaxNow : Cardinality(Between(p, t, t + LoginWindow)) <= 2 * LoginLimit

(* Sets of logins can be counted. *)
LEMMA LoginSetsFinite ==
    ASSUME FiniteFacts, NEW p \in Seq(Nat), NEW S \in SUBSET DOMAIN p
    PROVE  IsFiniteSet(S) /\ Cardinality(S) \in Nat
  <1>1. IsFiniteSet(DOMAIN p)
    <2>1. DOMAIN p = 1..Len(p) /\ Len(p) \in Nat
      OBVIOUS
    <2> QED
      BY <2>1, IntervalCount
  <1>2. IsFiniteSet(S)
    BY <1>1, SubsetCount, Zenon
  <1> QED
    BY <1>2, CountType, Zenon

(* A part of the logins is no more than the whole. *)
LEMMA FewerLogins ==
    ASSUME FiniteFacts, NEW p \in Seq(Nat), NEW S \in SUBSET DOMAIN p, NEW T \in SUBSET S
    PROVE  Cardinality(T) <= Cardinality(S)
  BY LoginSetsFinite, SubsetCount, Zenon

(* When the window is over the address may be forgotten. *)
LEMMA WindowExpires ==
    ASSUME FiniteFacts, NEW p \in Seq(Nat), NEW s \in Nat, NEW k \in Nat, NEW n \in Nat,
           Counted(p, s, k), k <= LoginLimit, s + LoginWindow <= n
    PROVE  Forgotten(p, n)
  <1>1. ASSUME NEW i \in DOMAIN p PROVE p[i] < n
    <2>1. p[i] \in Nat /\ p[i] < s + LoginWindow
      BY DEF Counted
    <2> QED
      BY <2>1, LimiterAssumption
  <1>2. ASSUME NEW t \in Nat, t + LoginWindow > n
        PROVE  Cardinality(Since(p, t)) <= LoginLimit
    <2>1. Since(p, s) \in SUBSET DOMAIN p
      BY Zenon DEF Since
    <2>2. s <= t
      BY <1>2, LimiterAssumption
    <2>3. Since(p, t) \in SUBSET Since(p, s)
      <3>1. \A i \in DOMAIN p : p[i] \in Nat
        OBVIOUS
      <3> QED
        BY <2>2, <3>1 DEF Since
    <2>4. Cardinality(Since(p, t)) <= Cardinality(Since(p, s))
      BY <2>1, <2>3, FewerLogins, Zenon
    <2>5. Cardinality(Since(p, s)) <= k
      BY Zenon DEF Counted
    <2>6. Cardinality(Since(p, s)) \in Nat /\ Cardinality(Since(p, t)) \in Nat
      BY <2>1, <2>3, LoginSetsFinite, Zenon
    <2> QED
      BY <2>4, <2>5, <2>6, LimiterAssumption
  <1> QED
    BY <1>1, <1>2, Zenon DEF Forgotten

(* The logins after one more. *)
LEMMA LoginAppended ==
    ASSUME NEW p \in Seq(Nat), NEW n \in Nat
    PROVE  /\ Append(p, n) \in Seq(Nat)
           /\ DOMAIN Append(p, n) = DOMAIN p \cup {Len(p) + 1}
           /\ Len(p) + 1 \notin DOMAIN p
           /\ \A i \in DOMAIN p : Append(p, n)[i] = p[i]
           /\ Append(p, n)[Len(p) + 1] = n
  OBVIOUS

(* One more login adds at most one to a count, and nothing to a stretch it is
   outside of.                                                             *)
LEMMA OneMoreSince ==
    ASSUME FiniteFacts, NEW p \in Seq(Nat), NEW n \in Nat, NEW t \in Nat
    PROVE  Cardinality(Since(Append(p, n), t)) <= Cardinality(Since(p, t)) + 1
  <1> DEFINE q == Append(p, n)
             S == Since(p, t)
  <1>1. /\ DOMAIN q = DOMAIN p \cup {Len(p) + 1}
        /\ \A i \in DOMAIN p : q[i] = p[i]
    BY LoginAppended, Zenon
  <1>2. IsFiniteSet(S) /\ Cardinality(S) \in Nat
    BY LoginSetsFinite, Zenon DEF Since
  <1>3. Since(q, t) \in SUBSET (S \cup {Len(p) + 1})
    BY <1>1, Zenon DEF Since
  <1>4. /\ IsFiniteSet(S \cup {Len(p) + 1})
        /\ Cardinality(S \cup {Len(p) + 1}) = IF Len(p) + 1 \in S THEN Cardinality(S) ELSE Cardinality(S) + 1
    BY <1>2, AddedCount, Zenon
  <1>5. Cardinality(Since(q, t)) <= Cardinality(S \cup {Len(p) + 1}) /\ IsFiniteSet(Since(q, t))
    BY <1>3, <1>4, SubsetCount, Zenon
  <1>6. Cardinality(Since(q, t)) \in Nat
    BY <1>5, CountType, Zenon
  <1> QED
    BY <1>2, <1>4, <1>5, <1>6

(* A login outside a stretch is not counted in it. *)
LEMMA SameBetween ==
    ASSUME NEW p \in Seq(Nat), NEW n \in Nat, NEW t \in Nat, NEW u \in Nat,
           ~(t <= n /\ n < u)
    PROVE  Between(Append(p, n), t, u) = Between(p, t, u)
  <1>1. /\ DOMAIN Append(p, n) = DOMAIN p \cup {Len(p) + 1}
        /\ \A i \in DOMAIN p : Append(p, n)[i] = p[i]
        /\ Append(p, n)[Len(p) + 1] = n
        /\ Len(p) + 1 \notin DOMAIN p
    BY LoginAppended, Zenon
  <1> QED
    BY <1>1, Zenon DEF Between

(* A login at n, in a window from s on that counts at most k with it, keeps
   every stretch within twice the limit: what lies before s and what lies
   after it are each within the limit.                                     *)
LEMMA StretchIsTwoWindows ==
    ASSUME FiniteFacts, NEW q \in Seq(Nat), NEW s \in Nat, NEW t \in Nat, NEW k \in Nat,
           Counted(q, s, k), k <= LoginLimit, t + LoginWindow > s
    PROVE  Cardinality(Between(q, t, t + LoginWindow)) <= 2 * LoginLimit
  <1> DEFINE B == Between(q, t, s)
             A == Since(q, s)
             W == Between(q, t, t + LoginWindow)
  <1>1. \A i \in DOMAIN q : q[i] \in Nat
    OBVIOUS
  <1>2. B \in SUBSET DOMAIN q /\ A \in SUBSET DOMAIN q
    BY Zenon DEF Between, Since
  <1>3. W \in SUBSET (B \cup A)
    BY <1>1 DEF Between, Since
  <1>4. /\ IsFiniteSet(B) /\ Cardinality(B) \in Nat
        /\ IsFiniteSet(A) /\ Cardinality(A) \in Nat
    BY <1>2, LoginSetsFinite, Zenon
  <1>5. /\ IsFiniteSet(B \cup A) /\ Cardinality(B \cup A) \in Nat
        /\ IsFiniteSet(B \cap A) /\ Cardinality(B \cap A) \in Nat
        /\ IsFiniteSet(W) /\ Cardinality(W) \in Nat
    <2>1. B \cup A \in SUBSET DOMAIN q /\ B \cap A \in SUBSET DOMAIN q /\ W \in SUBSET DOMAIN q
      BY <1>2, <1>3, Zenon
    <2> QED
      BY <2>1, LoginSetsFinite, Zenon
  <1>6. Cardinality(B \cup A) = Cardinality(B) + Cardinality(A) - Cardinality(B \cap A)
    BY <1>4, UnionCount, Zenon
  <1>7. Cardinality(W) <= Cardinality(B \cup A)
    BY <1>3, <1>5, SubsetCount, Zenon
  <1>8. Cardinality(B) <= LoginLimit /\ Cardinality(A) <= k
    BY Zenon DEF Counted
  <1> HIDE DEF B, A, W
  <1>9. Cardinality(W) <= LoginLimit + LoginLimit
    BY <1>4, <1>5, <1>6, <1>7, <1>8, LimiterAssumption
  <1> QED
    BY <1>9, LimiterAssumption DEF W

(* A login in a window within the limit keeps every stretch within twice it. *)
LEMMA LimitedByWindow ==
    ASSUME FiniteFacts, NEW p \in Seq(Nat), NEW n \in Nat, NEW s \in Nat, NEW k \in Nat,
           Limited(p), Counted(Append(p, n), s, k), k <= LoginLimit, s <= n
    PROVE  Limited(Append(p, n))
  <1> SUFFICES ASSUME NEW t \in 1..MaxNow
               PROVE  Cardinality(Between(Append(p, n), t, t + LoginWindow)) <= 2 * LoginLimit
    BY Zenon DEF Limited
  <1>0. t \in Nat /\ t + LoginWindow \in Nat
    BY LimiterAssumption
  <1>1. CASE t <= n /\ n < t + LoginWindow
    <2>1. t + LoginWindow > s
      BY <1>0, <1>1
    <2>2. Append(p, n) \in Seq(Nat)
      BY LoginAppended, Zenon
    <2> QED
      BY <1>0, <2>1, <2>2, StretchIsTwoWindows, Zenon
  <1>2. CASE ~(t <= n /\ n < t + LoginWindow)
    <2>1. Between(Append(p, n), t, t + LoginWindow) = Between(p, t, t + LoginWindow)
      BY <1>0, <1>2, SameBetween
    <2> QED
      BY <2>1, Zenon DEF Limited
  <1> QED
    BY <1>1, <1>2, Zenon

(* The first login of a forgotten address opens a window. *)
LEMMA WindowOpens ==
    ASSUME FiniteFacts, NEW p \in Seq(Nat), NEW n \in Nat, Forgotten(p, n), Limited(p)
    PROVE  Counted(Append(p, n), n, 1) /\ Limited(Append(p, n))
  <1> DEFINE q == Append(p, n)
  <1>0. /\ q \in Seq(Nat)
        /\ DOMAIN q = DOMAIN p \cup {Len(p) + 1}
        /\ \A i \in DOMAIN p : q[i] = p[i]
        /\ q[Len(p) + 1] = n
    BY LoginAppended, Zenon
  <1>p. \A i \in DOMAIN p : p[i] \in Nat /\ p[i] < n
    BY DEF Forgotten
  <1>1. ASSUME NEW i \in DOMAIN q PROVE q[i] < n + LoginWindow
    BY <1>0, <1>p, LimiterAssumption
  <1>2. Cardinality(Since(q, n)) <= 1
    <2>1. Since(p, n) = {}
      BY <1>p DEF Since
    <2>2. Cardinality(Since(p, n)) = 0
      BY <2>1, EmptyCount, Zenon
    <2> QED
      BY <2>2, OneMoreSince
  <1>3. ASSUME NEW t \in Nat, t + LoginWindow > n
        PROVE  Cardinality(Between(q, t, n)) <= LoginLimit
    <2>1. Between(q, t, n) = Between(p, t, n)
      BY SameBetween
    <2>2. Between(p, t, n) = Since(p, t)
      BY <1>p, Zenon DEF Between, Since
    <2> QED
      BY <1>3, <2>1, <2>2, Zenon DEF Forgotten
  <1>4. Counted(q, n, 1)
    BY <1>1, <1>2, <1>3, Zenon DEF Counted
  <1>5. 1 \in Nat /\ 1 <= LoginLimit /\ n <= n
    BY LimiterAssumption
  <1>6. Limited(q)
    BY <1>4, <1>5, LimitedByWindow, Zenon
  <1> QED
    BY <1>4, <1>6, Zenon

(* A further login within the window and the limit is counted in it. *)
LEMMA WindowCounts ==
    ASSUME FiniteFacts, NEW p \in Seq(Nat), NEW n \in Nat, NEW s \in Nat, NEW k \in Nat,
           Counted(p, s, k), Limited(p), k < LoginLimit,
           s <= n, n < s + LoginWindow
    PROVE  Counted(Append(p, n), s, k + 1) /\ Limited(Append(p, n))
  <1> DEFINE q == Append(p, n)
  <1>0. /\ DOMAIN q = DOMAIN p \cup {Len(p) + 1}
        /\ \A i \in DOMAIN p : q[i] = p[i]
        /\ q[Len(p) + 1] = n
    BY LoginAppended, Zenon
  <1>1. \A i \in DOMAIN q : q[i] < s + LoginWindow
    BY <1>0, Zenon DEF Counted
  <1>2. Cardinality(Since(q, s)) <= k + 1
    <2>1. Cardinality(Since(q, s)) <= Cardinality(Since(p, s)) + 1
      BY OneMoreSince, Zenon
    <2>2. Cardinality(Since(p, s)) <= k
      BY Zenon DEF Counted
    <2>3. Cardinality(Since(p, s)) \in Nat
      BY LoginSetsFinite, Zenon DEF Since
    <2>4. Cardinality(Since(q, s)) \in Nat
      <3>1. q \in Seq(Nat) /\ Since(q, s) \in SUBSET DOMAIN q
        BY LoginAppended, Zenon DEF Since
      <3> QED
        BY <3>1, LoginSetsFinite, Zenon
    <2> HIDE DEF q
    <2> QED
      BY <2>1, <2>2, <2>3, <2>4
  <1>3. ASSUME NEW t \in Nat, t + LoginWindow > s
        PROVE  Cardinality(Between(q, t, s)) <= LoginLimit
    <2>1. Between(q, t, s) = Between(p, t, s)
      BY SameBetween
    <2> QED
      BY <1>3, <2>1, Zenon DEF Counted
  <1>4. Counted(q, s, k + 1)
    BY <1>1, <1>2, <1>3, Zenon DEF Counted
  <1>5. k + 1 \in Nat /\ k + 1 <= LoginLimit
    BY LimiterAssumption
  <1>6. Limited(q)
    BY <1>4, <1>5, LimitedByWindow, Zenon
  <1> QED
    BY <1>4, <1>6, Zenon
-----------------------------------------------------------------------------
(* The rows of sessions and tokens, and what a request under way holds. *)
RowStatuses == {"none", "active", "revoked"}

CallerFields == {"phase", "by", "live", "held", "roles"}

(* What a request under way knows: until its credential is read, the row is
   there and is good only if it was good at arrival; from then on it was.
   Until the bindings are read, those in force are among the noted ones.   *)
CallerOK(c) ==
    /\ DOMAIN caller[c] = CallerFields
    /\ caller[c].phase \in CallerPhases
    /\ caller[c].phase = "looking" =>
         /\ caller[c].by \in Sessions =>
              /\ session[caller[c].by].status # "none"
              /\ Live(caller[c].by) => caller[c].live
         /\ caller[c].by \in Tokens =>
              /\ token[caller[c].by].status # "none"
              /\ TokenLive(caller[c].by) => caller[c].live
    /\ caller[c].phase \in {"loading", "renewing"} =>
         caller[c].by \in Sessions /\ caller[c].live
    /\ caller[c].phase \in {"looking", "loading"} => InForce(bindings) \subseteq caller[c].held
    /\ caller[c].phase = "admitted" => caller[c].live
    /\ caller[c].roles \subseteq caller[c].held

(* The rows are well formed; no session idles past its absolute end. *)
RowsOK ==
    /\ now \in 1..MaxNow
    /\ session \in [Sessions -> [status : RowStatuses, idle : Nat, absolute : Nat]]
    /\ \A s \in Sessions : session[s].idle <= session[s].absolute
    /\ token \in [Tokens -> [status : RowStatuses, expires : Nat]]
    /\ bindings \subseteq Bindings
    /\ caller = [c \in Callers |-> caller[c]]

(* The inductive invariant of the rows and the requests. *)
RowsInv == RowsOK /\ \A c \in Callers : CallerOK(c)

(* The limiter's table: bounded, its windows begun and within the limit. *)
LimiterOK ==
    /\ passes \in [Addresses -> Seq(Nat)]
    /\ entries = [a \in DOMAIN entries |-> entries[a]]
    /\ DOMAIN entries \subseteq Addresses
    /\ IsFiniteSet(DOMAIN entries)
    /\ Cardinality(DOMAIN entries) <= MaxEntries
    /\ \A a \in DOMAIN entries :
         /\ DOMAIN entries[a] = {"started", "count"}
         /\ entries[a].started \in 1..now
         /\ entries[a].count \in 1..LoginLimit

(* An address in the table is counted, one that is not may be forgotten. *)
AddressOK(a) ==
    /\ a \in DOMAIN entries => Counted(passes[a], entries[a].started, entries[a].count)
    /\ a \notin DOMAIN entries => Forgotten(passes[a], now)
    /\ Limited(passes[a])

(* The inductive invariant of the limiter. *)
LimiterInv == LimiterOK /\ \A a \in Addresses : AddressOK(a)

(* The inductive invariant of access. *)
AccessInv == RowsInv /\ LimiterInv

-----------------------------------------------------------------------------
(* It says what AccessIsEarned says, and more. *)
LEMMA AccessInvSuffices == AccessInv => AccessIsEarned
  <1> SUFFICES ASSUME AccessInv PROVE AccessIsEarned
    BY Zenon
  <1> USE DEF AccessInv, RowsInv, LimiterInv
  <1>1. AccessTypeOK
    BY Zenon DEF AccessTypeOK, RowsOK, LimiterOK, CallerOK, RowStatuses
  <1>2. AdmittedWasLive
    BY Zenon DEF AdmittedWasLive, CallerOK
  <1>3. RolesWereHeld
    BY Zenon DEF RolesWereHeld, CallerOK
  <1>4. LoginsAreLimited
    BY Zenon DEF LoginsAreLimited, AddressOK, Limited, Between
  <1> QED
    BY <1>1, <1>2, <1>3, <1>4, Zenon DEF AccessIsEarned

(* Initially there are no rows, no requests and no windows. *)
LEMMA AccessInitOK ==
    ASSUME FiniteFacts
    PROVE  AccessInit => AccessInv
  <1> SUFFICES ASSUME AccessInit PROVE AccessInv
    BY Zenon
  <1>1. RowsOK
    BY LifetimesAssumption DEF AccessInit, RowsOK, RowStatuses
  <1>2. ASSUME NEW c \in Callers PROVE CallerOK(c)
    <2>1. caller[c] = NoCaller
      BY Zenon DEF AccessInit
    <2>2. /\ DOMAIN NoCaller = CallerFields
          /\ NoCaller.phase = "idle" /\ NoCaller.roles = {}
      BY Zenon DEF NoCaller, CallerFields
    <2> QED
      BY <2>1, <2>2, Zenon DEF CallerOK, CallerPhases
  <1>3. DOMAIN entries = {} /\ entries = [a \in DOMAIN entries |-> entries[a]]
    BY Zenon DEF AccessInit
  <1>4. LimiterOK
    <2>1. IsFiniteSet({}) /\ Cardinality({}) = 0
      BY EmptyCount, Zenon
    <2>2. passes \in [Addresses -> Seq(Nat)]
      BY DEF AccessInit
    <2> QED
      BY <1>3, <2>1, <2>2, LimiterAssumption DEF LimiterOK
  <1>5. ASSUME NEW a \in Addresses PROVE AddressOK(a)
    <2>1. passes[a] = <<>> /\ now = 1
      BY Zenon DEF AccessInit
    <2>2. ASSUME NEW t, NEW u PROVE Since(<<>>, t) = {} /\ Between(<<>>, t, u) = {}
      BY DEF Since, Between
    <2>3. Cardinality({}) = 0
      BY EmptyCount, Zenon
    <2>4. Forgotten(<<>>, 1)
      <3>1. \A i \in DOMAIN <<>> : <<>>[i] < 1
        OBVIOUS
      <3>2. ASSUME NEW t \in Nat PROVE Cardinality(Since(<<>>, t)) <= LoginLimit
        <4>1. Cardinality(Since(<<>>, t)) = 0
          BY <2>2, <2>3, Zenon
        <4> QED
          BY <4>1, LimiterAssumption
      <3> QED
        BY <3>1, <3>2, Zenon DEF Forgotten
    <2>5. Limited(<<>>)
      <3>1. ASSUME NEW t \in 1..MaxNow
            PROVE  Cardinality(Between(<<>>, t, t + LoginWindow)) <= 2 * LoginLimit
        <4>1. Cardinality(Between(<<>>, t, t + LoginWindow)) = 0
          BY <2>2, <2>3, Zenon
        <4> QED
          BY <4>1, LimiterAssumption
      <3> QED
        BY <3>1, Zenon DEF Limited
    <2> QED
      BY <1>3, <2>1, <2>4, <2>5, Zenon DEF AddressOK
  <1> QED
    BY <1>1, <1>2, <1>4, <1>5, Zenon DEF AccessInv, RowsInv, LimiterInv

-----------------------------------------------------------------------------
(* Time passes: no login of a forgotten address is at the new time. *)
LEMMA TickLimiter == LimiterInv /\ RowsOK /\ Tick => LimiterInv'
  <1> SUFFICES ASSUME LimiterInv, RowsOK, Tick PROVE LimiterInv'
    BY Zenon
  <1>0. now \in Nat /\ now' = now + 1 /\ entries' = entries /\ passes' = passes
    BY DEF RowsOK, Tick
  <1>1. LimiterOK'
    BY <1>0 DEF LimiterOK, LimiterInv
  <1>2. ASSUME NEW a \in Addresses PROVE AddressOK(a)'
    <2>1. ASSUME Forgotten(passes[a], now) PROVE Forgotten(passes[a], now + 1)
      <3>1. \A i \in DOMAIN passes[a] : passes[a][i] \in Nat
        BY DEF LimiterInv, LimiterOK
      <3> QED
        BY <2>1, <3>1, <1>0, LimiterAssumption DEF Forgotten
    <2> QED
      BY <1>0, <2>1, Zenon DEF LimiterInv, AddressOK
  <1> QED
    BY <1>1, <1>2, Zenon DEF LimiterInv

(* A login request: Allow drops expired windows, then counts, opens a window or
   refuses.                                                                *)
LEMMA LoginLimiter ==
    ASSUME FiniteFacts, LimiterInv, RowsOK, NEW a \in Addresses, LoginRequest(a)
    PROVE  LimiterInv'
  <1> DEFINE known == a \in DOMAIN entries
             fresh == ~known \/ now - entries[a].started >= LoginWindow
             full == ~known /\ Cardinality(DOMAIN entries) >= MaxEntries
             kept == IF fresh /\ full
                     THEN {e \in DOMAIN entries : now - entries[e].started < LoginWindow}
                     ELSE DOMAIN entries
             p == passes[a]
  <1>0. /\ now \in Nat /\ now' = now
        /\ LoginLimit \in Nat /\ LoginWindow \in Nat /\ MaxEntries \in Nat
        /\ passes \in [Addresses -> Seq(Nat)] /\ p \in Seq(Nat)
    BY LimiterAssumption DEF RowsOK, LoginRequest, LimiterInv, LimiterOK
  <1>1. \A e \in DOMAIN entries :
          /\ DOMAIN entries[e] = {"started", "count"}
          /\ entries[e].started \in Nat /\ entries[e].started <= now
          /\ entries[e].started \in 1..now
          /\ entries[e].count \in Nat /\ entries[e].count <= LoginLimit
          /\ entries[e].count \in 1..LoginLimit
    BY <1>0 DEF LimiterInv, LimiterOK
  <1>2. /\ kept \in SUBSET DOMAIN entries
        /\ DOMAIN entries \in SUBSET Addresses
        /\ IsFiniteSet(DOMAIN entries)
        /\ Cardinality(DOMAIN entries) <= MaxEntries
        /\ entries = [e \in DOMAIN entries |-> entries[e]]
    BY Zenon DEF LimiterInv, LimiterOK
  <1>3. /\ IsFiniteSet(kept) /\ Cardinality(kept) <= Cardinality(DOMAIN entries)
        /\ Cardinality(kept) \in Nat /\ Cardinality(DOMAIN entries) \in Nat
    BY <1>2, SubsetCount, CountType, Zenon
  (* An address that loses its window is forgotten. *)
  <1>4. ASSUME NEW e \in Addresses, e \notin kept
        PROVE  Forgotten(passes[e], now) /\ Limited(passes[e])
    <2>1. CASE e \notin DOMAIN entries
      BY <2>1, Zenon DEF LimiterInv, AddressOK
    <2>2. CASE e \in DOMAIN entries
      <3>1. now - entries[e].started >= LoginWindow
        BY <1>4, <2>2, <1>0, <1>1
      <3>2. entries[e].started + LoginWindow <= now
        BY <3>1, <2>2, <1>0, <1>1
      <3>3. Counted(passes[e], entries[e].started, entries[e].count) /\ Limited(passes[e])
        BY <2>2, Zenon DEF LimiterInv, AddressOK
      <3>4. passes[e] \in Seq(Nat)
        BY <1>0, Zenon
      <3> QED
        BY <3>2, <3>3, <3>4, <2>2, <1>0, <1>1, WindowExpires, Zenon
    <2> QED
      BY <2>1, <2>2, Zenon
  <1>5. ASSUME NEW e \in DOMAIN entries
        PROVE  Counted(passes[e], entries[e].started, entries[e].count) /\ Limited(passes[e])
    BY <1>2, Zenon DEF LimiterInv, AddressOK
  <1>6. CASE fresh /\ ~known /\ Cardinality(kept) >= MaxEntries
    <2>1. entries' = [e \in kept |-> entries[e]] /\ passes' = passes
      BY <1>6, Zenon DEF LoginRequest, Allow
    <2> HIDE DEF kept, known, fresh, full, p
    <2>2. LimiterOK'
      BY <2>1, <1>0, <1>1, <1>2, <1>3 DEF LimiterOK
    <2>3. ASSUME NEW e \in Addresses PROVE AddressOK(e)'
      BY <2>1, <1>0, <1>2, <1>4, <1>5, Zenon DEF AddressOK
    <2> QED
      BY <2>2, <2>3, Zenon DEF LimiterInv
  <1>7. CASE fresh /\ ~(~known /\ Cardinality(kept) >= MaxEntries)
    <2>1. /\ entries' = [e \in kept \cup {a} |->
                           IF e = a THEN [started |-> now, count |-> 1] ELSE entries[e]]
          /\ passes' = [passes EXCEPT ![a] = Append(@, now)]
      BY <1>7, Zenon DEF LoginRequest, Allow
    <2>2. Forgotten(p, now) /\ Limited(p)
      <3>1. CASE ~known
        BY <3>1, Zenon DEF LimiterInv, AddressOK
      <3>2. CASE known
        <4>1. entries[a].started + LoginWindow <= now
          BY <1>7, <3>2, <1>0, <1>1
        <4> QED
          BY <4>1, <3>2, <1>0, <1>1, <1>5, WindowExpires, Zenon
      <3> QED
        BY <3>1, <3>2, Zenon
    <2>3. Counted(Append(p, now), now, 1) /\ Limited(Append(p, now)) /\ Append(p, now) \in Seq(Nat)
      BY <2>2, <1>0, WindowOpens, LoginAppended, Zenon
    <2>4. IsFiniteSet(kept \cup {a}) /\ Cardinality(kept \cup {a}) <= MaxEntries
      <3>1. /\ IsFiniteSet(kept \cup {a})
            /\ Cardinality(kept \cup {a}) =
                 IF a \in kept THEN Cardinality(kept) ELSE Cardinality(kept) + 1
        BY <1>3, AddedCount, Zenon
      <3>2. known => a \in kept
        BY Zenon
      <3> HIDE DEF kept, known, fresh, full, p
      <3> QED
        BY <3>1, <3>2, <1>0, <1>2, <1>3, <1>7
    <2> HIDE DEF kept, known, fresh, full
    <2>5. passes' \in [Addresses -> Seq(Nat)] /\ passes'[a] = Append(p, now)
          /\ \A e \in Addresses : e # a => passes'[e] = passes[e]
      BY <2>1, <2>3, <1>0, Zenon
    <2>6. /\ DOMAIN entries' = kept \cup {a}
          /\ entries'[a] = [started |-> now, count |-> 1]
          /\ \A e \in kept : e # a => entries'[e] = entries[e]
          /\ entries' = [e \in DOMAIN entries' |-> entries'[e]]
      BY <2>1, Zenon
    <2>7. LimiterOK'
      <3>1. ASSUME NEW e \in kept \cup {a}
            PROVE /\ DOMAIN entries'[e] = {"started", "count"}
                  /\ entries'[e].started \in 1..now
                  /\ entries'[e].count \in 1..LoginLimit
        <4>1. CASE e = a
          <5>1. now \in 1..now /\ 1 \in 1..LoginLimit
            BY LimiterAssumption DEF RowsOK
          <5> QED
            BY <4>1, <5>1, <2>6
        <4>2. CASE e # a
          BY <4>2, <2>6, <1>1, <1>2, Zenon
        <4> QED
          BY <4>1, <4>2, Zenon
      <3>2. DOMAIN entries' \subseteq Addresses
        BY <2>6, <1>2, Zenon
      <3> QED
        BY <3>1, <3>2, <2>4, <2>5, <2>6, <1>0, Zenon DEF LimiterOK
    <2>8. ASSUME NEW e \in Addresses PROVE AddressOK(e)'
      <3>1. CASE e = a
        BY <3>1, <2>3, <2>5, <2>6 DEF AddressOK
      <3>2. CASE e # a
        <4>1. passes'[e] = passes[e]
          BY <3>2, <2>5, Zenon
        <4>2. CASE e \in kept
          <5>1. e \in DOMAIN entries' /\ entries'[e] = entries[e] /\ e \in DOMAIN entries
            BY <4>2, <3>2, <2>6, <1>2, Zenon
          <5> QED
            BY <4>1, <5>1, <1>5, Zenon DEF AddressOK
        <4>3. CASE e \notin kept
          <5>1. e \notin DOMAIN entries'
            BY <4>3, <3>2, <2>6, Zenon
          <5> QED
            BY <4>1, <4>3, <5>1, <1>4, <1>0, Zenon DEF AddressOK
        <4> QED
          BY <4>2, <4>3, Zenon
      <3> QED
        BY <3>1, <3>2, Zenon
    <2> QED
      BY <2>7, <2>8, Zenon DEF LimiterInv
  <1>8. CASE ~fresh /\ entries[a].count >= LoginLimit
    <2>1. entries' = entries /\ passes' = passes
      BY <1>8, Zenon DEF LoginRequest, Allow
    <2> QED
      BY <2>1, <1>0, Zenon DEF LimiterInv, LimiterOK, AddressOK
  <1>9. CASE ~fresh /\ ~(entries[a].count >= LoginLimit)
    <2>1. /\ entries' = [entries EXCEPT ![a].count = @ + 1]
          /\ passes' = [passes EXCEPT ![a] = Append(@, now)]
      BY <1>9, Zenon DEF LoginRequest, Allow
    <2>2. known /\ now < entries[a].started + LoginWindow /\ entries[a].count < LoginLimit
      BY <1>9, <1>0, <1>1
    <2>3. /\ Counted(Append(p, now), entries[a].started, entries[a].count + 1)
          /\ Limited(Append(p, now)) /\ Append(p, now) \in Seq(Nat)
      BY <2>2, <1>0, <1>1, <1>5, WindowCounts, LoginAppended, Zenon
    <2>4. passes' \in [Addresses -> Seq(Nat)] /\ passes'[a] = Append(p, now)
          /\ \A e \in Addresses : e # a => passes'[e] = passes[e]
      BY <2>1, <2>3, <1>0, Zenon
    <2>5. /\ DOMAIN entries' = DOMAIN entries
          /\ entries' = [e \in DOMAIN entries' |-> entries'[e]]
          /\ \A e \in DOMAIN entries : e # a => entries'[e] = entries[e]
      BY <2>1, <1>2, Zenon
    <2>6. /\ DOMAIN entries'[a] = {"started", "count"}
          /\ entries'[a].started = entries[a].started
          /\ entries'[a].count = entries[a].count + 1
      BY <2>1, <2>2, <1>1, Zenon
    <2>7. LimiterOK'
      <3>1. ASSUME NEW e \in DOMAIN entries
            PROVE /\ DOMAIN entries'[e] = {"started", "count"}
                  /\ entries'[e].started \in 1..now
                  /\ entries'[e].count \in 1..LoginLimit
        <4>1. CASE e = a
          BY <4>1, <2>2, <2>6, <1>0, <1>1
        <4>2. CASE e # a
          BY <4>2, <2>5, <1>1, Zenon
        <4> QED
          BY <4>1, <4>2, Zenon
      <3> QED
        BY <3>1, <2>4, <2>5, <1>0, <1>2, Zenon DEF LimiterOK
    <2>8. ASSUME NEW e \in Addresses PROVE AddressOK(e)'
      <3>1. CASE e = a
        BY <3>1, <2>2, <2>3, <2>4, <2>5, <2>6, Zenon DEF AddressOK
      <3>2. CASE e # a
        BY <3>2, <2>4, <2>5, <1>0, Zenon DEF AddressOK, LimiterInv
      <3> QED
        BY <3>1, <3>2, Zenon
    <2> QED
      BY <2>7, <2>8, Zenon DEF LimiterInv
  <1> QED
    BY <1>6, <1>7, <1>8, <1>9, Zenon

-----------------------------------------------------------------------------
(* What every step does with a row that is there: it stays, a revoked or
   expired one never comes back, and its lifetime is not moved.            *)
RowsEvolve ==
    /\ \A s \in Sessions : session[s].status # "none" =>
         /\ session'[s].status # "none"
         /\ session'[s].status = "active" => session[s].status = "active"
         /\ session'[s].absolute = session[s].absolute
    /\ \A t \in Tokens : token[t].status # "none" =>
         /\ token'[t].status # "none"
         /\ token'[t].status = "active" => token[t].status = "active"
         /\ token'[t].expires = token[t].expires
    /\ now' >= now

(* A request that a step leaves where it is. *)
Stays(c) ==
    /\ DOMAIN caller'[c] = DOMAIN caller[c]
    /\ caller'[c].phase = caller[c].phase
    /\ caller'[c].by = caller[c].by
    /\ caller'[c].live = caller[c].live
    /\ caller'[c].roles = caller[c].roles
    /\ caller[c].held \subseteq caller'[c].held
    /\ InForce(bindings)' \subseteq InForce(bindings) \cup caller'[c].held

(* A request that stays where it is knows no less. *)
LEMMA CallerStays ==
    ASSUME RowsInv, RowsOK', RowsEvolve, NEW c \in Callers, Stays(c)
    PROVE  CallerOK(c)'
  <1>0. CallerOK(c) /\ now \in Nat /\ now' \in Nat /\ now' >= now
    BY DEF RowsInv, RowsOK, RowsEvolve
  <1>1. /\ DOMAIN caller'[c] = CallerFields
        /\ caller'[c].phase \in CallerPhases
        /\ caller'[c].phase \in {"loading", "renewing"} =>
             caller'[c].by \in Sessions /\ caller'[c].live
        /\ caller'[c].phase = "admitted" => caller'[c].live
    BY <1>0, Zenon DEF Stays, CallerOK
  <1>2. /\ caller'[c].phase \in {"looking", "loading"} =>
             InForce(bindings)' \subseteq caller'[c].held
        /\ caller'[c].roles \subseteq caller'[c].held
    BY <1>0, Zenon DEF Stays, CallerOK
  <1>3. ASSUME caller'[c].phase = "looking", caller'[c].by \in Sessions
        PROVE  /\ session'[caller'[c].by].status # "none"
               /\ Live(caller[c].by)' => caller'[c].live
    <2> DEFINE s == caller[c].by
    <2>1. s \in Sessions /\ caller'[c].by = s /\ caller[c].phase = "looking"
      BY <1>3, Zenon DEF Stays
    <2>2. session[s].status # "none" /\ (Live(s) => caller[c].live)
      BY <2>1, <1>0, Zenon DEF CallerOK
    <2>3. session[s].absolute \in Nat
      BY <2>1, Zenon DEF RowsInv, RowsOK
    <2>4. Live(s)' => Live(s)
      BY <2>1, <2>2, <2>3, <1>0 DEF RowsEvolve, Live
    <2> QED
      BY <2>1, <2>2, <2>4 DEF RowsEvolve, Stays
  <1>4. ASSUME caller'[c].phase = "looking", caller'[c].by \in Tokens
        PROVE  /\ token'[caller'[c].by].status # "none"
               /\ TokenLive(caller[c].by)' => caller'[c].live
    <2> DEFINE t == caller[c].by
    <2>1. t \in Tokens /\ caller'[c].by = t /\ caller[c].phase = "looking"
      BY <1>4, Zenon DEF Stays
    <2>2. token[t].status # "none" /\ (TokenLive(t) => caller[c].live)
      BY <2>1, <1>0, Zenon DEF CallerOK
    <2>3. token[t].expires \in Nat
      BY <2>1, Zenon DEF RowsInv, RowsOK
    <2>4. TokenLive(t)' => TokenLive(t)
      BY <2>1, <2>2, <2>3, <1>0 DEF RowsEvolve, TokenLive
    <2> QED
      BY <2>1, <2>2, <2>4 DEF RowsEvolve, Stays
  <1> QED
    BY <1>1, <1>2, <1>3, <1>4, Zenon DEF CallerOK

(* Time passing, and a binding going, leave no more bindings in force. *)
LEMMA InForceShrinks ==
    ASSUME RowsOK, RowsOK', bindings' \subseteq bindings, now' >= now
    PROVE  InForce(bindings)' \subseteq InForce(bindings)
  <1>1. \A b \in bindings : b.until = Never \/ b.until \in Nat
    BY BindingsAssumption, Zenon DEF RowsOK
  <1>2. now \in Nat /\ now' \in Nat
    BY DEF RowsOK
  <1> QED
    BY <1>1, <1>2 DEF InForce

(* A step that touches no request and grants nothing. *)
LEMMA QuietRows ==
    ASSUME RowsInv, RowsOK', RowsEvolve, caller' = caller, bindings' \subseteq bindings
    PROVE  RowsInv'
  <1>1. InForce(bindings)' \subseteq InForce(bindings)
    BY InForceShrinks, Zenon DEF RowsInv, RowsEvolve
  <1>2. ASSUME NEW c \in Callers PROVE CallerOK(c)'
    <2>1. Stays(c)
      BY <1>1, Zenon DEF Stays
    <2> QED
      BY <2>1, CallerStays, Zenon
  <1> QED
    BY <1>2, Zenon DEF RowsInv

(* Time only ends lifetimes. *)
LEMMA TickRows == RowsInv /\ Tick => RowsInv'
  <1> SUFFICES ASSUME RowsInv, Tick PROVE RowsInv'
    BY Zenon
  <1>1. RowsOK'
    BY LifetimesAssumption DEF RowsInv, RowsOK, Tick
  <1>2. RowsEvolve
    BY DEF RowsInv, RowsOK, RowsEvolve, Tick
  <1> QED
    BY <1>1, <1>2, QuietRows, Zenon DEF Tick

(* Revocations take away, and a new token is nobody's credential yet. *)
LEMMA RevokeRows ==
    ASSUME RowsInv,
           \/ \E s \in Sessions : RevokeSession(s)
           \/ \E b \in Bindings : RevokeRole(b)
           \/ \E t \in Tokens : RevokeToken(t)
           \/ \E t \in Tokens, until \in 1..(now + TokenMaxTTL) : CreateToken(t, until)
    PROVE  RowsInv'
  <1>0. now \in Nat
    BY DEF RowsInv, RowsOK
  <1>1. ASSUME NEW s \in Sessions, RevokeSession(s) PROVE RowsInv'
    <2>1. RowsOK'
      BY <1>1 DEF RowsInv, RowsOK, RevokeSession, RowStatuses
    <2>2. RowsEvolve
      BY <1>0, <1>1 DEF RowsInv, RowsOK, RowsEvolve, RevokeSession
    <2> QED
      BY <1>1, <2>1, <2>2, QuietRows, Zenon DEF RevokeSession
  <1>2. ASSUME NEW b \in Bindings, RevokeRole(b) PROVE RowsInv'
    <2>1. RowsOK'
      BY <1>2, Zenon DEF RowsInv, RowsOK, RevokeRole
    <2>2. RowsEvolve
      BY <1>0, <1>2 DEF RowsEvolve, RevokeRole
    <2> QED
      BY <1>2, <2>1, <2>2, QuietRows, Zenon DEF RevokeRole
  <1>3. ASSUME NEW t \in Tokens, RevokeToken(t) PROVE RowsInv'
    <2>1. RowsOK'
      BY <1>3, Zenon DEF RowsInv, RowsOK, RevokeToken, RowStatuses
    <2>2. RowsEvolve
      BY <1>0, <1>3 DEF RowsInv, RowsOK, RowsEvolve, RevokeToken
    <2> QED
      BY <1>3, <2>1, <2>2, QuietRows, Zenon DEF RevokeToken
  <1>4. ASSUME NEW t \in Tokens, NEW until \in 1..(now + TokenMaxTTL), CreateToken(t, until)
        PROVE  RowsInv'
    <2>0. until \in Nat
      BY <1>0, LifetimesAssumption
    <2>1. RowsOK'
      BY <2>0, <1>4, Zenon DEF RowsInv, RowsOK, CreateToken, RowStatuses
    <2>2. RowsEvolve
      BY <1>0, <1>4 DEF RowsInv, RowsOK, RowsEvolve, CreateToken
    <2> QED
      BY <1>4, <2>1, <2>2, QuietRows, Zenon DEF CreateToken
  <1> QED
    BY <1>1, <1>2, <1>3, <1>4, Zenon

(* A step of one request that leaves the rows be, but for a session. *)
LEMMA OneCallerMoves ==
    ASSUME RowsInv, RowsOK', RowsEvolve, NEW c \in Callers, CallerOK(c)',
           bindings' = bindings, now' = now,
           \A d \in Callers : d # c => caller'[d] = caller[d]
    PROVE  RowsInv'
  <1>1. InForce(bindings)' = InForce(bindings)
    BY Zenon DEF InForce
  <1>2. ASSUME NEW d \in Callers, d # c PROVE CallerOK(d)'
    <2>1. Stays(d)
      BY <1>1, <1>2, Zenon DEF Stays
    <2> QED
      BY <2>1, CallerStays, Zenon
  <1> QED
    BY <1>2, Zenon DEF RowsInv

(* Advance changes the phase of one request. *)
LEMMA MovedOn ==
    ASSUME RowsInv, NEW c \in Callers, NEW ph, Advance(c, ph)
    PROVE  /\ caller' = [d \in Callers |-> caller'[d]]
           /\ \A d \in Callers : d # c => caller'[d] = caller[d]
           /\ DOMAIN caller'[c] = CallerFields
           /\ caller'[c].phase = ph
           /\ caller'[c].by = caller[c].by
           /\ caller'[c].live = caller[c].live
           /\ caller'[c].held = caller[c].held
           /\ caller'[c].roles = caller[c].roles
  <1>1. DOMAIN caller = Callers /\ DOMAIN caller[c] = CallerFields
    BY Zenon DEF RowsInv, RowsOK, CallerOK
  <1>2. caller' = [caller EXCEPT ![c].phase = ph]
    BY Zenon DEF Advance
  <1> QED
    BY <1>1, <1>2, Zenon DEF CallerFields

(* Rows left as they are have evolved. *)
LEMMA SameRowsEvolve ==
    ASSUME RowsOK, session' = session, token' = token, now' = now
    PROVE  RowsEvolve
  BY DEF RowsOK, RowsEvolve

(* A callback of the identity provider begins a request. *)
LEMMA CallbackRows ==
    ASSUME RowsInv, NEW c \in Callers, NEW b \in BOOLEAN, Callback(c, b)
    PROVE  RowsInv'
  <1>1. /\ \A d \in Callers : d # c => caller'[d] = caller[d]
        /\ caller' = [d \in Callers |-> caller'[d]]
        /\ caller'[c] = [NoCaller EXCEPT !.phase = IF b THEN "bootstrapping" ELSE "creating"]
    BY Zenon DEF Callback, RowsInv, RowsOK
  <1>2. /\ DOMAIN caller'[c] = CallerFields
        /\ caller'[c].phase \in {"bootstrapping", "creating"}
        /\ caller'[c].roles = {}
    BY <1>1, Zenon DEF NoCaller, CallerFields
  <1>3. CallerOK(c)'
    BY <1>2, Zenon DEF CallerOK, CallerPhases
  <1>4. RowsOK' /\ RowsEvolve
    BY <1>1, SameRowsEvolve, Zenon DEF RowsInv, RowsOK, Callback
  <1> QED
    BY <1>1, <1>3, <1>4, OneCallerMoves, Zenon DEF Callback

(* A request arrives and notes whether its credential is live, and the
   bindings in force.                                                      *)
LEMMA ArriveRows ==
    ASSUME RowsInv, NEW c \in Callers, NEW cred \in Sessions \cup Tokens, Arrive(c, cred)
    PROVE  RowsInv'
  <1>1. /\ \A d \in Callers : d # c => caller'[d] = caller[d]
        /\ caller' = [d \in Callers |-> caller'[d]]
        /\ caller'[c] = [phase |-> "looking", by |-> cred,
                         live |-> IF cred \in Sessions THEN Live(cred) ELSE TokenLive(cred),
                         held |-> InForce(bindings), roles |-> {}]
    BY Zenon DEF Arrive, RowsInv, RowsOK
  <1>2. /\ DOMAIN caller'[c] = CallerFields
        /\ caller'[c].phase = "looking"
        /\ caller'[c].by = cred
        /\ caller'[c].held = InForce(bindings)
        /\ caller'[c].roles = {}
    BY <1>1 DEF CallerFields
  <1>3. /\ session' = session /\ token' = token /\ now' = now /\ bindings' = bindings
    BY Zenon DEF Arrive
  <1>4. ASSUME cred \in Sessions
        PROVE  session'[cred].status # "none" /\ (Live(cred)' => caller'[c].live)
    <2>1. caller'[c].live = Live(cred)
      BY <1>1, <1>4
    <2>2. Live(cred)' <=> Live(cred)
      BY <1>3, Zenon DEF Live
    <2> QED
      BY <2>1, <2>2, <1>3, <1>4, Zenon DEF Arrive
  <1>5. ASSUME cred \in Tokens
        PROVE  token'[cred].status # "none" /\ (TokenLive(cred)' => caller'[c].live)
    <2>0. cred \notin Sessions
      BY <1>5, CredentialsAssumption, Zenon
    <2>1. caller'[c].live = TokenLive(cred)
      BY <1>1, <2>0
    <2>2. TokenLive(cred)' <=> TokenLive(cred)
      BY <1>3, Zenon DEF TokenLive
    <2> QED
      BY <2>0, <2>1, <2>2, <1>3, Zenon DEF Arrive
  <1>6. InForce(bindings)' = InForce(bindings)
    BY <1>3, Zenon DEF InForce
  <1>7. CallerOK(c)'
    BY <1>2, <1>4, <1>5, <1>6, Zenon DEF CallerOK, CallerPhases
  <1>8. RowsOK' /\ RowsEvolve
    BY <1>1, <1>3, SameRowsEvolve, Zenon DEF RowsInv, RowsOK
  <1> QED
    BY <1>1, <1>3, <1>7, <1>8, OneCallerMoves, Zenon

(* The steps that only move a request on. *)
LEMMA AdvancingRows ==
    ASSUME RowsInv, NEW c \in Callers,
           \/ EnsureBootstrapPlatformAdmin(c)
           \/ Authenticate(c)
           \/ AuthenticateSession(c)
           \/ SkipRenewal(c)
    PROVE  RowsInv'
  <1>0. CallerOK(c)
    BY Zenon DEF RowsInv
  <1>1. /\ session' = session /\ token' = token /\ now' = now /\ bindings' = bindings
    BY Zenon DEF EnsureBootstrapPlatformAdmin, Authenticate, AuthenticateSession, SkipRenewal
  <1>2. InForce(bindings)' = InForce(bindings)
    BY <1>1, Zenon DEF InForce
  <1>3. PICK ph \in {"creating", "granting", "admitted", "refused", "loading"} :
          /\ Advance(c, ph)
          /\ ph = "loading" => /\ caller[c].phase = "looking" /\ caller[c].by \in Sessions
                               /\ SessionGood(caller[c].by)
          /\ ph = "admitted" => \/ /\ caller[c].phase = "looking" /\ caller[c].by \in Tokens
                                   /\ TokenLive(caller[c].by)
                                \/ caller[c].phase = "renewing"
    BY Zenon DEF EnsureBootstrapPlatformAdmin, Authenticate, AuthenticateSession, SkipRenewal
  <1>4. /\ caller' = [d \in Callers |-> caller'[d]]
        /\ \A d \in Callers : d # c => caller'[d] = caller[d]
        /\ DOMAIN caller'[c] = CallerFields
        /\ caller'[c].phase = ph
        /\ caller'[c].by = caller[c].by
        /\ caller'[c].live = caller[c].live
        /\ caller'[c].held = caller[c].held
        /\ caller'[c].roles = caller[c].roles
    BY <1>3, MovedOn, Zenon
  <1>5. ph = "loading" => caller[c].by \in Sessions /\ caller[c].live
    BY <1>0, <1>3, Zenon DEF CallerOK, SessionGood, Live
  <1>6. ph = "admitted" => caller[c].live
    BY <1>0, <1>3, Zenon DEF CallerOK
  <1>7. ph = "loading" => InForce(bindings) \subseteq caller[c].held
    BY <1>0, <1>3, Zenon DEF CallerOK
  <1>8. caller[c].roles \subseteq caller[c].held /\ ph \in CallerPhases
    BY <1>0, Zenon DEF CallerOK, CallerPhases
  <1>9. CallerOK(c)'
    BY <1>2, <1>4, <1>5, <1>6, <1>7, <1>8, Zenon DEF CallerOK
  <1>10. RowsOK' /\ RowsEvolve
    BY <1>1, <1>4, SameRowsEvolve, Zenon DEF RowsInv, RowsOK
  <1> QED
    BY <1>1, <1>4, <1>9, <1>10, OneCallerMoves, Zenon

(* The roles a request loads are in force when it does. *)
LEMMA LoadRows ==
    ASSUME RowsInv, NEW c \in Callers, LoadPrincipal(c)
    PROVE  RowsInv'
  <1>0. CallerOK(c) /\ DOMAIN caller = Callers
    BY Zenon DEF RowsInv, RowsOK
  <1>1. /\ session' = session /\ token' = token /\ now' = now /\ bindings' = bindings
        /\ caller[c].phase = "loading"
        /\ caller' = [caller EXCEPT ![c].phase = "renewing", ![c].roles = LoadedBindings]
    BY Zenon DEF LoadPrincipal
  <1>2. /\ DOMAIN caller[c] = CallerFields /\ caller[c].by \in Sessions /\ caller[c].live
        /\ InForce(bindings) \subseteq caller[c].held
    BY <1>0, <1>1, Zenon DEF CallerOK
  <1>3. /\ caller' = [d \in Callers |-> caller'[d]]
        /\ \A d \in Callers : d # c => caller'[d] = caller[d]
        /\ DOMAIN caller'[c] = CallerFields
        /\ caller'[c].phase = "renewing"
        /\ caller'[c].by = caller[c].by
        /\ caller'[c].live = caller[c].live
        /\ caller'[c].held = caller[c].held
        /\ caller'[c].roles = LoadedBindings
    BY <1>0, <1>1, <1>2, Zenon DEF CallerFields
  <1>4. CallerOK(c)'
    BY <1>2, <1>3, Zenon DEF CallerOK, CallerPhases, LoadedBindings
  <1>5. RowsOK' /\ RowsEvolve
    BY <1>1, <1>3, SameRowsEvolve, Zenon DEF RowsInv, RowsOK
  <1> QED
    BY <1>1, <1>3, <1>4, <1>5, OneCallerMoves, Zenon

(* The steps of a request that write a session. *)
LEMMA SessionRows ==
    ASSUME RowsInv, NEW c \in Callers,
           RenewSession(c) \/ \E s \in Sessions : CreateSession(c, s)
    PROVE  RowsInv'
  <1>0. CallerOK(c) /\ now \in Nat
    BY DEF RowsInv, RowsOK
  <1>1. /\ token' = token /\ now' = now /\ bindings' = bindings
    BY Zenon DEF RenewSession, CreateSession
  <1>2. InForce(bindings)' = InForce(bindings)
    BY <1>1, Zenon DEF InForce
  <1>3. PICK ph \in {"idle", "admitted"} :
          /\ Advance(c, ph)
          /\ ph = "admitted" => caller[c].phase = "renewing"
    BY Zenon DEF RenewSession, CreateSession
  <1>4. /\ caller' = [d \in Callers |-> caller'[d]]
        /\ \A d \in Callers : d # c => caller'[d] = caller[d]
        /\ DOMAIN caller'[c] = CallerFields
        /\ caller'[c].phase = ph
        /\ caller'[c].live = caller[c].live
        /\ caller'[c].held = caller[c].held
        /\ caller'[c].roles = caller[c].roles
    BY <1>3, MovedOn, Zenon
  <1>5. CallerOK(c)'
    BY <1>0, <1>3, <1>4, Zenon DEF CallerOK, CallerPhases
  <1>6. ASSUME RenewSession(c)
        PROVE  /\ session' \in [Sessions -> [status : RowStatuses, idle : Nat, absolute : Nat]]
               /\ \A s \in Sessions :
                    /\ session'[s].idle <= session'[s].absolute
                    /\ session'[s].status = session[s].status
                    /\ session'[s].absolute = session[s].absolute
    <2> DEFINE s == caller[c].by
               idle == IF now + IdleTTL <= session[s].absolute THEN now + IdleTTL
                       ELSE session[s].absolute
    <2>1. s \in Sessions
      BY <1>0, <1>6, Zenon DEF RenewSession, CallerOK
    <2>2. session' = [session EXCEPT ![s].idle = idle]
      BY <1>6, Zenon DEF RenewSession
    <2>3. /\ session \in [Sessions -> [status : RowStatuses, idle : Nat, absolute : Nat]]
          /\ \A x \in Sessions : session[x].idle <= session[x].absolute
      BY Zenon DEF RowsInv, RowsOK
    <2>4. idle \in Nat /\ idle <= session[s].absolute
      BY <1>0, <2>1, <2>3, LifetimesAssumption
    <2> HIDE DEF idle
    <2> QED
      BY <2>1, <2>2, <2>3, <2>4, Zenon
  <1>7. ASSUME NEW s \in Sessions, CreateSession(c, s)
        PROVE  /\ session' \in [Sessions -> [status : RowStatuses, idle : Nat, absolute : Nat]]
               /\ \A x \in Sessions : session'[x].idle <= session'[x].absolute
               /\ session[s].status = "none"
               /\ \A x \in Sessions : x # s => session'[x] = session[x]
    <2>1. /\ session \in [Sessions -> [status : RowStatuses, idle : Nat, absolute : Nat]]
          /\ \A x \in Sessions : session[x].idle <= session[x].absolute
      BY Zenon DEF RowsInv, RowsOK
    <2>2. /\ now + IdleTTL \in Nat /\ now + AbsoluteTTL \in Nat
          /\ now + IdleTTL <= now + AbsoluteTTL
      BY <1>0, LifetimesAssumption
    <2> QED
      BY <1>7, <2>1, <2>2, Zenon DEF CreateSession, RowStatuses
  <1>8. RowsOK'
    BY <1>1, <1>4, <1>6, <1>7, Zenon DEF RowsInv, RowsOK
  <1>9. RowsEvolve
    BY <1>0, <1>1, <1>6, <1>7 DEF RowsEvolve
  <1> QED
    BY <1>1, <1>4, <1>5, <1>8, <1>9, OneCallerMoves, Zenon

(* A grant is noted by every request under way. *)
LEMMA GrantRows ==
    ASSUME RowsInv, NEW b \in Bindings, GrantRole(b)
    PROVE  RowsInv'
  <1>1. /\ session' = session /\ token' = token /\ now' = now
        /\ bindings' = bindings \cup {b}
        /\ caller' = [c \in Callers |-> [caller[c] EXCEPT !.held = @ \cup InForce(bindings')]]
    BY Zenon DEF GrantRole, Noted
  <1>2. RowsOK' /\ RowsEvolve
    BY <1>1, SameRowsEvolve, Zenon DEF RowsInv, RowsOK
  <1>3. InForce(bindings)' = InForce(bindings')
    BY <1>1, Zenon DEF InForce
  <1>4. ASSUME NEW c \in Callers PROVE CallerOK(c)'
    <2>1. DOMAIN caller[c] = CallerFields
      BY Zenon DEF RowsInv, CallerOK
    <2>2. Stays(c)
      BY <1>1, <1>3, <2>1, Zenon DEF Stays, CallerFields
    <2> QED
      BY <1>2, <2>2, CallerStays, Zenon
  <1> QED
    BY <1>2, <1>4, Zenon DEF RowsInv

(* The bootstrap's grant is noted like any other. *)
LEMMA BootstrapRows ==
    ASSUME RowsInv, NEW c \in Callers, NEW b \in Bindings, BootstrapGrant(c, b)
    PROVE  RowsInv'
  <1>0. CallerOK(c)
    BY Zenon DEF RowsInv
  <1>1. session' = session /\ token' = token /\ now' = now
    BY Zenon DEF BootstrapGrant
  <1>2. CASE Clashes(b)
    <2>1. Advance(c, "refused") /\ bindings' = bindings
      BY <1>2, Zenon DEF BootstrapGrant
    <2>2. /\ caller' = [d \in Callers |-> caller'[d]]
          /\ \A d \in Callers : d # c => caller'[d] = caller[d]
          /\ DOMAIN caller'[c] = CallerFields
          /\ caller'[c].phase = "refused"
          /\ caller'[c].held = caller[c].held
          /\ caller'[c].roles = caller[c].roles
      BY <2>1, MovedOn, Zenon
    <2>3. CallerOK(c)'
      BY <1>0, <2>2, Zenon DEF CallerOK, CallerPhases
    <2>4. RowsOK' /\ RowsEvolve
      BY <1>1, <2>1, <2>2, SameRowsEvolve, Zenon DEF RowsInv, RowsOK
    <2> QED
      BY <1>1, <2>1, <2>2, <2>3, <2>4, OneCallerMoves, Zenon
  <1>3. CASE ~Clashes(b)
    <2>1. /\ bindings' = bindings \cup {b}
          /\ caller' = [Noted(bindings') EXCEPT ![c].phase = "creating"]
      BY <1>3, Zenon DEF BootstrapGrant
    <2>2. /\ DOMAIN Noted(bindings') = Callers
          /\ \A d \in Callers :
               /\ DOMAIN Noted(bindings')[d] = DOMAIN caller[d]
               /\ Noted(bindings')[d] = [caller[d] EXCEPT !.held = @ \cup InForce(bindings')]
      BY Zenon DEF Noted
    <2>3. /\ caller' = [d \in Callers |-> caller'[d]]
          /\ \A d \in Callers : d # c => caller'[d] = Noted(bindings')[d]
          /\ caller'[c] = [Noted(bindings')[c] EXCEPT !.phase = "creating"]
      BY <2>1, <2>2, Zenon
    <2>4. RowsOK' /\ RowsEvolve
      BY <1>1, <2>1, <2>3, SameRowsEvolve, Zenon DEF RowsInv, RowsOK
    <2>5. InForce(bindings)' = InForce(bindings')
      BY <1>1, Zenon DEF InForce
    <2>6. ASSUME NEW d \in Callers, d # c PROVE CallerOK(d)'
      <3>1. DOMAIN caller[d] = CallerFields
        BY Zenon DEF RowsInv, CallerOK
      <3>2. Stays(d)
        BY <2>2, <2>3, <2>5, <2>6, <3>1 DEF Stays, CallerFields
      <3> QED
        BY <2>4, <3>2, CallerStays, Zenon
    <2>7. CallerOK(c)'
      <3>1. DOMAIN caller[c] = CallerFields /\ caller[c].roles \subseteq caller[c].held
        BY <1>0, Zenon DEF CallerOK
      <3>2. /\ DOMAIN caller'[c] = CallerFields
            /\ caller'[c].phase = "creating"
            /\ caller'[c].roles = caller[c].roles
            /\ caller[c].held \subseteq caller'[c].held
        BY <2>2, <2>3, <3>1 DEF CallerFields
      <3> QED
        BY <3>1, <3>2, Zenon DEF CallerOK, CallerPhases
    <2> QED
      BY <2>4, <2>6, <2>7, Zenon DEF RowsInv
  <1> QED
    BY <1>2, <1>3, Zenon

-----------------------------------------------------------------------------
(* The rows are none of the limiter's, and only the clock is of both. *)
LEMMA SameLimiter ==
    ASSUME LimiterInv, now' = now, entries' = entries, passes' = passes
    PROVE  LimiterInv'
  BY Zenon DEF LimiterInv, LimiterOK, AddressOK

(* The limiter leaves the rows alone. *)
LEMMA SameRows ==
    ASSUME RowsInv, now' = now, session' = session, token' = token,
           bindings' = bindings, caller' = caller
    PROVE  RowsInv'
  <1>1. RowsOK'
    BY Zenon DEF RowsInv, RowsOK
  <1>2. RowsEvolve
    BY SameRowsEvolve, Zenon DEF RowsInv
  <1> QED
    BY <1>1, <1>2, QuietRows, Zenon

(* A step of a request keeps the invariant. *)
LEMMA CallerKeeps ==
    ASSUME AccessInv, NEW c \in Callers,
           \/ \E b \in BOOLEAN : Callback(c, b)
           \/ \E cred \in Sessions \cup Tokens : Arrive(c, cred)
           \/ Authenticate(c)
           \/ SessionStep(c)
    PROVE  AccessInv'
  <1> USE DEF AccessInv
  <1>1. LimiterInv'
    <2>1. now' = now /\ entries' = entries /\ passes' = passes
      BY Zenon DEF Callback, Arrive, Authenticate, SessionStep, EnsureBootstrapPlatformAdmin,
             BootstrapGrant, CreateSession, AuthenticateSession, LoadPrincipal,
             RenewSession, SkipRenewal
    <2> QED
      BY <2>1, SameLimiter, Zenon
  <1>2. CASE \E b \in BOOLEAN : Callback(c, b)
    BY <1>1, <1>2, CallbackRows, Zenon
  <1>3. CASE \E cred \in Sessions \cup Tokens : Arrive(c, cred)
    BY <1>1, <1>3, ArriveRows, Zenon
  <1>4. CASE Authenticate(c)
    BY <1>1, <1>4, AdvancingRows, Zenon
  <1>5. CASE SessionStep(c)
    <2>1. CASE \E b \in Bindings : BootstrapGrant(c, b)
      BY <1>1, <2>1, BootstrapRows, Zenon
    <2>2. CASE RenewSession(c) \/ \E s \in Sessions : CreateSession(c, s)
      BY <1>1, <2>2, SessionRows, Zenon
    <2>3. CASE LoadPrincipal(c)
      BY <1>1, <2>3, LoadRows, Zenon
    <2>4. CASE EnsureBootstrapPlatformAdmin(c) \/ AuthenticateSession(c) \/ SkipRenewal(c)
      BY <1>1, <2>4, AdvancingRows, Zenon
    <2> QED
      BY <1>5, <2>1, <2>2, <2>3, <2>4, Zenon DEF SessionStep
  <1> QED
    BY <1>2, <1>3, <1>4, <1>5, Zenon

(* So does every step. *)
LEMMA AccessStep ==
    ASSUME FiniteFacts
    PROVE  AccessInv /\ [AccessNext]_accessVars => AccessInv'
  <1> SUFFICES ASSUME AccessInv, [AccessNext]_accessVars PROVE AccessInv'
    BY Zenon
  <1> USE DEF AccessInv
  <1>1. CASE Tick
    BY <1>1, TickRows, TickLimiter, Zenon DEF RowsInv
  <1>2. ASSUME NEW c \in Callers,
               \/ \E b \in BOOLEAN : Callback(c, b)
               \/ \E cred \in Sessions \cup Tokens : Arrive(c, cred)
               \/ Authenticate(c)
               \/ SessionStep(c)
        PROVE  AccessInv'
    BY <1>2, CallerKeeps, Zenon
  <1>3. CASE \/ \E s \in Sessions : RevokeSession(s)
             \/ \E b \in Bindings : RevokeRole(b)
             \/ \E t \in Tokens : RevokeToken(t)
             \/ \E t \in Tokens, until \in 1..(now + TokenMaxTTL) : CreateToken(t, until)
    <2>1. RowsInv'
      BY <1>3, RevokeRows, Zenon
    <2>2. now' = now /\ entries' = entries /\ passes' = passes
      BY <1>3, Zenon DEF RevokeSession, RevokeRole, RevokeToken, CreateToken
    <2> QED
      BY <2>1, <2>2, SameLimiter, Zenon
  <1>4. ASSUME NEW b \in Bindings, GrantRole(b) PROVE AccessInv'
    <2>1. now' = now /\ entries' = entries /\ passes' = passes
      BY <1>4, Zenon DEF GrantRole
    <2> QED
      BY <1>4, <2>1, GrantRows, SameLimiter, Zenon
  <1>5. ASSUME NEW a \in Addresses, LoginRequest(a) PROVE AccessInv'
    <2>1. LimiterInv'
      BY <1>5, LoginLimiter, Zenon DEF RowsInv
    <2>2. /\ now' = now /\ session' = session /\ token' = token
          /\ bindings' = bindings /\ caller' = caller
      BY <1>5, Zenon DEF LoginRequest
    <2> QED
      BY <2>1, <2>2, SameRows, Zenon
  <1>6. CASE UNCHANGED accessVars
    BY <1>6, SameRows, SameLimiter, Zenon DEF accessVars
  <1>7. CASE SessionsNext
    BY <1>7, <1>1, <1>2, <1>3, <1>4, Zenon DEF SessionsNext
  <1>8. CASE TokensNext
    BY <1>8, <1>1, <1>2, <1>3, Zenon DEF TokensNext
  <1>9. CASE LoginsNext
    BY <1>9, <1>1, <1>5, Zenon DEF LoginsNext
  <1> QED
    BY <1>6, <1>7, <1>8, <1>9, Zenon DEF AccessNext

-----------------------------------------------------------------------------
(***************************************************************************)
(* Writes to a project's file.                                             *)
(***************************************************************************)

(* Nothing has happened that a drill cannot undo. *)
Clean == mishaps \subseteq {"database"}

(* A preimage is what the drill expected, and so is its artifact. *)
ImagesExpected ==
    \A d \in Drills :
        /\ phase[d] \in InFlight => preimage[d] = writeSet[d].expected
        /\ saved[d] \in {NoContent, writeSet[d].expected}
        /\ phase[d] = "none" => saved[d] = NoContent

(* Without a mishap every drill under way will put back what the owner left,
   and where the file differs from that, one of them still has to.         *)
ChangedByDrill ==
    Clean =>
        /\ \A d \in Drills : phase[d] \in InFlight => writeSet[d].expected = owned
        /\ file # owned =>
             \E d \in Drills : phase[d] \in {"written", "verified", "failing"}

(* Without an edit during a drill the owner's content is in the store, or in
   the file and in every preimage read so far.                             *)
OwnedIsSomewhere ==
    "edit" \notin mishaps =>
        \/ \E d \in Drills : saved[d] = owned
        \/ /\ file = owned
           /\ \A d \in Drills : phase[d] \in InFlight =>
                phase[d] = "checked" /\ preimage[d] = owned

(* The row lock of a worker is held by a drill under way, and each has one. *)
LocksHeld ==
    /\ \A w \in Workers : lock[w] # NoDrill => phase[lock[w]] \in InFlight
    /\ \A d \in Drills : phase[d] \in InFlight => \E w \in Workers : lock[w] = d

(* Drills that share one worker never overlap: its row lock keeps them apart. *)
OneWorkerNoOverlap ==
    (\A v, w \in Workers : v = w) => "overlap" \notin mishaps

(* The inductive invariant. *)
DrillInv ==
    /\ TypeOK
    /\ ImagesExpected
    /\ ChangedByDrill
    /\ OwnedIsSomewhere
    /\ LocksHeld
    /\ OneWorkerNoOverlap

-----------------------------------------------------------------------------
(* No drill is queued and the file is the owner's. *)
LEMMA DrillInit == Init => DrillInv
  <1> SUFFICES ASSUME Init PROVE DrillInv
    BY Zenon
  <1>1. TypeOK
    BY ProjectWriteAssumption DEF Init, TypeOK, WriteSets, Phases
  <1>2. \A d \in Drills : phase[d] \notin InFlight
    BY Zenon DEF Init, InFlight
  <1>3. ImagesExpected /\ ChangedByDrill /\ OwnedIsSomewhere
    BY <1>2, Zenon DEF Init, ImagesExpected, ChangedByDrill, OwnedIsSomewhere
  <1>4. LocksHeld /\ OneWorkerNoOverlap
    BY <1>2, Zenon DEF Init, LocksHeld, OneWorkerNoOverlap
  <1> QED
    BY <1>1, <1>3, <1>4, Zenon DEF DrillInv

(* A drill moves on: only its phase changes, and its lock goes with its
   transaction.                                                            *)
LEMMA Moved ==
    ASSUME TypeOK, LocksHeld, NEW d \in Drills, NEW p \in Phases, Goto(d, p),
           p \in InFlight => phase[d] \in InFlight
    PROVE  /\ phase' \in [Drills -> Phases]
           /\ phase'[d] = p
           /\ \A e \in Drills \ {d} : phase'[e] = phase[e]
           /\ lock' \in [Workers -> Drills \cup {NoDrill}]
           /\ LocksHeld'
  <1>1. /\ phase' \in [Drills -> Phases] /\ phase'[d] = p
        /\ \A e \in Drills \ {d} : phase'[e] = phase[e]
    BY Zenon DEF Goto, TypeOK
  <1>2. /\ lock' \in [Workers -> Drills \cup {NoDrill}]
        /\ \A w \in Workers :
             lock'[w] = IF lock[w] = d /\ p \notin InFlight THEN NoDrill ELSE lock[w]
    BY Zenon DEF Goto, TypeOK
  <1>3. ASSUME NEW w \in Workers, lock'[w] # NoDrill PROVE phase'[lock'[w]] \in InFlight
    <2>1. lock'[w] = lock[w] /\ lock[w] \in Drills /\ phase[lock[w]] \in InFlight
      BY <1>2, <1>3, Zenon DEF TypeOK, LocksHeld
    <2>2. lock[w] = d => p \in InFlight
      BY <1>2, <1>3, Zenon
    <2> QED
      BY <1>1, <2>1, <2>2, Zenon
  <1>4. ASSUME NEW e \in Drills, phase'[e] \in InFlight PROVE \E w \in Workers : lock'[w] = e
    <2>1. phase[e] \in InFlight /\ (e = d => p \in InFlight)
      BY <1>1, <1>4, Zenon
    <2>2. PICK w \in Workers : lock[w] = e
      BY <2>1, Zenon DEF LocksHeld
    <2> QED
      BY <1>2, <2>1, <2>2, Zenon
  <1> QED
    BY <1>1, <1>2, <1>3, <1>4, Zenon DEF LocksHeld

(* What is common to the steps of a drill that store nothing: the file changes
   only after the preimage was saved, and is left different from what the owner
   put there only while some drill still has to put it back.               *)
LEMMA DrillMoves ==
    ASSUME DrillInv, NEW d \in Drills, NEW p \in Phases, Goto(d, p),
           p \in InFlight => phase[d] \in InFlight \ {"checked"},
           p \notin {"none", "checked"},
           UNCHANGED <<writeSet, preimage, saved, owned, edits>>,
           file' \in Contents \cup {Torn},
           file' # file => phase[d] \in InFlight \ {"checked"},
           mishaps' = mishaps \/ \E f \in Failures : mishaps' = mishaps \cup {f},
           Clean' /\ file' # owned =>
             \E e \in Drills : phase'[e] \in {"written", "verified", "failing"}
    PROVE  DrillInv'
  <1>1. /\ phase' \in [Drills -> Phases]
        /\ phase'[d] = p
        /\ \A e \in Drills \ {d} : phase'[e] = phase[e]
        /\ lock' \in [Workers -> Drills \cup {NoDrill}]
        /\ LocksHeld'
    BY Moved, Zenon DEF DrillInv
  <1>2. /\ mishaps \subseteq mishaps' /\ mishaps' \subseteq Failures \cup {"overlap"}
        /\ "overlap" \in mishaps' => "overlap" \in mishaps
    BY ProjectWriteAssumption, Zenon DEF DrillInv, TypeOK, FailureKinds
  <1>3. \A e \in Drills : phase'[e] \in InFlight => phase[e] \in InFlight
    BY <1>1, Zenon
  <1>4. TypeOK'
    BY <1>1, <1>2, Zenon DEF DrillInv, TypeOK
  <1>5. ImagesExpected'
    BY <1>1, <1>3, Zenon DEF DrillInv, ImagesExpected
  <1>6. ChangedByDrill'
    BY <1>2, <1>3, Zenon DEF DrillInv, ChangedByDrill, Clean
  <1>7. OwnedIsSomewhere'
    <2>1. CASE \E e \in Drills : saved[e] = owned
      BY <2>1, Zenon DEF OwnedIsSomewhere
    <2>2. CASE "edit" \notin mishaps /\ ~\E e \in Drills : saved[e] = owned
      <3>1. file = owned /\ \A e \in Drills : phase[e] \in InFlight =>
                               phase[e] = "checked" /\ preimage[e] = owned
        BY <2>2, Zenon DEF DrillInv, OwnedIsSomewhere
      <3>2. file' = file /\ p \notin InFlight
        BY <3>1, Zenon
      <3> QED
        BY <1>1, <3>1, <3>2, Zenon DEF OwnedIsSomewhere
    <2>3. CASE "edit" \in mishaps
      BY <1>2, <2>3, Zenon DEF OwnedIsSomewhere
    <2> QED
      BY <2>1, <2>2, <2>3, Zenon
  <1>8. OneWorkerNoOverlap'
    BY <1>2, Zenon DEF DrillInv, OneWorkerNoOverlap
  <1> QED
    BY <1>1, <1>4, <1>5, <1>6, <1>7, <1>8, Zenon DEF DrillInv

(* A drill is queued with what it expects and what it will write. *)
LEMMA QueueInv ==
    ASSUME DrillInv, NEW d \in Drills, NEW expected \in Expected, NEW after \in Contents,
           QueueDrill(d, expected, after)
    PROVE  DrillInv'
  <1>1. /\ phase[d] = "none" /\ Goto(d, "queued")
        /\ writeSet' = [writeSet EXCEPT ![d] = [expected |-> expected, after |-> after]]
        /\ UNCHANGED <<file, preimage, saved, owned, edits, mishaps>>
    BY Zenon DEF QueueDrill
  <1>2. "queued" \in Phases /\ "queued" \notin InFlight /\ "none" \notin InFlight
    BY Zenon DEF Phases, InFlight
  <1>3. /\ phase' \in [Drills -> Phases]
        /\ phase'[d] = "queued"
        /\ \A e \in Drills \ {d} : phase'[e] = phase[e]
        /\ lock' \in [Workers -> Drills \cup {NoDrill}]
        /\ LocksHeld'
    BY <1>1, <1>2, Moved, Zenon DEF DrillInv
  <1>4. writeSet' \in [Drills -> WriteSets] /\ \A e \in Drills \ {d} : writeSet'[e] = writeSet[e]
    BY <1>1, ProjectWriteAssumption, Zenon DEF DrillInv, TypeOK, WriteSets
  <1>5. TypeOK'
    BY <1>1, <1>3, <1>4, Zenon DEF DrillInv, TypeOK
  <1>6. ImagesExpected'
    BY <1>1, <1>2, <1>3, <1>4 DEF DrillInv, ImagesExpected
  <1>7. ChangedByDrill'
    BY <1>1, <1>2, <1>3, <1>4 DEF DrillInv, ChangedByDrill, Clean
  <1>8. OwnedIsSomewhere' /\ OneWorkerNoOverlap'
    BY <1>1, <1>2, <1>3, Zenon DEF DrillInv, OwnedIsSomewhere, OneWorkerNoOverlap
  <1> QED
    BY <1>3, <1>5, <1>6, <1>7, <1>8, Zenon DEF DrillInv

(* A drill enters and compares the file with what it expects.  If none is under
   way the file is the owner's; if some are, they expect the owner's content,
   and so does this one unless they overlap.                               *)
LEMMA CheckInv ==
    ASSUME DrillInv, NEW d \in Drills, NEW w \in Workers, CheckPreimage(d, w)
    PROVE  DrillInv'
  <1>1. /\ phase[d] = "queued" /\ lock[w] = NoDrill
        /\ file = writeSet[d].expected
        /\ phase' = [phase EXCEPT ![d] = "checked"]
        /\ lock' = [lock EXCEPT ![w] = d]
        /\ mishaps' = IF Overlaps(d) THEN mishaps \cup {"overlap"} ELSE mishaps
        /\ preimage' = [preimage EXCEPT ![d] = file]
        /\ UNCHANGED <<file, writeSet, saved, owned, edits>>
    BY Zenon DEF CheckPreimage, Enter
  <1>2. "checked" \in Phases /\ "checked" \in InFlight /\ "queued" \notin InFlight
    BY Zenon DEF Phases, InFlight
  <1>3. writeSet[d].expected \in Contents
    BY Zenon DEF DrillInv, TypeOK, WriteSets
  <1>4. /\ phase' \in [Drills -> Phases] /\ phase'[d] = "checked"
        /\ \A e \in Drills \ {d} : phase'[e] = phase[e]
        /\ preimage' \in [Drills -> Contents \cup {NoContent}]
        /\ preimage'[d] = writeSet[d].expected
        /\ \A e \in Drills \ {d} : preimage'[e] = preimage[e]
    BY <1>1, <1>2, <1>3, Zenon DEF DrillInv, TypeOK
  <1>5. /\ lock' \in [Workers -> Drills \cup {NoDrill}]
        /\ lock'[w] = d /\ \A v \in Workers \ {w} : lock'[v] = lock[v]
    BY <1>1, Zenon DEF DrillInv, TypeOK
  <1>6. mishaps \subseteq mishaps' /\ mishaps' \subseteq Failures \cup {"overlap"}
    BY <1>1, Zenon DEF DrillInv, TypeOK
  <1>7. "edit" \in mishaps' <=> "edit" \in mishaps
    BY <1>1, Zenon
  <1>8. TypeOK'
    BY <1>1, <1>4, <1>5, <1>6, Zenon DEF DrillInv, TypeOK
  <1>9. ImagesExpected'
    BY <1>1, <1>4, Zenon DEF DrillInv, ImagesExpected
  <1>10. ChangedByDrill'
    <2> SUFFICES ASSUME Clean'
                 PROVE  /\ \A e \in Drills : phase'[e] \in InFlight => writeSet[e].expected = owned
                        /\ file # owned =>
                             \E e \in Drills : phase'[e] \in {"written", "verified", "failing"}
      BY <1>1, Zenon DEF ChangedByDrill
    <2>1. Clean /\ ~Overlaps(d)
      BY <1>1, <1>6, Zenon DEF Clean
    <2>2. /\ \A e \in Drills : phase[e] \in InFlight => writeSet[e].expected = owned
          /\ file # owned =>
               \E e \in Drills : phase[e] \in {"written", "verified", "failing"}
      BY <2>1, Zenon DEF DrillInv, ChangedByDrill
    <2>3. writeSet[d].expected = owned
      <3>1. CASE \E e \in Drills : phase[e] \in InFlight
        BY <2>1, <2>2, <3>1, Zenon DEF Overlaps
      <3>2. CASE \A e \in Drills : phase[e] \notin InFlight
        BY <1>1, <2>2, <3>2, Zenon DEF InFlight
      <3> QED
        BY <3>1, <3>2, Zenon
    <2> QED
      BY <1>1, <1>4, <2>2, <2>3, Zenon
  <1>11. OwnedIsSomewhere'
    BY <1>1, <1>4, <1>7, Zenon DEF DrillInv, OwnedIsSomewhere
  <1>12. LocksHeld'
    <2>1. ASSUME NEW v \in Workers, lock'[v] # NoDrill PROVE phase'[lock'[v]] \in InFlight
      BY <1>2, <1>4, <1>5, <2>1 DEF DrillInv, TypeOK, LocksHeld
    <2>2. ASSUME NEW e \in Drills, phase'[e] \in InFlight PROVE \E v \in Workers : lock'[v] = e
      <3>1. CASE e = d
        BY <1>5, <3>1, Zenon
      <3>2. CASE e # d
        <4>1. PICK v \in Workers : lock[v] = e
          BY <1>4, <2>2, <3>2, Zenon DEF DrillInv, LocksHeld
        <4> QED
          BY <1>1, <1>5, <4>1, ProjectWriteAssumption, Zenon
      <3> QED
        BY <3>1, <3>2, Zenon
    <2> QED
      BY <2>1, <2>2, Zenon DEF LocksHeld
  <1>13. OneWorkerNoOverlap'
    <2> SUFFICES ASSUME \A u, v \in Workers : u = v
                 PROVE  "overlap" \notin mishaps'
      BY Zenon DEF OneWorkerNoOverlap
    <2>1. \A e \in Drills : phase[e] \notin InFlight
      BY <1>1, ProjectWriteAssumption, Zenon DEF DrillInv, LocksHeld
    <2> QED
      BY <1>1, <2>1, Zenon DEF DrillInv, OneWorkerNoOverlap, Overlaps
  <1> QED
    BY <1>8, <1>9, <1>10, <1>11, <1>12, <1>13, Zenon DEF DrillInv

(* The preimage goes to the artifact store before the file is touched. *)
LEMMA SaveInv ==
    ASSUME DrillInv, NEW d \in Drills, SavePreimage(d)
    PROVE  DrillInv'
  <1>1. /\ phase[d] = "checked" /\ Goto(d, "saved")
        /\ saved' = [saved EXCEPT ![d] = preimage[d]]
        /\ UNCHANGED <<file, writeSet, preimage, owned, edits, mishaps>>
    BY Zenon DEF SavePreimage
  <1>2. "saved" \in Phases /\ "saved" \in InFlight /\ "checked" \in InFlight
    BY Zenon DEF Phases, InFlight
  <1>3. /\ phase' \in [Drills -> Phases]
        /\ phase'[d] = "saved"
        /\ \A e \in Drills \ {d} : phase'[e] = phase[e]
        /\ lock' \in [Workers -> Drills \cup {NoDrill}]
        /\ LocksHeld'
    BY <1>1, <1>2, Moved, Zenon DEF DrillInv
  <1>4. preimage[d] = writeSet[d].expected
    BY <1>1, <1>2, Zenon DEF DrillInv, ImagesExpected
  <1>5. /\ saved' \in [Drills -> Contents \cup {NoContent}]
        /\ saved'[d] = preimage[d]
        /\ \A e \in Drills \ {d} : saved'[e] = saved[e]
    BY <1>1, Zenon DEF DrillInv, TypeOK
  <1>6. TypeOK'
    BY <1>1, <1>3, <1>5, Zenon DEF DrillInv, TypeOK
  <1>7. ImagesExpected'
    BY <1>1, <1>2, <1>3, <1>4, <1>5, Zenon DEF DrillInv, ImagesExpected
  <1>8. ChangedByDrill'
    <2>1. \A e \in Drills : phase'[e] \in InFlight => phase[e] \in InFlight
      BY <1>1, <1>2, <1>3, Zenon
    <2>2. \A e \in Drills : phase[e] \in {"written", "verified", "failing"} => phase'[e] = phase[e]
      BY <1>1, <1>3, Zenon
    <2> QED
      BY <1>1, <2>1, <2>2, Zenon DEF DrillInv, ChangedByDrill, Clean
  <1>9. OwnedIsSomewhere'
    <2>1. ASSUME NEW e \in Drills, saved[e] = owned PROVE saved'[e] = owned
      <3>1. CASE e = d
        <4>1. saved[d] # NoContent
          BY <2>1, <3>1, ProjectWriteAssumption, Zenon DEF DrillInv, TypeOK
        <4> QED
          BY <1>4, <1>5, <2>1, <3>1, <4>1, Zenon DEF DrillInv, ImagesExpected
      <3>2. CASE e # d
        BY <1>5, <2>1, <3>2, Zenon
      <3> QED
        BY <3>1, <3>2, Zenon
    <2> QED
      BY <1>1, <1>2, <1>5, <2>1, Zenon DEF DrillInv, OwnedIsSomewhere
  <1>10. OneWorkerNoOverlap'
    BY <1>1, Zenon DEF DrillInv, OneWorkerNoOverlap
  <1> QED
    BY <1>3, <1>6, <1>7, <1>8, <1>9, <1>10, Zenon DEF DrillInv

(* The steps that leave the file alone: a denial, the two comparisons, the
   commit, a failing statement and a crash.                                *)
LEMMA QuietInv ==
    ASSUME DrillInv, NEW d \in Drills,
           \/ \E w \in Workers : DenyPreimage(d, w)
           \/ VerifyTarget(d) \/ ConfirmRollback(d) \/ Commit(d)
           \/ DatabaseFails(d) \/ Crash(d)
    PROVE  DrillInv'
  <1> DEFINE Busy == {"written", "verified", "failing"}
  <1>1. UNCHANGED <<file, writeSet, preimage, saved, owned, edits>>
    BY Zenon DEF DenyPreimage, VerifyTarget, ConfirmRollback, Commit, DatabaseFails, Crash
  <1>2. mishaps' = mishaps \/ \E f \in Failures : mishaps' = mishaps \cup {f}
    BY Zenon DEF DenyPreimage, VerifyTarget, ConfirmRollback, Commit, DatabaseFails, Crash, Happens
  <1>3. PICK p \in Phases : /\ Goto(d, p)
                            /\ p \in InFlight => phase[d] \in InFlight \ {"checked"}
                            /\ p \notin {"none", "checked"}
                            /\ phase[d] \in Busy => p \in Busy \/ "crash" \in mishaps'
    <2>1. CASE \E w \in Workers : DenyPreimage(d, w)
      BY <2>1, Zenon DEF DenyPreimage, Phases, InFlight
    <2>2. CASE VerifyTarget(d)
      BY <2>2, Zenon DEF VerifyTarget, Phases, InFlight
    <2>3. CASE ConfirmRollback(d)
      BY <2>3, Zenon DEF ConfirmRollback, Phases, InFlight
    <2>4. CASE Commit(d)
      BY <2>4, Zenon DEF Commit, Phases, InFlight
    <2>5. CASE DatabaseFails(d)
      BY <2>5, Zenon DEF DatabaseFails, Phases, InFlight
    <2>6. CASE Crash(d)
      BY <2>6, Zenon DEF Crash, Happens, Phases, InFlight
    <2> QED
      BY <2>1, <2>2, <2>3, <2>4, <2>5, <2>6, Zenon
  <1>4. file' \in Contents \cup {Torn}
    BY <1>1, Zenon DEF DrillInv, TypeOK
  <1>5. Clean' /\ file' # owned => \E e \in Drills : phase'[e] \in Busy
    <2> SUFFICES ASSUME Clean', file # owned PROVE \E e \in Drills : phase'[e] \in Busy
      BY <1>1, Zenon
    <2>1. Clean /\ "crash" \notin mishaps'
      BY <1>2, Zenon DEF Clean
    <2>2. PICK e \in Drills : phase[e] \in Busy
      BY <2>1, Zenon DEF DrillInv, ChangedByDrill
    <2>3. phase'[e] \in Busy
      BY <1>3, <2>1, <2>2, Zenon DEF Goto, DrillInv, TypeOK
    <2> QED
      BY <2>3, Zenon
  <1> QED
    BY <1>1, <1>2, <1>3, <1>4, <1>5, DrillMoves, Zenon

(* The steps that write the file: the write, the rollback and the deferred
   restore, each of which may fail and leave it torn.                      *)
LEMMA FileInv ==
    ASSUME DrillInv, NEW d \in Drills,
           \/ WriteTarget(d) \/ WriteTargetFails(d)
           \/ RollbackTarget(d) \/ RollbackTargetFails(d)
           \/ DeferredRestore(d) \/ DeferredRestoreFails(d)
    PROVE  DrillInv'
  <1> DEFINE Busy == {"written", "verified", "failing"}
  <1>1. UNCHANGED <<writeSet, preimage, saved, owned, edits>>
    BY Zenon DEF WriteTarget, WriteTargetFails, RollbackTarget, RollbackTargetFails,
           DeferredRestore, DeferredRestoreFails
  <1>2. mishaps' = mishaps \/ \E f \in Failures : mishaps' = mishaps \cup {f}
    BY Zenon DEF WriteTarget, WriteTargetFails, RollbackTarget, RollbackTargetFails,
           DeferredRestore, DeferredRestoreFails, Happens
  <1>3. phase[d] \in InFlight \ {"checked"}
    BY Zenon DEF WriteTarget, WriteTargetFails, RollbackTarget, RollbackTargetFails,
           DeferredRestore, DeferredRestoreFails, InFlight
  <1>4. preimage[d] = writeSet[d].expected /\ writeSet[d] \in WriteSets
    BY <1>3, Zenon DEF DrillInv, ImagesExpected, TypeOK
  <1>5. preimage[d] \in Contents /\ writeSet[d].after \in Contents
    BY <1>4, Zenon DEF WriteSets
  <1>6. Clean => preimage[d] = owned
    BY <1>3, <1>4, Zenon DEF DrillInv, ChangedByDrill
  <1>7. Clean' => Clean
    BY <1>2, Zenon DEF Clean
  <1>8. PICK p \in Phases : Goto(d, p) /\ p \notin {"none", "checked"}
                            /\ (file' = owned \/ p \in Busy \/ ~Clean')
                            /\ file' \in Contents \cup {Torn}
    <2>1. CASE WriteTarget(d)
      BY <1>5, <2>1, Zenon DEF WriteTarget, Phases, InFlight
    <2>2. CASE WriteTargetFails(d)
      BY <2>2, Zenon DEF WriteTargetFails, Happens, Clean, Phases, InFlight
    <2>3. CASE RollbackTarget(d)
      BY <1>5, <1>6, <1>7, <2>3, Zenon DEF RollbackTarget, Phases, InFlight
    <2>4. CASE RollbackTargetFails(d)
      BY <2>4, Zenon DEF RollbackTargetFails, Happens, Clean, Phases, InFlight
    <2>5. CASE DeferredRestore(d)
      BY <1>5, <1>6, <1>7, <2>5, Zenon DEF DeferredRestore, Phases, InFlight
    <2>6. CASE DeferredRestoreFails(d)
      BY <2>6, Zenon DEF DeferredRestoreFails, Happens, Clean, Phases, InFlight
    <2> QED
      BY <2>1, <2>2, <2>3, <2>4, <2>5, <2>6, Zenon
  <1>9. Clean' /\ file' # owned => \E e \in Drills : phase'[e] \in Busy
    BY <1>8, Zenon DEF Goto, DrillInv, TypeOK
  <1> QED
    BY <1>1, <1>2, <1>3, <1>8, <1>9, DrillMoves, Zenon

(* The owner edits the file: at rest it is theirs again; during a drill all
   that can be said is that it happened.                                   *)
LEMMA EditInv ==
    ASSUME DrillInv, NEW content \in Contents, Edit(content)
    PROVE  DrillInv'
  <1>1. /\ edits < MaxEdits /\ edits' = edits + 1
        /\ file' = content /\ owned' = content
        /\ UNCHANGED <<phase, lock, writeSet, preimage, saved>>
    BY Zenon DEF Edit
  <1>2. \/ UNCHANGED mishaps /\ \A d \in Drills : phase[d] \notin InFlight
        \/ "edit" \in Failures /\ mishaps' = mishaps \cup {"edit"}
    BY Zenon DEF Edit, AtRest, Happens
  <1>3. TypeOK'
    BY <1>1, <1>2, ProjectWriteAssumption DEF DrillInv, TypeOK
  <1>4. ImagesExpected' /\ LocksHeld'
    BY <1>1, Zenon DEF DrillInv, ImagesExpected, LocksHeld
  <1>5. ChangedByDrill' /\ OwnedIsSomewhere'
    BY <1>1, <1>2 DEF ChangedByDrill, Clean, OwnedIsSomewhere
  <1>6. OneWorkerNoOverlap'
    BY <1>2 DEF DrillInv, OneWorkerNoOverlap
  <1> QED
    BY <1>3, <1>4, <1>5, <1>6, Zenon DEF DrillInv

(* Every step preserves the invariant. *)
LEMMA DrillNext == DrillInv /\ [Next]_vars => DrillInv'
  <1> SUFFICES ASSUME DrillInv, [Next]_vars PROVE DrillInv'
    BY Zenon
  <1>1. ASSUME NEW d \in Drills, NEW expected \in Expected, NEW after \in Contents,
               QueueDrill(d, expected, after)
        PROVE  DrillInv'
    BY <1>1, QueueInv, Zenon
  <1>2. ASSUME NEW d \in Drills, NEW w \in Workers, CheckPreimage(d, w) PROVE DrillInv'
    BY <1>2, CheckInv, Zenon
  <1>3. ASSUME NEW d \in Drills, SavePreimage(d) PROVE DrillInv'
    BY <1>3, SaveInv, Zenon
  <1>4. ASSUME NEW d \in Drills,
               \/ \E w \in Workers : DenyPreimage(d, w)
               \/ VerifyTarget(d) \/ ConfirmRollback(d) \/ Commit(d)
               \/ DatabaseFails(d) \/ Crash(d)
        PROVE  DrillInv'
    BY <1>4, QuietInv, Zenon
  <1>5. ASSUME NEW d \in Drills,
               \/ WriteTarget(d) \/ WriteTargetFails(d)
               \/ RollbackTarget(d) \/ RollbackTargetFails(d)
               \/ DeferredRestore(d) \/ DeferredRestoreFails(d)
        PROVE  DrillInv'
    BY <1>5, FileInv, Zenon
  <1>6. ASSUME NEW content \in Contents, Edit(content) PROVE DrillInv'
    BY <1>6, EditInv, Zenon
  <1>7. CASE UNCHANGED vars
    BY <1>7, Zenon DEF vars, DrillInv, TypeOK, ImagesExpected, ChangedByDrill, Clean,
                OwnedIsSomewhere, LocksHeld, OneWorkerNoOverlap
  <1> QED
    BY <1>1, <1>2, <1>3, <1>4, <1>5, <1>6, <1>7, Zenon DEF Next

(* The invariant holds throughout. *)
THEOREM DrillInvariance == Spec => []DrillInv
  <1>1. Init => DrillInv
    BY DrillInit, Zenon
  <1>2. DrillInv /\ [Next]_vars => DrillInv'
    BY DrillNext, Zenon
  <1> QED
    BY <1>1, <1>2, PTL DEF Spec

(* Once no drill is under way the file is as its owner left it, however many
   drills ran side by side and wherever the database failed them
   (WriteFixtureProject, WriteManagedGenerated).                           *)
THEOREM FileIsRestored == Spec => []FileRestored
  <1>1. DrillInv => FileRestored
    <2> SUFFICES ASSUME DrillInv, AtRest, Clean PROVE file = owned
      BY Zenon DEF FileRestored, Clean
    <2>1. \A d \in Drills : phase[d] \notin {"written", "verified", "failing"}
      BY Zenon DEF AtRest, InFlight
    <2> QED
      BY <2>1, Zenon DEF DrillInv, ChangedByDrill
  <1> QED
    BY <1>1, DrillInvariance, PTL

(* Whatever tore the file, the owner's content is in the artifact store. *)
THEOREM PreimageIsRecoverable == Spec => []PreimageRecoverable
  <1>1. DrillInv => PreimageRecoverable
    BY Zenon DEF DrillInv, OwnedIsSomewhere, PreimageRecoverable
  <1> QED
    BY <1>1, DrillInvariance, PTL

(* With one worker loadWorkerForUpdate keeps the drills apart, so that drills
   of different expectations are a matter of several workers only.         *)
THEOREM OneWorkerIsEnough == Spec => []OneWorkerNoOverlap
  <1>1. DrillInv => OneWorkerNoOverlap
    BY Zenon DEF DrillInv
  <1> QED
    BY <1>1, DrillInvariance, PTL

(* A preimage artifact, once stored, is never replaced by another content:
   not by a retry of the drill, nor by another drill.                      *)
THEOREM PreimagesKept ==
    Spec => [][\A d \in Drills : saved[d] # NoContent => saved'[d] = saved[d]]_vars
  <1> DEFINE Kept == \A d \in Drills : saved[d] # NoContent => saved'[d] = saved[d]
  <1>1. ASSUME DrillInv, [Next]_vars PROVE [Kept]_vars
    <2>1. ASSUME NEW d \in Drills, SavePreimage(d) PROVE Kept
      <3>1. saved' = [saved EXCEPT ![d] = preimage[d]] /\ preimage[d] = writeSet[d].expected
        BY <1>1, <2>1, Zenon DEF SavePreimage, DrillInv, ImagesExpected, InFlight
      <3> QED
        BY <1>1, <3>1, Zenon DEF DrillInv, TypeOK, ImagesExpected
    <2>2. UNCHANGED saved \/ \E d \in Drills : SavePreimage(d)
      BY <1>1, Zenon DEF Next, vars, QueueDrill, CheckPreimage, DenyPreimage, WriteTarget,
                  WriteTargetFails, VerifyTarget, RollbackTarget, RollbackTargetFails,
                  ConfirmRollback, Commit, DatabaseFails, DeferredRestore,
                  DeferredRestoreFails, Crash, Edit
    <2> QED
      BY <2>1, <2>2, Zenon
  <1> QED
    BY <1>1, DrillInvariance, PTL DEF Spec

-----------------------------------------------------------------------------
INSTANCE FiniteSetTheorems

(* The library has the facts about finite sets that the lemmas used. *)
LEMMA FiniteFactsHold == FiniteFacts
  <1>1. \A S : IsFiniteSet(S) => Cardinality(S) \in Nat
    BY FS_CardinalityType, Zenon
  <1>2. /\ IsFiniteSet({}) /\ Cardinality({}) = 0
        /\ \A S : IsFiniteSet(S) => (Cardinality(S) = 0 <=> S = {})
    BY FS_EmptySet, Zenon
  <1>3. \A S : \A T \in SUBSET S : IsFiniteSet(S) =>
             /\ IsFiniteSet(T) /\ Cardinality(T) <= Cardinality(S)
             /\ Cardinality(S) = Cardinality(T) => S = T
    BY FS_Subset, Zenon
  <1>4. \A S, x : IsFiniteSet(S) =>
             /\ IsFiniteSet(S \cup {x})
             /\ Cardinality(S \cup {x}) = IF x \in S THEN Cardinality(S) ELSE Cardinality(S) + 1
    BY FS_AddElement, Zenon
  <1>5. \A S, T : IsFiniteSet(S) /\ IsFiniteSet(T) =>
             /\ IsFiniteSet(S \cup T)
             /\ Cardinality(S \cup T) = Cardinality(S) + Cardinality(T) - Cardinality(S \cap T)
    BY FS_Union, Zenon
  <1>6. \A n \in Nat : IsFiniteSet(1..n) /\ Cardinality(1..n) = n
    BY FS_Interval
  <1> QED
    BY <1>1, <1>2, <1>3, <1>4, <1>5, <1>6, Zenon DEF FiniteFacts

(* However requests, grants, revocations, logins and the clock interleave, the
   invariant holds (authMiddleware, session.go, ipRateLimiter.Allow).      *)
THEOREM AccessInvariance == AccessSpec => []AccessInv
  <1>1. AccessInit => AccessInv
    BY FiniteFactsHold, AccessInitOK, Zenon
  <1>2. AccessInv /\ [AccessNext]_accessVars => AccessInv'
    BY FiniteFactsHold, AccessStep, Zenon
  <1> QED
    BY <1>1, <1>2, PTL DEF AccessSpec

(* For any number of requests, sessions, tokens, role bindings, addresses and
   any lifetimes: requests are admitted on credentials that were live at their
   arrival, act under roles in force since then, and no stretch of a window's
   length lets through more than twice the login limit of an address
   (authMiddleware, AuthenticateSession, ipRateLimiter.Allow).             *)
THEOREM AccessStaysEarned == AccessSpec => []AccessIsEarned
  <1>1. AccessInv => AccessIsEarned
    BY AccessInvSuffices, Zenon
  <1> QED
    BY <1>1, AccessInvariance, PTL

=============================================================================
