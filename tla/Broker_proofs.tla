---------------------------- MODULE Broker_proofs ----------------------------
(* Proofs about what comes from the broker, for every set of requests,       *)
(* accounts, fills and executions: their synchronisation (BrokerSync) and    *)
(* the trading profile that is computed of them (TradingProfile).            *)
EXTENDS BrokerSync, TradingProfile, SetLemmas, TLAPS, FiniteSetTheorems

(* Types.  Keys are what a row of ibkr_executions may be. *)

Accts == Ids \cup {NoAccount}

Keys == Accts \X {"none", "session", "flex", "rebuild"} \X Fills

Ats == {"idle", "create", "fetch", "insert", "flush", "marked", "profile",
        "profiled", "raise", "done", "failed", "conflict", "victim"}

Rec == [at : Ats, kind : {"none", "session", "flex", "rebuild"}, acct : Accts, began : Nat,
        polls : Nat, list : SUBSET Fills, todo : Seq(Fills), new : SUBSET Keys,
        covers : SUBSET Keys]

Typed == /\ accounts \in [Ids -> Nat] /\ clock \in Nat
         /\ rows \subseteq Keys
         /\ req \in [Requests -> Rec]

-----------------------------------------------------------------------------
(* The inductive invariant, of what each request holds *)

Key(r, f) == <<r.acct, r.kind, f>>

\* stored already, or by the transaction of the request
Stored(r, f) == Key(r, f) \in rows \cup r.new

\* a request that keeps the row of its account locked
Locks(r) == r.at \in {"marked", "profiled"} /\ r.kind # "rebuild"

\* What it was sent is stored or still to do, and all is stored in the end.
Complete(r) ==
  /\ r.at \in {"insert", "flush"} =>
       \A f \in r.list : Stored(r, f) \/ \E i \in 1..Len(r.todo) : r.todo[i] = f
  /\ r.at \in {"marked", "profiled"} => \A f \in r.list : Stored(r, f)
  /\ r.at = "done" => \A f \in r.list : Key(r, f) \in rows

\* Its rows are of its account, and where there is nothing to sync there are none.
Own(r) ==
  /\ \A x \in r.new : x[1] = r.acct
  /\ r.at \in {"idle", "create", "fetch", "profile"} => r.list = {} /\ r.new = {}
  /\ r.at \in {"fetch", "insert", "flush", "marked"} => r.kind # "rebuild"
  /\ r.at = "profile" => r.kind = "rebuild"
  /\ r.kind = "rebuild" => r.new = {}
  /\ r.at = "flush" => r.todo # <<>>

\* The profile of a Flex sync covers what is committed.
Current(r) == r.at = "profiled" /\ r.kind = "flex" => r.covers = RowsOf(r.acct) \cup r.new

Good(r) == Complete(r) /\ Own(r) /\ Current(r)

Exclusive == \A p, q \in Requests :
  p # q /\ Locks(req[p]) /\ Locks(req[q]) => req[p].acct # req[q].acct

IInv == Typed /\ (\A q \in Requests : Good(req[q])) /\ Exclusive

-----------------------------------------------------------------------------
(* Lists and accounts *)

\* The list of a response holds all of it.
LEMMA ListHoldsAll ==
  ASSUME NEW kind, NEW S \in SUBSET Fills, NEW s \in Listed(kind, S)
  PROVE  s \in Seq(Fills) /\ \A f \in S : \E i \in 1..Len(s) : s[i] = f
<1>1. IsFiniteSet(S) /\ Cardinality(S) \in Nat
  BY ConstantsTyped, FS_Subset, FS_CardinalityType
<1>2. PICK n \in Nat : n = Cardinality(S)
  BY <1>1
<1>3. s \in [1..n -> S] /\ \A i, j \in 1..n : i # j => s[i] # s[j]
  BY <1>2 DEF Listed, SetToSeqs
<1>4. s \in Injection(1..n, S)
  BY <1>3 DEF Injection, IsInjective
<1>5. Cardinality(1..n) = n
  BY FS_Interval
<1>6. s \in Surjection(1..n, S)
  BY <1>1, <1>2, <1>4, <1>5, FS_Injection
<1>7. \A f \in S : \E i \in 1..n : s[i] = f
  BY <1>6 DEF Surjection
<1>8. s \in Seq(Fills) /\ Len(s) = n
  BY <1>3
<1> QED BY <1>7, <1>8

\* Of accounts there is a first.
LEMMA DefaultExists ==
  ASSUME Typed, Existing # {}
  PROVE  Default \in Ids
<1> DEFINE T == {n \in Nat : \E a \in Existing : accounts[a] = n}
<1>1. T \subseteq Nat
  OBVIOUS
<1>2. \A a \in Existing : accounts[a] \in T
  BY DEF Typed, Existing
<1>3. T # {}
  BY <1>2
<1>4. \A n \in T : \E a \in Existing : accounts[a] = n
  OBVIOUS
<1> HIDE DEF T
<1>5. PICK m \in T : \A y \in T : ~ (<<y, m>> \in OpToRel(<, Nat))
  BY <1>1, <1>3, WFMin, NatLessThanWellFounded
<1>6. \A y \in T : ~ (y < m)
  BY <1>1, <1>5 DEF OpToRel
<1>7. PICK a \in Existing : accounts[a] = m
  BY <1>4
<1>8. \A b \in Existing : accounts[a] <= accounts[b]
  <2>1. m \in Nat /\ \A b \in Existing : accounts[b] \in Nat
    BY <1>1, <1>2
  <2>2. \A b \in Existing : ~(accounts[b] < m)
    BY <1>2, <1>6
  <2> QED BY <1>7, <2>1, <2>2
<1>9. Default \in Existing
  BY <1>7, <1>8 DEF Default
<1> QED BY <1>9 DEF Existing

-----------------------------------------------------------------------------
(* A step of one request that commits nothing *)

\* What a request is after one of its steps.
LEMMA StepOf ==
  ASSUME IInv, NEW q \in Requests, NEW r \in Rec, Go(q, r), rows' = rows,
         accounts' \in [Ids -> Nat], clock' \in Nat, Good(r),
         Locks(r) => \A p \in Requests \ {q} : Locks(req[p]) => req[p].acct # r.acct
  PROVE  IInv'
<1>1. /\ req' \in [Requests -> Rec] /\ req'[q] = r
      /\ \A p \in Requests : p # q => req'[p] = req[p]
  BY DEF IInv, Typed, Go
<1>2. Typed'
  BY <1>1 DEF IInv, Typed, Keys, Accts, Ids, Rec, Ats
<1>3. ASSUME NEW p \in Requests PROVE Good(req[p])'
  BY <1>1 DEF IInv, Good, Complete, Own, Current, Stored, Key, RowsOf
<1>4. Exclusive'
  BY <1>1 DEF IInv, Exclusive, Locks
<1> QED BY <1>2, <1>3, <1>4 DEF IInv

\* A request by itself, as it is before the step.
LEMMA RecOf ==
  ASSUME IInv, NEW q \in Requests
  PROVE  req[q] \in Rec /\ Good(req[q]) /\ accounts \in [Ids -> Nat] /\ clock \in Nat
BY DEF IInv, Typed

\* A request goes on, and stays what it was.
LEMMA MovedOn ==
  ASSUME NEW r \in Rec, NEW at \in Ats
  PROVE  \E s \in Rec : /\ s = [r EXCEPT !.at = at] /\ s.at = at
                        /\ s.kind = r.kind /\ s.acct = r.acct /\ s.list = r.list
                        /\ s.todo = r.todo /\ s.new = r.new /\ s.covers = r.covers
<1> DEFINE new == [r EXCEPT !.at = at]
<1>1. /\ new \in Rec /\ new.at = at /\ new.kind = r.kind /\ new.acct = r.acct
      /\ new.list = r.list /\ new.todo = r.todo /\ new.new = r.new /\ new.covers = r.covers
  BY DEF Rec, Ats
<1> HIDE DEF new
<1>2. \E s \in Rec : /\ s = new /\ s.at = at
                     /\ s.kind = r.kind /\ s.acct = r.acct /\ s.list = r.list
                     /\ s.todo = r.todo /\ s.new = r.new /\ s.covers = r.covers
  BY <1>1
<1> QED BY <1>2 DEF new

\* Open gives a transaction its beginning.
LEMMA Opened ==
  ASSUME IInv, NEW q \in Requests, NEW r \in Rec, Open(q, r)
  PROVE  /\ clock' \in Nat
         /\ \E s \in Rec : /\ Go(q, s)
                           /\ s.at = r.at /\ s.kind = r.kind /\ s.acct = r.acct /\ s.list = r.list
                           /\ s.todo = r.todo /\ s.new = r.new /\ s.covers = r.covers
<1>1. PICK b \in Nat : b = Begun(q)
  BY RecOf DEF Begun, Rec
<1>2. clock' \in Nat
  BY RecOf DEF Open
<1>3. /\ [r EXCEPT !.began = b] \in Rec
      /\ [r EXCEPT !.began = b].at = r.at /\ [r EXCEPT !.began = b].kind = r.kind
      /\ [r EXCEPT !.began = b].acct = r.acct /\ [r EXCEPT !.began = b].list = r.list
      /\ [r EXCEPT !.began = b].todo = r.todo /\ [r EXCEPT !.began = b].new = r.new
      /\ [r EXCEPT !.began = b].covers = r.covers
  BY DEF Rec
<1>4. Go(q, [r EXCEPT !.began = b])
  BY <1>1 DEF Open
<1> QED BY <1>2, <1>3, <1>4

\* Good depends on nothing else of a request.
LEMMA SameGood ==
  ASSUME NEW r, NEW s, Good(r),
         s.at = r.at, s.kind = r.kind, s.acct = r.acct, s.list = r.list,
         s.todo = r.todo, s.new = r.new, s.covers = r.covers
  PROVE  Good(s)
BY DEF Good, Complete, Own, Current, Stored, Key, RowsOf

\* A step that opens its transaction if it is not open.
LEMMA OpenStepOf ==
  ASSUME IInv, NEW q \in Requests, NEW r \in Rec, Open(q, r), UNCHANGED db, Good(r),
         Locks(r) => \A p \in Requests \ {q} : Locks(req[p]) => req[p].acct # r.acct
  PROVE  IInv'
<1>1. PICK s \in Rec : /\ Go(q, s)
                       /\ s.at = r.at /\ s.kind = r.kind /\ s.acct = r.acct /\ s.list = r.list
                       /\ s.todo = r.todo /\ s.new = r.new /\ s.covers = r.covers
  BY Opened
<1>2. Good(s) /\ (Locks(s) => \A p \in Requests \ {q} : Locks(req[p]) => req[p].acct # s.acct)
  BY <1>1, SameGood DEF Locks
<1>3. rows' = rows /\ accounts' \in [Ids -> Nat] /\ clock' \in Nat
  BY Opened, RecOf DEF db
<1> QED BY <1>1, <1>2, <1>3, StepOf

-----------------------------------------------------------------------------
(* Resolving the account *)

\* a request that was received and has stored nothing
Started(at, kind, a) == [Idle EXCEPT !.at = at, !.kind = kind, !.acct = a]

\* What a request that was just received holds.
LEMMA Received ==
  ASSUME NEW at \in Ats, NEW kind \in Kinds, NEW a \in Ids
  PROVE  /\ Started(at, kind, a) \in Rec
         /\ Started(at, kind, a).at = at /\ Started(at, kind, a).kind = kind
         /\ Started(at, kind, a).list = {} /\ Started(at, kind, a).new = {}
<1>1. kind \in {"none", "session", "flex", "rebuild"}
  BY ConstantsTyped
<1>2. <<>> \in Seq(Fills)
  OBVIOUS
<1> QED BY <1>1, <1>2 DEF Started, Idle, Rec, Ats, Accts

\* A request that was just received keeps what the invariant asks of it.
LEMMA ReceivedGood ==
  ASSUME NEW r \in Rec, r.list = {}, r.new = {},
         r.at \in {"create", "fetch", "profile"},
         r.at = "fetch" => r.kind # "rebuild", r.at = "profile" => r.kind = "rebuild"
  PROVE  Good(r) /\ ~Locks(r)
BY DEF Good, Complete, Own, Current, Locks

\* ResolveDefault keeps the invariant.
LEMMA ResolveDefaultKeeps ==
  ASSUME IInv, NEW q \in Requests, NEW kind \in Kinds, ResolveDefault(q, kind)
  PROVE  IInv'
<1>1. Default \in Ids
  BY DefaultExists DEF IInv, ResolveDefault
<1>2. Fetching(kind) \in Ats
  BY DEF Fetching, Ats
<1>3. PICK r \in Rec :
        /\ r = Started(Fetching(kind), kind, Default)
        /\ r.at = Fetching(kind) /\ r.kind = kind /\ r.list = {} /\ r.new = {}
  BY <1>1, <1>2, Received
<1>4. Good(r) /\ ~Locks(r)
  <2>1. \/ r.at = "profile" /\ r.kind = "rebuild"
        \/ r.at = "fetch" /\ r.kind # "rebuild"
    BY <1>3 DEF Fetching
  <2> QED BY <1>3, <2>1, ReceivedGood
<1>5. CASE Open(q, r)
  BY <1>4, <1>5, OpenStepOf DEF ResolveDefault, Started
<1>6. CASE Go(q, r) /\ UNCHANGED clock
  BY <1>4, <1>6, RecOf, StepOf DEF ResolveDefault, db
<1> QED BY <1>3, <1>5, <1>6 DEF ResolveDefault, Started

\* ResolveNone keeps the invariant.
LEMMA ResolveNoneKeeps ==
  ASSUME IInv, NEW q \in Requests, NEW kind \in Kinds, ResolveNone(q, kind)
  PROVE  IInv'
<1>1. q \in Ids /\ "create" \in Ats
  BY DEF Ids, Ats
<1>2. PICK r \in Rec : /\ r = Started("create", kind, q)
                       /\ r.at = "create" /\ r.list = {} /\ r.new = {}
  BY <1>1, Received
<1>3. Good(r) /\ ~Locks(r)
  BY <1>2, ReceivedGood
<1> QED BY <1>2, <1>3, OpenStepOf DEF ResolveNone, Started

\* ResolveAccount keeps the invariant.
LEMMA ResolveAccountKeeps ==
  ASSUME IInv, NEW q \in Requests, NEW kind \in Kinds, NEW a \in Ids, ResolveAccount(q, kind, a)
  PROVE  IInv'
<1>1. "fetch" \in Ats
  BY DEF Ats
<1>2. PICK r \in Rec : /\ r = Started("fetch", kind, a)
                       /\ r.at = "fetch" /\ r.kind = kind /\ r.list = {} /\ r.new = {}
  BY <1>1, Received
<1>3. Good(r) /\ ~Locks(r)
  BY <1>2, ReceivedGood DEF ResolveAccount
<1> QED BY <1>2, <1>3, OpenStepOf DEF ResolveAccount, Started

\* CreateDefault keeps the invariant.
LEMMA CreateDefaultKeeps ==
  ASSUME IInv, NEW q \in Requests, CreateDefault(q)
  PROVE  IInv'
<1>1. PICK r \in Rec : r = req[q]
  BY RecOf
<1>2. Good(r) /\ r.at = "create" /\ rows' = rows /\ clock' = clock
  BY <1>1, RecOf DEF CreateDefault
<1>3. CASE r.kind = "rebuild"
  <2>1. PICK s \in Rec : /\ s = [r EXCEPT !.at = "profile"]
                         /\ s.at = "profile" /\ s.kind = r.kind /\ s.list = r.list /\ s.new = r.new
    <3>1. "profile" \in Ats
      BY DEF Ats
    <3> QED BY <3>1, MovedOn, Zenon
  <2>2. Good(s) /\ ~Locks(s)
    BY <1>2, <1>3, <2>1, ReceivedGood DEF Good, Own
  <2>3. Go(q, s) /\ accounts' = accounts
    BY <1>1, <1>3, <2>1 DEF CreateDefault
  <2> QED BY <1>2, <2>2, <2>3, RecOf, StepOf
<1>4. CASE r.kind # "rebuild"
  <2>1. PICK s \in Rec : /\ s = [r EXCEPT !.at = "fetch", !.began = 0]
                         /\ s.at = "fetch" /\ s.kind = r.kind /\ s.list = r.list /\ s.new = r.new
    <3>1. PICK x \in Rec : x = [r EXCEPT !.began = 0] /\ x.kind = r.kind
                            /\ x.list = r.list /\ x.new = r.new
      <4> DEFINE new == [r EXCEPT !.began = 0]
      <4>1. new \in Rec /\ new.kind = r.kind /\ new.list = r.list /\ new.new = r.new
        BY DEF Rec
      <4> HIDE DEF new
      <4>2. \E x \in Rec : x = new /\ x.kind = r.kind /\ x.list = r.list /\ x.new = r.new
        BY <4>1
      <4> QED BY <4>2 DEF new
    <3>2. PICK s \in Rec : /\ s = [x EXCEPT !.at = "fetch"] /\ s.at = "fetch"
                           /\ s.kind = x.kind /\ s.list = x.list /\ s.new = x.new
      <4>1. "fetch" \in Ats
        BY DEF Ats
      <4> QED BY <4>1, MovedOn, Zenon
    <3>3. s = [r EXCEPT !.at = "fetch", !.began = 0]
      BY <3>1, <3>2 DEF Rec
    <3> QED BY <3>1, <3>2, <3>3
  <2>2. Good(s) /\ ~Locks(s)
    BY <1>2, <1>4, <2>1, ReceivedGood DEF Good, Own
  <2>3. Go(q, s) /\ accounts' = [accounts EXCEPT ![q] = r.began]
    BY <1>1, <1>4, <2>1 DEF CreateDefault
  <2>4. accounts' \in [Ids -> Nat]
    BY <2>3, RecOf DEF Rec
  <2> QED BY <1>2, <2>2, <2>3, <2>4, RecOf, StepOf
<1> QED BY <1>3, <1>4

-----------------------------------------------------------------------------
(* What the broker answers *)

\* Receive keeps the invariant.
LEMMA ReceiveKeeps ==
  ASSUME IInv, NEW q \in Requests, req[q].at = "fetch", NEW S \in SUBSET Fills, Receive(q, S),
         UNCHANGED <<db, clock>>
  PROVE  IInv'
<1>1. PICK r \in Rec : r = req[q] /\ Good(r)
  BY RecOf
<1>2. PICK l \in Listed(req[q].kind, S) :
        Go(q, [req[q] EXCEPT !.at = "insert", !.list = S, !.todo = l])
  BY DEF Receive
<1>3. l \in Seq(Fills) /\ \A f \in S : \E i \in 1..Len(l) : l[i] = f
  BY ListHoldsAll
<1> DEFINE s == [r EXCEPT !.at = "insert", !.list = S, !.todo = l]
<1>4. /\ s \in Rec /\ s.at = "insert" /\ s.list = S /\ s.todo = l
      /\ s.kind = r.kind /\ s.acct = r.acct /\ s.new = r.new
  BY <1>3 DEF Rec, Ats
<1>5. Go(q, s)
  BY <1>1, <1>2
<1> HIDE DEF s
<1>6. Good(s) /\ ~Locks(s)
  BY <1>1, <1>3, <1>4 DEF Good, Complete, Own, Current, Locks
<1> QED BY <1>4, <1>5, <1>6, RecOf, StepOf DEF db

\* A request that failed has nothing to promise.
LEMMA FailedGood ==
  ASSUME NEW r \in Rec, Good(r), NEW s \in Rec,
         s.at \in {"raise", "failed", "conflict", "victim"}, s.kind = r.kind, s.acct = r.acct, s.new \subseteq r.new
  PROVE  Good(s) /\ ~Locks(s)
BY DEF Good, Complete, Own, Current, Locks

\* Fail keeps the invariant.
LEMMA FailKeeps ==
  ASSUME IInv, NEW q \in Requests, NEW at \in {"raise", "failed"},
         Go(q, [req[q] EXCEPT !.at = at]), UNCHANGED <<db, clock>>
  PROVE  IInv'
<1>1. PICK r \in Rec : r = req[q] /\ Good(r)
  BY RecOf
<1> DEFINE s == [r EXCEPT !.at = at]
<1>2. s \in Rec /\ s.at = at /\ s.kind = r.kind /\ s.acct = r.acct /\ s.new = r.new
  BY DEF Rec, Ats
<1>3. Go(q, s)
  BY <1>1
<1> HIDE DEF s
<1>4. Good(s) /\ ~Locks(s)
  BY <1>1, <1>2, FailedGood
<1> QED BY <1>2, <1>3, <1>4, RecOf, StepOf DEF db

\* Poll keeps the invariant.
LEMMA PollKeeps ==
  ASSUME IInv, NEW q \in Requests, Poll(q)
  PROVE  IInv'
<1>1. CASE \E S \in SUBSET Fills : Receive(q, S)
  BY <1>1, ReceiveKeeps DEF Poll
<1>2. CASE Go(q, [req[q] EXCEPT !.polls = @ + 1])
  <2>1. PICK r \in Rec : r = req[q] /\ Good(r)
    BY RecOf
  <2>2. PICK n \in Nat : n = r.polls + 1
    BY DEF Rec
  <2> DEFINE s == [r EXCEPT !.polls = n]
  <2>3. /\ s \in Rec /\ s.at = r.at /\ s.kind = r.kind /\ s.acct = r.acct /\ s.list = r.list
        /\ s.todo = r.todo /\ s.new = r.new /\ s.covers = r.covers
    BY DEF Rec
  <2>4. Go(q, s)
    BY <1>2, <2>1, <2>2
  <2> HIDE DEF s
  <2>5. Good(s) /\ ~Locks(s)
    BY <2>1, <2>3, SameGood DEF Poll, Locks
  <2> QED BY <2>3, <2>4, <2>5, RecOf, StepOf DEF Poll, db
<1> QED BY <1>1, <1>2 DEF Poll

-----------------------------------------------------------------------------
(* Storing it *)

\* the next of a list, and what is left
LEMMA NextOf ==
  ASSUME NEW l \in Seq(Fills), l # <<>>
  PROVE  /\ Head(l) \in Fills /\ Tail(l) \in Seq(Fills)
         /\ \A i \in 1..Len(l) : l[i] = Head(l) \/ \E j \in 1..Len(Tail(l)) : Tail(l)[j] = l[i]
<1>1. Head(l) \in Fills /\ Tail(l) \in Seq(Fills) /\ Head(l) = l[1] /\ Len(l) \in Nat
  OBVIOUS
<1>2. Len(Tail(l)) = Len(l) - 1 /\ \A j \in 1..Len(Tail(l)) : Tail(l)[j] = l[j + 1]
  OBVIOUS
<1>3. ASSUME NEW i \in 1..Len(l), i # 1
      PROVE  i - 1 \in 1..Len(Tail(l)) /\ Tail(l)[i - 1] = l[i]
  BY <1>1, <1>2, <1>3
<1> QED BY <1>1, <1>3

\* A list goes on over a fill that is stored.
LEMMA TailGood ==
  ASSUME NEW r \in Rec, Good(r), r.at \in {"insert", "flush"}, r.todo # <<>>,
         NEW s \in Rec, s.at = "insert", s.kind = r.kind, s.acct = r.acct, s.list = r.list,
         s.todo = Tail(r.todo), r.new \subseteq s.new, \A x \in s.new : x[1] = s.acct,
         Stored(s, Head(r.todo))
  PROVE  Good(s) /\ ~Locks(s)
<1>1. r.todo \in Seq(Fills)
  BY DEF Rec
<1>2. ASSUME NEW f \in s.list
      PROVE  Stored(s, f) \/ \E j \in 1..Len(s.todo) : s.todo[j] = f
  <2>1. CASE Stored(r, f)
    BY <2>1 DEF Stored, Key
  <2>2. CASE \E i \in 1..Len(r.todo) : r.todo[i] = f
    BY <1>1, <2>2, NextOf
  <2> QED BY <1>2, <2>1, <2>2 DEF Good, Complete
<1>3. s.kind # "rebuild"
  BY DEF Good, Own
<1> QED BY <1>2, <1>3 DEF Good, Complete, Own, Current, Locks

\* Check keeps the invariant.
LEMMA CheckKeeps ==
  ASSUME IInv, NEW q \in Requests, Check(q)
  PROVE  IInv'
<1>1. PICK r \in Rec : r = req[q] /\ Good(r)
  BY RecOf
<1>2. r.at = "insert" /\ r.todo # <<>> /\ r.todo \in Seq(Fills) /\ UNCHANGED db
  BY <1>1 DEF Check, Rec
<1>3. CASE Head1(q) \in rows \cup req[q].new
  <2> DEFINE s == [r EXCEPT !.todo = Tail(r.todo)]
  <2>1. /\ s \in Rec /\ s.at = "insert" /\ s.kind = r.kind /\ s.acct = r.acct /\ s.list = r.list
        /\ s.todo = Tail(r.todo) /\ s.new = r.new
    BY <1>2, NextOf DEF Rec
  <2>2. Open(q, s)
    BY <1>1, <1>3 DEF Check
  <2> HIDE DEF s
  <2>3. Stored(s, Head(r.todo)) /\ \A x \in s.new : x[1] = s.acct
    BY <1>1, <1>3, <2>1 DEF Stored, Key, Head1, Good, Own
  <2>4. Good(s) /\ ~Locks(s)
    BY <1>1, <1>2, <2>1, <2>3, TailGood
  <2> QED BY <1>2, <2>1, <2>2, <2>4, OpenStepOf
<1>4. CASE Head1(q) \notin rows \cup req[q].new
  <2> DEFINE s == [r EXCEPT !.at = "flush"]
  <2>1. /\ s \in Rec /\ s.at = "flush" /\ s.kind = r.kind /\ s.acct = r.acct /\ s.list = r.list
        /\ s.todo = r.todo /\ s.new = r.new
    BY DEF Rec, Ats
  <2>2. Open(q, s)
    BY <1>1, <1>4 DEF Check
  <2> HIDE DEF s
  <2>3. Good(s) /\ ~Locks(s)
    BY <1>1, <1>2, <2>1 DEF Good, Complete, Own, Current, Stored, Key, Locks
  <2> QED BY <1>2, <2>1, <2>2, <2>3, OpenStepOf
<1> QED BY <1>3, <1>4

\* Insert keeps the invariant.
LEMMA InsertKeeps ==
  ASSUME IInv, NEW q \in Requests, Insert(q)
  PROVE  IInv'
<1>1. PICK r \in Rec : r = req[q] /\ Good(r)
  BY RecOf
<1>2. /\ r.at = "flush" /\ r.todo # <<>> /\ r.todo \in Seq(Fills)
      /\ rows' = rows /\ accounts' = accounts /\ clock' = clock
  BY <1>1 DEF Insert, Rec, Good, Own, db
<1>3. CASE Head1(q) \in rows
  <2> DEFINE s == [r EXCEPT !.at = "conflict", !.began = 0, !.new = {}]
  <2>1. s \in Rec /\ s.at = "conflict" /\ s.kind = r.kind /\ s.acct = r.acct /\ s.new = {}
    BY DEF Rec, Ats
  <2>2. Go(q, s)
    BY <1>1, <1>3 DEF Insert
  <2> HIDE DEF s
  <2>3. Good(s) /\ ~Locks(s)
    BY <1>1, <2>1, FailedGood
  <2> QED BY <1>2, <2>1, <2>2, <2>3, RecOf, StepOf
<1>4. CASE Head1(q) \notin rows
  <2>1. PICK k \in Keys : k = Head1(q) /\ k = Key(r, Head(r.todo)) /\ k[1] = r.acct
    <3>1. PICK f \in Fills : f = Head(r.todo)
      BY <1>2, NextOf
    <3>2. <<r.acct, r.kind, f>> \in Keys
      BY DEF Keys, Rec
    <3> QED BY <1>1, <3>1, <3>2 DEF Head1, Key
  <2> DEFINE s == [r EXCEPT !.at = "insert", !.todo = Tail(r.todo), !.new = r.new \cup {k}]
  <2>2. /\ s \in Rec /\ s.at = "insert" /\ s.kind = r.kind /\ s.acct = r.acct /\ s.list = r.list
        /\ s.todo = Tail(r.todo) /\ s.new = r.new \cup {k}
    BY <1>2, NextOf DEF Rec, Ats
  <2>3. Go(q, s)
    BY <1>1, <1>4, <2>1 DEF Insert
  <2> HIDE DEF s
  <2>4. Stored(s, Head(r.todo)) /\ \A x \in s.new : x[1] = s.acct
    BY <1>1, <2>1, <2>2 DEF Stored, Key, Good, Own
  <2>5. Good(s) /\ ~Locks(s)
    BY <1>1, <1>2, <2>2, <2>4, TailGood
  <2> QED BY <1>2, <2>2, <2>3, <2>5, RecOf, StepOf
<1> QED BY <1>3, <1>4

\* DeadlockVictim keeps the invariant.
LEMMA VictimKeeps ==
  ASSUME IInv, NEW q \in Requests, DeadlockVictim(q)
  PROVE  IInv'
<1>1. PICK r \in Rec : r = req[q] /\ Good(r)
  BY RecOf
<1> DEFINE s == [r EXCEPT !.at = "victim", !.began = 0, !.new = {}]
<1>2. s \in Rec /\ s.at = "victim" /\ s.kind = r.kind /\ s.acct = r.acct /\ s.new = {}
  BY DEF Rec, Ats
<1>3. Go(q, s)
  BY <1>1 DEF DeadlockVictim
<1> HIDE DEF s
<1>4. Good(s) /\ ~Locks(s)
  BY <1>1, <1>2, FailedGood
<1> QED BY <1>2, <1>3, <1>4, RecOf, StepOf DEF DeadlockVictim, db

\* Mark keeps the invariant.
LEMMA MarkKeeps ==
  ASSUME IInv, NEW q \in Requests, Mark(q)
  PROVE  IInv'
<1>1. PICK r \in Rec : r = req[q] /\ Good(r)
  BY RecOf
<1>2. r.at = "insert" /\ r.todo = <<>> /\ LockedBy(q) = {} /\ UNCHANGED db
  BY <1>1 DEF Mark
<1> DEFINE s == [r EXCEPT !.at = "marked"]
<1>3. /\ s \in Rec /\ s.at = "marked" /\ s.kind = r.kind /\ s.acct = r.acct /\ s.list = r.list
      /\ s.new = r.new
  BY DEF Rec, Ats
<1>4. Open(q, s)
  BY <1>1 DEF Mark
<1> HIDE DEF s
<1>5. Good(s)
  BY <1>1, <1>2, <1>3 DEF Good, Complete, Own, Current, Stored, Key
<1>6. \A p \in Requests \ {q} : Locks(req[p]) => req[p].acct # s.acct
  BY <1>1, <1>2, <1>3 DEF LockedBy, Locks
<1> QED BY <1>2, <1>3, <1>4, <1>5, <1>6, OpenStepOf

\* Profile keeps the invariant.
LEMMA ProfileKeeps ==
  ASSUME IInv, NEW q \in Requests, Profile(q)
  PROVE  IInv'
<1>1. PICK r \in Rec : r = req[q] /\ Good(r)
  BY RecOf
<1>2. PICK C \in SUBSET Keys : C = RowsOf(r.acct) \cup r.new
  BY DEF IInv, Typed, RowsOf, Rec
<1> DEFINE s == [r EXCEPT !.at = "profiled", !.covers = C]
<1>3. /\ s \in Rec /\ s.at = "profiled" /\ s.kind = r.kind /\ s.acct = r.acct /\ s.list = r.list
      /\ s.new = r.new /\ s.covers = C
  BY DEF Rec, Ats
<1>4. Go(q, s)
  BY <1>1, <1>2 DEF Profile
<1> HIDE DEF s
<1>5. Good(s)
  BY <1>1, <1>2, <1>3 DEF Profile, Good, Complete, Own, Current, Stored, Key
<1>6. Locks(s) => Locks(r)
  BY <1>1, <1>3 DEF Profile, Locks, Good, Own
<1>7. Locks(s) => \A p \in Requests \ {q} : Locks(req[p]) => req[p].acct # s.acct
  BY <1>1, <1>3, <1>6 DEF IInv, Exclusive
<1> QED BY <1>3, <1>4, <1>5, <1>7, RecOf, StepOf DEF Profile, db

\* Raise keeps the invariant.
LEMMA RaiseKeeps ==
  ASSUME IInv, NEW q \in Requests, Raise(q)
  PROVE  IInv'
<1>1. PICK r \in Rec : r = req[q] /\ Good(r)
  BY RecOf
<1> DEFINE s == [r EXCEPT !.at = "failed", !.began = 0, !.new = {}]
<1>2. s \in Rec /\ s.at = "failed" /\ s.kind = r.kind /\ s.acct = r.acct /\ s.new = {}
  BY DEF Rec, Ats
<1>3. Go(q, s)
  BY <1>1 DEF Raise
<1> HIDE DEF s
<1>4. Good(s) /\ ~Locks(s)
  BY <1>1, <1>2, FailedGood
<1> QED BY <1>2, <1>3, <1>4, RecOf, StepOf DEF Raise, db

\* Who commits rows has its account locked, so no Flex sync of the account has
\* a profile yet.
LEMMA CommitKeeps ==
  ASSUME IInv, NEW q \in Requests, Commit(q)
  PROVE  IInv'
<1>1. PICK r \in Rec : r = req[q] /\ Good(r)
  BY RecOf
<1>2. r.at \in {"marked", "profiled"} /\ rows' = rows \cup r.new /\ clock' = clock
  BY <1>1 DEF Commit
<1> DEFINE s == [r EXCEPT !.at = "done", !.began = 0]
<1>3. /\ s \in Rec /\ s.at = "done" /\ s.kind = r.kind /\ s.acct = r.acct /\ s.list = r.list
      /\ s.new = r.new
  BY DEF Rec, Ats
<1>4. req' = [req EXCEPT ![q] = s]
  BY <1>1 DEF Commit, Go
<1> HIDE DEF s
<1>5. /\ req' \in [Requests -> Rec] /\ req'[q] = s
      /\ \A p \in Requests : p # q => req'[p] = req[p]
  BY <1>3, <1>4 DEF IInv, Typed
<1>6. accounts' \in [Ids -> Nat]
  <2>1. r.began \in Nat /\ accounts \in [Ids -> Nat]
    BY <1>1, RecOf DEF Rec
  <2>2. accounts' = IF accounts[r.acct] = 0 THEN [accounts EXCEPT ![r.acct] = r.began] ELSE accounts
    BY <1>1 DEF Commit
  <2> QED BY <2>1, <2>2
<1>7. Typed'
  <2>1. rows' \subseteq Keys
    BY <1>2 DEF IInv, Typed, Rec
  <2> QED BY <1>2, <1>5, <1>6, <2>1 DEF IInv, Typed, Keys, Accts, Ids, Rec, Ats
<1>8. Good(req[q])'
  BY <1>1, <1>2, <1>3, <1>5 DEF Good, Complete, Own, Current, Stored, Key
<1>9. ASSUME NEW p \in Requests, p # q PROVE Good(req[p])'
  <2>1. req'[p] = req[p] /\ Good(req[p]) /\ rows \subseteq rows'
    BY <1>2, <1>5, <1>9, RecOf
  <2>2. Complete(req[p])' /\ Own(req[p])'
    BY <2>1 DEF Good, Complete, Own, Stored, Key
  <2>3. ASSUME req[p].at = "profiled", req[p].kind = "flex"
        PROVE  req[p].covers = RowsOf(req[p].acct)' \cup req[p].new
    <3>1. \A x \in r.new : x[1] # req[p].acct
      BY <1>1, <1>2, <1>9, <2>3 DEF IInv, Exclusive, Locks, Good, Own
    <3>2. RowsOf(req[p].acct)' = RowsOf(req[p].acct)
      BY <1>2, <2>1, <3>1 DEF RowsOf
    <3> QED BY <2>1, <2>3, <3>2 DEF Good, Current
  <2>4. Current(req[p])'
    BY <2>1, <2>3 DEF Current
  <2> QED BY <2>2, <2>4 DEF Good
<1>10. Exclusive'
  BY <1>3, <1>5 DEF IInv, Exclusive, Locks
<1> QED BY <1>7, <1>8, <1>9, <1>10 DEF IInv

-----------------------------------------------------------------------------
(* The theorems *)

\* The invariant holds at first,
LEMMA InitIInv == Init => IInv
<1> SUFFICES ASSUME Init PROVE IInv
  OBVIOUS
<1>1. /\ Idle \in Rec /\ Idle.at = "idle" /\ Idle.kind = "none" /\ Idle.list = {}
      /\ Idle.new = {}
  BY DEF Idle, Rec, Ats, Accts
<1>2. req \in [Requests -> Rec] /\ \A q \in Requests : req[q] = Idle
  BY <1>1 DEF Init
<1>3. Typed
  BY <1>2 DEF Init, Typed
<1>4. Good(Idle) /\ ~Locks(Idle)
  BY <1>1 DEF Good, Complete, Own, Current, Locks
<1> QED BY <1>2, <1>3, <1>4 DEF IInv, Exclusive

\* and every step keeps it.
LEMMA StepIInv == IInv /\ [Next]_vars => IInv'
<1> SUFFICES ASSUME IInv, [Next]_vars PROVE IInv'
  OBVIOUS
<1>1. ASSUME NEW q \in Requests, Resolve(q) PROVE IInv'
  BY <1>1, ResolveDefaultKeeps, ResolveNoneKeeps, ResolveAccountKeeps DEF Resolve
<1>2. ASSUME NEW q \in Requests, Step(q) PROVE IInv'
  <2>1. CASE PollsExhausted(q)
    BY <2>1, FailKeeps DEF PollsExhausted
  <2> QED BY <1>2, <2>1, CreateDefaultKeeps, PollKeeps, CheckKeeps, InsertKeeps, MarkKeeps,
             ProfileKeeps, CommitKeeps, RaiseKeeps DEF Step
<1>3. ASSUME NEW q \in Requests, Reply(q) PROVE IInv'
  <2>1. CASE FetchSession(q)
    BY <2>1, ReceiveKeeps DEF FetchSession
  <2> QED BY <1>3, <2>1, VictimKeeps DEF Reply
<1>4. ASSUME NEW q \in Requests, Fault(q) PROVE IInv'
  BY <1>4, FailKeeps DEF Fault, ConnectionFails, FlexError, DbFails
<1>5. CASE UNCHANGED vars
  BY <1>5 DEF vars, db, IInv, Typed, Good, Complete, Own, Current, Stored, Key, RowsOf,
              Exclusive, Locks
<1> QED BY <1>1, <1>2, <1>3, <1>4, <1>5 DEF Next

\* The inductive invariant holds throughout.
THEOREM Invariant == Spec => []IInv
BY InitIInv, StepIInv, PTL DEF Spec

\* SyncedAll: what a sync was sent is in the table when it reports success.
THEOREM AlwaysSyncedAll == Spec => []SyncedAll
<1>1. ASSUME IInv PROVE SyncedAll
  BY <1>1 DEF IInv, Good, Complete, Key, SyncedAll
<1> QED BY <1>1, Invariant, PTL

\* SnapshotCurrent: nothing of its account is committed between the reading of
\* a profile and its commit.
THEOREM SnapshotsCurrent == Spec => []SnapshotCurrent
<1>1. ASSUME IInv PROVE SnapshotCurrent
  BY <1>1 DEF IInv, Good, Current, SnapshotCurrent
<1> QED BY <1>1, Invariant, PTL

-----------------------------------------------------------------------------
(* Who falls victim to a deadlock *)

Queues(r) == r.at \in {"insert", "flush"}

TimeOf(r, f) == ExecutedAt[r.kind][f]

\* What a request has stored was sent to it, and is no later than what it has
\* still to store, which is in order.
Ordered(r) ==
  /\ r.kind \in {"session", "flex"}
  /\ \A i \in 1..Len(r.todo) : r.todo[i] \in r.list
  /\ \A i, j \in 1..Len(r.todo) : i < j => TimeOf(r, r.todo[i]) <= TimeOf(r, r.todo[j])
  /\ \A x \in r.new : x[2] = r.kind /\ x[3] \in r.list
  /\ \A x \in r.new : \A i \in 1..Len(r.todo) : TimeOf(r, x[3]) <= TimeOf(r, r.todo[i])
  /\ r.at = "flush" => Key(r, Head(r.todo)) \notin r.new

\* Another execution it was sent has the time of the one it wanted to store.
Tied(r) == \E f \in r.list \ {Head(r.todo)} : TimeOf(r, f) = TimeOf(r, Head(r.todo))

InTurn(r) == (Queues(r) => Ordered(r)) /\ (r.at = "victim" => Tied(r))

\* Nobody stores what another one has stored and not committed.
Apart == \A p, q \in Requests :
  p # q /\ Queues(req[p]) /\ Queues(req[q]) => req[p].new \cap req[q].new = {}

Queue == (\A q \in Requests : InTurn(req[q])) /\ Apart

\* A list is in the order of time.
LEMMA ListSorted ==
  ASSUME NEW kind, NEW S \in SUBSET Fills, NEW s \in Listed(kind, S)
  PROVE  /\ \A i \in 1..Len(s) : s[i] \in S
         /\ \A i, j \in 1..Len(s) : i < j => ExecutedAt[kind][s[i]] <= ExecutedAt[kind][s[j]]
<1>1. Cardinality(S) \in Nat
  BY ConstantsTyped, FS_Subset, FS_CardinalityType
<1>2. PICK n \in Nat : n = Cardinality(S)
  BY <1>1
<1>3. s \in [1..n -> S]
  BY <1>2 DEF Listed, SetToSeqs
<1>4. Len(s) = n /\ DOMAIN s = 1..n
  BY <1>3
<1>5. \A i, j \in DOMAIN s : i < j => ExecutedAt[kind][s[i]] <= ExecutedAt[kind][s[j]]
  BY DEF Listed
<1> QED BY <1>3, <1>4, <1>5

\* A step of one request after which it is in turn and apart from the others.
LEMMA QueueStepOf ==
  ASSUME IInv, Queue, NEW q \in Requests, NEW r, Go(q, r), InTurn(r),
         Queues(r) => \A p \in Requests \ {q} : Queues(req[p]) => req[p].new \cap r.new = {}
  PROVE  Queue'
<1>1. req'[q] = r /\ \A p \in Requests : p # q => req'[p] = req[p]
  BY DEF IInv, Typed, Go
<1>2. \A p \in Requests : InTurn(req'[p])
  BY <1>1 DEF Queue
<1>3. \A p \in Requests : InTurn(req[p])'
  BY <1>2 DEF InTurn, Ordered, Tied, Queues, TimeOf, Key
<1>4. Apart'
  BY <1>1 DEF Queue, Apart, Queues
<1> QED BY <1>3, <1>4 DEF Queue

\* A request that stores nothing now does not matter.
LEMMA LeavesQueue ==
  ASSUME IInv, Queue, NEW q \in Requests, NEW r, Go(q, r), ~Queues(r), r.at # "victim"
  PROVE  Queue'
BY QueueStepOf DEF InTurn

\* Nor does when its transaction began.
LEMMA OpenLeavesQueue ==
  ASSUME IInv, Queue, NEW q \in Requests, NEW r \in Rec, Open(q, r), ~Queues(r),
         r.at # "victim"
  PROVE  Queue'
<1>1. PICK s \in Rec : Go(q, s) /\ s.at = r.at
  BY Opened
<1> QED BY <1>1, LeavesQueue DEF Queues

\* Resolve stores nothing.
LEMMA ResolveQueue ==
  ASSUME IInv, Queue, NEW q \in Requests, Resolve(q)
  PROVE  Queue'
<1>1. PICK kind \in Kinds : \/ ResolveDefault(q, kind) \/ ResolveNone(q, kind)
                            \/ \E a \in Ids : ResolveAccount(q, kind, a)
  BY DEF Resolve
<1>2. CASE ResolveDefault(q, kind)
  <2> DEFINE r == Started(Fetching(kind), kind, Default)
  <2>1. Fetching(kind) \in Ats /\ Default \in Ids
    BY <1>2, DefaultExists DEF Fetching, Ats, IInv, ResolveDefault
  <2>2. r \in Rec /\ r.at = Fetching(kind)
    BY <2>1, Received
  <2>3. ~Queues(r) /\ r.at # "victim"
    BY <2>2 DEF Queues, Fetching
  <2>4. Go(q, r) \/ Open(q, r)
    BY <1>2 DEF ResolveDefault, Started
  <2> HIDE DEF r
  <2> QED BY <2>2, <2>3, <2>4, LeavesQueue, OpenLeavesQueue
<1>3. CASE ResolveNone(q, kind)
  <2> DEFINE r == Started("create", kind, q)
  <2>1. r \in Rec /\ r.at = "create"
    BY Received DEF Ats, Ids
  <2>2. Open(q, r)
    BY <1>3 DEF ResolveNone, Started
  <2> HIDE DEF r
  <2> QED BY <2>1, <2>2, OpenLeavesQueue DEF Queues
<1>4. ASSUME NEW a \in Ids, ResolveAccount(q, kind, a) PROVE Queue'
  <2> DEFINE r == Started("fetch", kind, a)
  <2>1. r \in Rec /\ r.at = "fetch"
    BY Received DEF Ats
  <2>2. Open(q, r)
    BY <1>4 DEF ResolveAccount, Started
  <2> HIDE DEF r
  <2> QED BY <2>1, <2>2, OpenLeavesQueue DEF Queues
<1> QED BY <1>1, <1>2, <1>3, <1>4

\* Receive puts what was sent in order.
LEMMA ReceiveQueue ==
  ASSUME IInv, Queue, NEW q \in Requests, req[q].at = "fetch",
         req[q].kind \in {"session", "flex"}, NEW S \in SUBSET Fills, Receive(q, S)
  PROVE  Queue'
<1>1. PICK r \in Rec : r = req[q] /\ Good(r)
  BY RecOf
<1>2. PICK l \in Listed(r.kind, S) : Go(q, [req[q] EXCEPT !.at = "insert", !.list = S, !.todo = l])
  BY <1>1 DEF Receive
<1> DEFINE s == [r EXCEPT !.at = "insert", !.list = S, !.todo = l]
<1>3. /\ s.at = "insert" /\ s.list = S /\ s.todo = l /\ s.kind = r.kind /\ s.new = r.new
  BY DEF Rec
<1>4. Go(q, s)
  BY <1>1, <1>2
<1> HIDE DEF s
<1>5. r.new = {}
  BY <1>1 DEF Good, Own
<1>6. /\ \A i \in 1..Len(l) : l[i] \in S
      /\ \A i, j \in 1..Len(l) : i < j => ExecutedAt[r.kind][l[i]] <= ExecutedAt[r.kind][l[j]]
  BY ListSorted
<1>7. InTurn(s)
  BY <1>1, <1>3, <1>5, <1>6 DEF InTurn, Ordered, Queues, TimeOf
<1> QED BY <1>3, <1>4, <1>5, <1>7, QueueStepOf

\* What is left of a list in order is in order, after its first.
LEMMA TailSorted ==
  ASSUME NEW l \in Seq(Fills), l # <<>>
  PROVE  /\ Head(l) = l[1] /\ 1 \in 1..Len(l)
         /\ \A j \in 1..Len(Tail(l)) : j + 1 \in 1..Len(l) /\ Tail(l)[j] = l[j + 1]
<1>1. Head(l) = l[1] /\ Len(l) \in Nat /\ Len(l) > 0
  OBVIOUS
<1>2. Len(Tail(l)) = Len(l) - 1 /\ \A j \in 1..Len(Tail(l)) : Tail(l)[j] = l[j + 1]
  OBVIOUS
<1> QED BY <1>1, <1>2

\* A request that has stored its next execution, or found it stored, is in turn.
LEMMA TailInTurn ==
  ASSUME NEW r \in Rec, InTurn(r), Queues(r), r.todo # <<>>,
         NEW s \in Rec, s.at = "insert", s.kind = r.kind, s.list = r.list, s.todo = Tail(r.todo),
         s.new \subseteq r.new \cup {Key(r, Head(r.todo))}
  PROVE  InTurn(s)
<1>1. r.todo \in Seq(Fills)
  BY DEF Rec
<1>2. /\ Head(r.todo) = r.todo[1] /\ 1 \in 1..Len(r.todo)
      /\ \A j \in 1..Len(s.todo) : j + 1 \in 1..Len(r.todo) /\ s.todo[j] = r.todo[j + 1]
  BY <1>1, TailSorted
<1>3. \A j \in 1..Len(s.todo) : s.todo[j] \in s.list
  BY <1>2 DEF InTurn, Ordered, Queues
<1>4. ASSUME NEW i \in 1..Len(s.todo), NEW j \in 1..Len(s.todo), i < j
      PROVE  TimeOf(s, s.todo[i]) <= TimeOf(s, s.todo[j])
  <2>1. i + 1 < j + 1
    BY <1>1, <1>4
  <2> QED BY <1>2, <2>1 DEF InTurn, Ordered, Queues, TimeOf
<1>5. ASSUME NEW x \in s.new
      PROVE  /\ x[2] = s.kind /\ x[3] \in s.list
             /\ \A j \in 1..Len(s.todo) : TimeOf(s, x[3]) <= TimeOf(s, s.todo[j])
  <2>1. CASE x \in r.new
    BY <1>2, <2>1 DEF InTurn, Ordered, Queues, TimeOf
  <2>2. CASE x = Key(r, Head(r.todo))
    <3>1. x[2] = r.kind /\ x[3] = r.todo[1]
      BY <1>2, <2>2 DEF Key
    <3>2. \A j \in 1..Len(s.todo) : 1 < j + 1
      OBVIOUS
    <3> QED BY <1>2, <3>1, <3>2 DEF InTurn, Ordered, Queues, TimeOf
  <2> QED BY <1>5, <2>1, <2>2
<1> QED BY <1>3, <1>4, <1>5 DEF InTurn, Ordered, Queues

\* Check leaves the queue in turn.
LEMMA CheckQueue ==
  ASSUME IInv, Queue, NEW q \in Requests, Check(q)
  PROVE  Queue'
<1>1. PICK r \in Rec : r = req[q] /\ Good(r) /\ InTurn(r)
  BY RecOf DEF Queue
<1>2. r.at = "insert" /\ r.todo # <<>> /\ r.todo \in Seq(Fills)
  BY <1>1 DEF Check, Rec
<1>3. \A p \in Requests \ {q} : Queues(req[p]) => req[p].new \cap r.new = {}
  BY <1>1, <1>2 DEF Queue, Apart, Queues
<1>4. CASE Head1(q) \in rows \cup req[q].new
  <2> DEFINE t == [r EXCEPT !.todo = Tail(r.todo)]
  <2>1. /\ t \in Rec /\ t.at = "insert" /\ t.kind = r.kind /\ t.acct = r.acct /\ t.list = r.list
        /\ t.todo = Tail(r.todo) /\ t.new = r.new
    BY <1>2, NextOf DEF Rec
  <2>2. Open(q, t)
    BY <1>1, <1>4 DEF Check
  <2> HIDE DEF t
  <2>3. PICK s \in Rec : /\ Go(q, s)
                         /\ s.at = t.at /\ s.kind = t.kind /\ s.acct = t.acct /\ s.list = t.list
                         /\ s.todo = t.todo /\ s.new = t.new
    BY <2>1, <2>2, Opened
  <2>4. InTurn(s)
    BY <1>1, <1>2, <2>1, <2>3, TailInTurn DEF Queues
  <2> QED BY <1>3, <2>1, <2>3, <2>4, QueueStepOf
<1>5. CASE Head1(q) \notin rows \cup req[q].new
  <2> DEFINE t == [r EXCEPT !.at = "flush"]
  <2>1. /\ t \in Rec /\ t.at = "flush" /\ t.kind = r.kind /\ t.acct = r.acct /\ t.list = r.list
        /\ t.todo = r.todo /\ t.new = r.new
    BY DEF Rec, Ats
  <2>2. Open(q, t)
    BY <1>1, <1>5 DEF Check
  <2> HIDE DEF t
  <2>3. PICK s \in Rec : /\ Go(q, s)
                         /\ s.at = t.at /\ s.kind = t.kind /\ s.acct = t.acct /\ s.list = t.list
                         /\ s.todo = t.todo /\ s.new = t.new
    BY <2>1, <2>2, Opened
  <2>4. Key(s, Head(s.todo)) \notin s.new
    BY <1>1, <1>5, <2>1, <2>3 DEF Key, Head1
  <2>5. InTurn(s)
    BY <1>1, <1>2, <2>1, <2>3, <2>4 DEF InTurn, Ordered, Queues, TimeOf
  <2> QED BY <1>3, <2>1, <2>3, <2>5, QueueStepOf
<1> QED BY <1>4, <1>5

\* Insert stores what nobody else has stored.
LEMMA InsertQueue ==
  ASSUME IInv, Queue, NEW q \in Requests, Insert(q)
  PROVE  Queue'
<1>1. PICK r \in Rec : r = req[q] /\ Good(r) /\ InTurn(r)
  BY RecOf DEF Queue
<1>2. r.at = "flush" /\ r.todo # <<>> /\ r.todo \in Seq(Fills) /\ Blocked(q) = {}
  BY <1>1 DEF Insert, Rec, Good, Own
<1>3. CASE Head1(q) \in rows
  <2> DEFINE s == [r EXCEPT !.at = "conflict", !.began = 0, !.new = {}]
  <2>1. s.at = "conflict" /\ Go(q, s)
    BY <1>1, <1>3 DEF Insert, Rec
  <2> HIDE DEF s
  <2> QED BY <2>1, LeavesQueue DEF Queues
<1>4. CASE Head1(q) \notin rows
  <2>1. PICK k \in Keys : k = Head1(q) /\ k = Key(r, Head(r.todo))
    <3>1. PICK f \in Fills : f = Head(r.todo)
      BY <1>2, NextOf
    <3>2. <<r.acct, r.kind, f>> \in Keys
      BY DEF Keys, Rec
    <3> QED BY <1>1, <3>1, <3>2 DEF Head1, Key
  <2> DEFINE s == [r EXCEPT !.at = "insert", !.todo = Tail(r.todo), !.new = r.new \cup {k}]
  <2>2. /\ s \in Rec /\ s.at = "insert" /\ s.kind = r.kind /\ s.acct = r.acct /\ s.list = r.list
        /\ s.todo = Tail(r.todo) /\ s.new = r.new \cup {k}
    BY <1>2, NextOf DEF Rec, Ats
  <2>3. Go(q, s)
    BY <1>1, <1>4, <2>1 DEF Insert
  <2> HIDE DEF s
  <2>4. InTurn(s)
    BY <1>1, <1>2, <2>1, <2>2, TailInTurn DEF Queues
  <2>5. \A p \in Requests \ {q} : Queues(req[p]) => req[p].new \cap s.new = {}
    <3>1. \A p \in Requests \ {q} : Queues(req[p]) => req[p].new \cap r.new = {}
      BY <1>1, <1>2 DEF Queue, Apart, Queues
    <3>2. \A p \in Requests \ {q} : Queues(req[p]) => k \notin req[p].new
      BY <1>2, <2>1 DEF Blocked, Pending, InTransaction, Queues
    <3> QED BY <2>2, <3>1, <3>2
  <2> QED BY <2>3, <2>4, <2>5, QueueStepOf
<1> QED BY <1>3, <1>4

\* Values that never fall along the arrows of a graph of cycles do not change.
LEMMA RoundsTied ==
  ASSUME NEW W, IsFiniteSet(W), NEW f \in Surjection(W, W), NEW t \in [W -> Nat],
         \A p \in W : t[p] <= t[f[p]], NEW q \in W
  PROVE  \E p \in W : f[p] = q /\ t[p] = t[q]
<1>1. f \in [W -> W] /\ f \in Injection(W, W)
  BY FS_Surjection DEF Surjection
<1> DEFINE A == {p \in W : t[q] <= t[p]}
<1> DEFINE g == [p \in A |-> f[p]]
<1>2. \A p \in A : p \in W /\ f[p] \in A
  <2>1. ASSUME NEW p \in A PROVE f[p] \in A
    <3>1. p \in W /\ f[p] \in W /\ t[q] <= t[p] /\ t[p] <= t[f[p]]
      BY <1>1
    <3>2. t[q] \in Nat /\ t[p] \in Nat /\ t[f[p]] \in Nat
      BY <3>1
    <3> QED BY <3>1, <3>2
  <2> QED BY <2>1
<1>3. IsFiniteSet(A)
  BY FS_Subset
<1>4. q \in A
  OBVIOUS
<1>5. \A p \in A : t[q] <= t[p]
  OBVIOUS
<1>6. \A p, r \in A : f[p] = f[r] => p = r
  BY <1>1, <1>2 DEF Injection, IsInjective
<1>7. g \in [A -> A] /\ \A p \in A : g[p] = f[p]
  BY <1>2
<1> HIDE DEF A, g
<1>8. g \in Injection(A, A)
  BY <1>6, <1>7 DEF Injection, IsInjective
<1>9. g \in Surjection(A, A)
  BY <1>3, <1>8, FS_Injection
<1>10. PICK p \in A : g[p] = q
  BY <1>4, <1>9 DEF Surjection
<1>11. p \in W /\ f[p] = q /\ t[q] <= t[p] /\ t[p] <= t[q]
  BY <1>2, <1>5, <1>7, <1>10
<1>12. t[p] = t[q]
  BY <1>11
<1> QED BY <1>11, <1>12

\* Who waits for another one waits for an execution of no later time than the
\* one that the other one is about to store.
LEMMA WaitsForLater ==
  ASSUME IInv, Queue, NEW p \in Requests, NEW q \in Requests, q \in Blocked(p),
         req[p].at = "flush", req[q].at = "flush"
  PROVE  /\ req[p].kind = req[q].kind /\ Head(req[p].todo) \in req[q].list
         /\ Head(req[p].todo) # Head(req[q].todo)
         /\ TimeOf(req[p], Head(req[p].todo)) <= TimeOf(req[q], Head(req[q].todo))
<1>1. PICK x : x = Head1(p) /\ x \in req[q].new
  BY DEF Blocked, Pending, InTransaction
<1>2. x[1] = req[p].acct /\ x[2] = req[p].kind /\ x[3] = Head(req[p].todo)
  BY <1>1 DEF Head1
<1>3. x[1] = req[q].acct
  BY <1>1, RecOf DEF Good, Own
<1>4. /\ x[2] = req[q].kind /\ x[3] \in req[q].list
      /\ \A i \in 1..Len(req[q].todo) : TimeOf(req[q], x[3]) <= TimeOf(req[q], req[q].todo[i])
      /\ Key(req[q], Head(req[q].todo)) \notin req[q].new
  BY <1>1 DEF Queue, InTurn, Ordered, Queues
<1>5. req[q].todo \in Seq(Fills) /\ req[q].todo # <<>>
  BY RecOf DEF Rec, Good, Own
<1>6. Head(req[q].todo) = req[q].todo[1] /\ 1 \in 1..Len(req[q].todo)
  BY <1>5, TailSorted
<1>7. TimeOf(req[p], Head(req[p].todo)) <= TimeOf(req[q], Head(req[q].todo))
  BY <1>2, <1>4, <1>6 DEF TimeOf
<1>8. Head(req[p].todo) # Head(req[q].todo)
  <2>1. x = <<req[p].acct, req[p].kind, Head(req[p].todo)>>
    BY <1>1 DEF Head1
  <2> QED BY <1>1, <1>2, <1>3, <1>4, <2>1 DEF Key
<1> QED BY <1>2, <1>4, <1>7, <1>8

\* Round a cycle of requests that wait all times are equal.
LEMMA CycleTied ==
  ASSUME IInv, Queue, NEW q \in Requests, OnWaitCycle(q)
  PROVE  Tied(req[q])
<1>1. PICK W \in SUBSET {p \in Requests : req[p].at = "flush"} :
        /\ q \in W
        /\ \A p \in W : Blocked(p) \cap W # {}
        /\ \A p \in W : \E r \in W : p \in Blocked(r)
  BY DEF OnWaitCycle
<1>2. IsFiniteSet(W) /\ \A p \in W : p \in Requests /\ req[p].at = "flush"
  BY <1>1, ConstantsTyped, FS_Subset
<1> DEFINE f == [p \in W |-> CHOOSE r \in W : r \in Blocked(p)]
<1> DEFINE t == [p \in W |-> TimeOf(req[p], Head(req[p].todo))]
<1>3. \A p \in W : f[p] \in W /\ f[p] \in Blocked(p)
  BY <1>1
<1>4. f \in [W -> W]
  BY <1>3
<1>5. \A p \in W : t[p] = TimeOf(req[p], Head(req[p].todo))
  OBVIOUS
<1>6. t \in [W -> Nat]
  <2>1. ASSUME NEW p \in W PROVE TimeOf(req[p], Head(req[p].todo)) \in Nat
    <3>1. req[p] \in Rec /\ Good(req[p]) /\ InTurn(req[p]) /\ req[p].at = "flush"
      BY <1>2, RecOf DEF Queue
    <3>2. req[p].todo \in Seq(Fills) /\ req[p].todo # <<>> /\ req[p].kind \in {"session", "flex"}
      BY <3>1 DEF Rec, Good, Own, InTurn, Ordered, Queues
    <3>3. Head(req[p].todo) \in Fills
      BY <3>2
    <3> QED BY <3>2, <3>3, ConstantsTyped DEF TimeOf
  <2> QED BY <2>1
<1> HIDE DEF f, t
<1>7. ASSUME NEW p \in W, NEW r \in W, r \in Blocked(p) PROVE r = f[p]
  <2>1. Head1(p) \in req[r].new /\ Head1(p) \in req[f[p]].new
    BY <1>3, <1>7 DEF Blocked, Pending, InTransaction
  <2>2. Queues(req[r]) /\ Queues(req[f[p]]) /\ r \in Requests /\ f[p] \in Requests
    BY <1>2, <1>3 DEF Queues
  <2> QED BY <2>1, <2>2 DEF Queue, Apart
<1>8. f \in Surjection(W, W)
  <2>1. \A p \in W : \E r \in W : f[r] = p
    BY <1>1, <1>7
  <2> QED BY <1>4, <2>1 DEF Surjection
<1>9. \A p \in W : t[p] <= t[f[p]]
  BY <1>2, <1>3, <1>5, WaitsForLater
<1>10. PICK p \in W : f[p] = q /\ t[p] = t[q]
  <2>1. PICK g \in Surjection(W, W) : g = f
    BY <1>8
  <2>2. PICK u \in [W -> Nat] : u = t
    BY <1>6
  <2>3. \A p \in W : u[p] <= u[g[p]]
    BY <1>9, <2>1, <2>2
  <2>4. IsFiniteSet(W) /\ q \in W
    BY <1>1, <1>2
  <2>5. \E p \in W : g[p] = q /\ u[p] = u[q]
    BY <2>3, <2>4, RoundsTied
  <2> QED BY <2>1, <2>2, <2>5
<1>11. /\ req[p].kind = req[q].kind /\ Head(req[p].todo) \in req[q].list
       /\ Head(req[p].todo) # Head(req[q].todo)
  BY <1>1, <1>2, <1>3, <1>10, WaitsForLater
<1>12. ExecutedAt[req[q].kind][Head(req[p].todo)] = ExecutedAt[req[q].kind][Head(req[q].todo)]
  BY <1>1, <1>5, <1>10, <1>11 DEF TimeOf
<1> QED BY <1>11, <1>12 DEF Tied, TimeOf

\* Every step keeps the queue.
LEMMA StepQueue == IInv /\ Queue /\ [Next]_vars => Queue'
<1> SUFFICES ASSUME IInv, Queue, [Next]_vars PROVE Queue'
  OBVIOUS
<1>1. ASSUME NEW q \in Requests, Step(q) PROVE Queue'
  <2>1. PICK r \in Rec : r = req[q]
    BY RecOf
  <2>2. CASE CreateDefault(q)
    <3>1. \/ Go(q, [r EXCEPT !.at = "profile"])
          \/ Go(q, [r EXCEPT !.at = "fetch", !.began = 0])
      BY <2>1, <2>2 DEF CreateDefault
    <3>2. /\ [r EXCEPT !.at = "profile"].at = "profile"
          /\ [r EXCEPT !.at = "fetch", !.began = 0].at = "fetch"
      BY DEF Rec
    <3> QED BY <3>1, <3>2, LeavesQueue DEF Queues
  <2>3. CASE Poll(q)
    <3>1. CASE \E S \in SUBSET Fills : Receive(q, S)
      BY <2>3, <3>1, ReceiveQueue DEF Poll
    <3>2. CASE Go(q, [r EXCEPT !.polls = @ + 1])
      <4>1. [r EXCEPT !.polls = @ + 1].at = "fetch"
        BY <2>1, <2>3 DEF Poll, Rec
      <4> QED BY <3>2, <4>1, LeavesQueue DEF Queues
    <3> QED BY <2>1, <2>3, <3>1, <3>2 DEF Poll
  <2>4. CASE PollsExhausted(q)
    <3>1. [r EXCEPT !.at = "raise"].at = "raise"
      BY DEF Rec
    <3> QED BY <2>1, <2>4, <3>1, LeavesQueue DEF PollsExhausted, Queues
  <2>5. CASE Mark(q)
    <3>1. [r EXCEPT !.at = "marked"] \in Rec /\ [r EXCEPT !.at = "marked"].at = "marked"
      BY DEF Rec, Ats
    <3> QED BY <2>1, <2>5, <3>1, OpenLeavesQueue DEF Mark, Queues
  <2>6. CASE Profile(q)
    <3> DEFINE s == [r EXCEPT !.at = "profiled", !.covers = RowsOf(req[q].acct) \cup req[q].new]
    <3>1. s.at = "profiled" /\ Go(q, s)
      BY <2>1, <2>6 DEF Profile, Rec
    <3> HIDE DEF s
    <3> QED BY <3>1, LeavesQueue DEF Queues
  <2>7. CASE Commit(q)
    <3> DEFINE s == [r EXCEPT !.at = "done", !.began = 0]
    <3>1. s.at = "done" /\ Go(q, s)
      BY <2>1, <2>7 DEF Commit, Rec
    <3> HIDE DEF s
    <3> QED BY <3>1, LeavesQueue DEF Queues
  <2>8. CASE Raise(q)
    <3> DEFINE s == [r EXCEPT !.at = "failed", !.began = 0, !.new = {}]
    <3>1. s.at = "failed" /\ Go(q, s)
      BY <2>1, <2>8 DEF Raise, Rec
    <3> HIDE DEF s
    <3> QED BY <3>1, LeavesQueue DEF Queues
  <2> QED BY <1>1, <2>2, <2>3, <2>4, <2>5, <2>6, <2>7, <2>8, CheckQueue, InsertQueue DEF Step
<1>2. ASSUME NEW q \in Requests, Reply(q) PROVE Queue'
  <2>1. PICK r \in Rec : r = req[q]
    BY RecOf
  <2>2. CASE FetchSession(q)
    BY <2>2, ReceiveQueue DEF FetchSession
  <2>3. CASE DeadlockVictim(q)
    <3> DEFINE s == [r EXCEPT !.at = "victim", !.began = 0, !.new = {}]
    <3>1. s.at = "victim" /\ s.kind = r.kind /\ s.list = r.list /\ s.todo = r.todo /\ Go(q, s)
      BY <2>1, <2>3 DEF DeadlockVictim, Rec
    <3> HIDE DEF s
    <3>2. Tied(r)
      BY <2>1, <2>3, CycleTied DEF DeadlockVictim
    <3>3. InTurn(s) /\ ~Queues(s)
      BY <3>1, <3>2 DEF InTurn, Tied, TimeOf, Queues
    <3> QED BY <3>1, <3>3, QueueStepOf
  <2> QED BY <1>2, <2>2, <2>3 DEF Reply
<1>3. ASSUME NEW q \in Requests, Fault(q) PROVE Queue'
  <2>1. PICK r \in Rec : r = req[q]
    BY RecOf
  <2>2. Go(q, [r EXCEPT !.at = "failed"]) \/ Go(q, [r EXCEPT !.at = "raise"])
    BY <1>3, <2>1 DEF Fault, ConnectionFails, FlexError, DbFails
  <2>3. [r EXCEPT !.at = "failed"].at = "failed" /\ [r EXCEPT !.at = "raise"].at = "raise"
    BY DEF Rec
  <2> QED BY <2>2, <2>3, LeavesQueue DEF Queues
<1>4. CASE UNCHANGED vars
  BY <1>4 DEF vars, db, Queue, InTurn, Ordered, Tied, Apart, Queues, TimeOf, Key
<1> QED BY <1>1, <1>2, <1>3, <1>4, ResolveQueue DEF Next

\* VictimsTied: where the executions of a feed have different times, no sync of
\* it falls victim to a deadlock.  All store in the order of time, so round a
\* cycle of requests that wait for each other the times never fall and are equal.
THEOREM AlwaysVictimsTied == Spec => []VictimsTied
<1>1. Init => Queue
  <2> SUFFICES ASSUME Init PROVE Queue
    OBVIOUS
  <2>1. \A q \in Requests : req[q] = Idle
    BY DEF Init
  <2>2. InTurn(Idle) /\ ~Queues(Idle)
    BY DEF Idle, InTurn, Queues
  <2> QED BY <2>1, <2>2 DEF Queue, Apart
<1>2. Queue => VictimsTied
  BY DEF Queue, InTurn, Tied, TimeOf, VictimsTied, TiedVictim
<1> QED BY <1>1, <1>2, StepQueue, Invariant, PTL DEF Spec


-----------------------------------------------------------------------------
(* The state of the matching *)

\* Executions in different places, of which there are finitely many.
Timely(E) == /\ E \subseteq Executions /\ IsFiniteSet(E)
             /\ \A x, y \in E : x.at = y.at => x = y

Lots == [at : Places, symbol : Symbols, side : {"BUY", "SELL"}, qty : Nat \ {0}, price : Prices]

Trades == [symbol : Symbols, qty : Nat \ {0}, buy_at : Places, buy_price : Prices,
           sell_at : Places, sell_price : Prices]

Matchings(E) == [todo : SUBSET E, at : E \cup {<<>>}, remaining : Nat,
                 lots : [Symbols -> Seq(Lots)], pairs : Seq(Trades)]

Shape(E, m) == /\ m \in Matchings(E)
               /\ m.remaining > 0 => /\ m.at \in E \ m.todo /\ m.at.side = "SELL"
                                     /\ m.remaining <= m.at.qty

\* n is m after execution ex was taken
Taken(m, n, ex) ==
  /\ ex \in m.todo /\ \A other \in m.todo : ex.at <= other.at
  /\ ~ Selling(m)
  /\ n.todo = m.todo \ {ex} /\ n.at = ex /\ n.pairs = m.pairs
  /\ n.remaining = (IF ex.side = "BUY" THEN 0 ELSE ex.qty)
  /\ \A s \in Symbols : n.lots[s] = IF s = ex.symbol /\ ex.side = "BUY"
                                    THEN Append(m.lots[s], ex) ELSE m.lots[s]

\* what is left of lots of which q shares of the first are sold
Without(lots, q) == IF q = lots[1].qty THEN Tail(lots)
                    ELSE [lots EXCEPT ![1] = [lots[1] EXCEPT !.qty = @ - q]]

\* n is m after q shares were sold
Sold(m, n, q) ==
  /\ m.remaining > 0 /\ m.at.symbol \in Symbols
  /\ m.lots[m.at.symbol] # <<>>
  /\ q \in 1..m.remaining /\ q <= m.lots[m.at.symbol][1].qty
  /\ q = m.remaining \/ q = m.lots[m.at.symbol][1].qty
  /\ n.todo = m.todo /\ n.at = m.at /\ n.remaining = m.remaining - q
  /\ n.pairs = Append(m.pairs, Pair(m.lots[m.at.symbol][1], m.at, q))
  /\ \A s \in Symbols : n.lots[s] = IF s = m.at.symbol THEN Without(m.lots[s], q) ELSE m.lots[s]

-----------------------------------------------------------------------------
(* Its steps *)

\* What an execution is.
LEMMA ExecutionIs ==
  ASSUME NEW ex \in Executions
  PROVE  /\ ex.at \in Int /\ ex.at \in Places /\ ex.symbol \in Symbols /\ ex.side \in {"BUY", "SELL"}
         /\ ex.qty \in Nat \ {0} /\ ex.price \in Nat \ {0} /\ ex.price \in Prices
         /\ ex \in Lots
BY HistoryConstants DEF Executions, Lots

\* The loop comes to the oldest execution.
LEMMA OldestIs ==
  ASSUME NEW E, E \subseteq Executions, IsFiniteSet(E), E # {}
  PROVE  Oldest(E) \in E /\ \A other \in E : Oldest(E).at <= other.at
<1> DEFINE f == [x \in E |-> x.at]
<1>1. \A x \in E : f[x] \in Int /\ f[x] = x.at
  BY ExecutionIs
<1>2. \E x \in E : \A y \in E : f[x] <= f[y]
  <2> HIDE DEF f
  <2> QED BY <1>1, LeastOf
<1>3. \E x \in E : \A y \in E : x.at <= y.at
  BY <1>1, <1>2
<1> QED BY <1>3 DEF Oldest

\* Nothing is matched at first.
LEMMA UnmatchedShape ==
  ASSUME NEW E
  PROVE  Shape(E, Unmatched(E))
<1>1. [s \in Symbols |-> <<>>] \in [Symbols -> Seq(Lots)]
  OBVIOUS
<1>2. <<>> \in Seq(Trades)
  OBVIOUS
<1> QED BY <1>1, <1>2 DEF Shape, Unmatched, Matchings

\* What a round does that takes an execution.
LEMMA TakeIs ==
  ASSUME NEW E, Timely(E), NEW m, Shape(E, m), m.todo # {}, ~ Selling(m)
  PROVE  Shape(E, Take(m)) /\ \E ex \in m.todo : Taken(m, Take(m), ex)
<1>1. PICK ex : ex = Oldest(m.todo)
  OBVIOUS
<1>2. m \in Matchings(E) /\ m.todo \subseteq E /\ m.lots \in [Symbols -> Seq(Lots)]
  BY DEF Shape, Matchings
<1>3. m.todo \subseteq Executions /\ IsFiniteSet(m.todo)
  BY <1>2, FS_Subset DEF Timely
<1>4. ex \in m.todo /\ (\A other \in m.todo : ex.at <= other.at) /\ ex \in E
  BY <1>1, <1>2, <1>3, OldestIs
<1>5. ex.symbol \in Symbols /\ ex.qty \in Nat \ {0} /\ ex \in Lots /\ ex.side \in {"BUY", "SELL"}
  BY <1>3, <1>4, ExecutionIs
<1> DEFINE n == Take(m)
           new == [m.lots EXCEPT ![ex.symbol] = IF ex.side = "BUY" THEN Append(@, ex) ELSE @]
<1>6. new \in [Symbols -> Seq(Lots)]
  BY <1>2, <1>5
<1>7. /\ n = [m EXCEPT !.todo = m.todo \ {ex}, !.at = ex,
                       !.remaining = IF ex.side = "BUY" THEN 0 ELSE ex.qty, !.lots = new]
  BY <1>1, <1>2 DEF Take, Matchings
<1>8. /\ n.todo = m.todo \ {ex} /\ n.at = ex /\ n.pairs = m.pairs /\ n.lots = new
      /\ n.remaining = (IF ex.side = "BUY" THEN 0 ELSE ex.qty)
  BY <1>2, <1>7 DEF Matchings
<1>9. n \in Matchings(E)
  <2> HIDE DEF n, new
  <2> QED BY <1>2, <1>4, <1>5, <1>6, <1>7 DEF Matchings
<1>10. \A s \in Symbols : new[s] = IF s = ex.symbol /\ ex.side = "BUY"
                                   THEN Append(m.lots[s], ex) ELSE m.lots[s]
  BY <1>2
<1> HIDE DEF n, new
<1>11. Taken(m, n, ex)
  BY <1>4, <1>8, <1>10 DEF Taken
<1>12. Shape(E, n)
  BY <1>4, <1>5, <1>8, <1>9 DEF Shape
<1> QED BY <1>4, <1>11, <1>12 DEF n

\* The first of the lots of a symbol, and what is left of them.
LEMMA WithoutIs ==
  ASSUME NEW lots \in Seq(Lots), lots # <<>>, NEW q \in Nat \ {0}, q <= lots[1].qty
  PROVE  /\ lots[1] \in Lots /\ lots[1].qty \in Nat \ {0} /\ Len(lots) \in Nat \ {0}
         /\ Without(lots, q) \in Seq(Lots)
         /\ q = lots[1].qty => /\ Len(Without(lots, q)) = Len(lots) - 1
                               /\ \A i \in 1..(Len(lots) - 1) : Without(lots, q)[i] = lots[i + 1]
         /\ q # lots[1].qty => /\ Len(Without(lots, q)) = Len(lots)
                               /\ \A i \in 2..Len(lots) : Without(lots, q)[i] = lots[i]
                               /\ Without(lots, q)[1] = [lots[1] EXCEPT !.qty = @ - q]
                               /\ Without(lots, q)[1] \in Lots
<1>1. Len(lots) \in Nat \ {0} /\ lots[1] \in Lots
  OBVIOUS
<1>2. lots[1].qty \in Nat \ {0}
  BY <1>1 DEF Lots
<1>3. CASE q = lots[1].qty
  BY <1>1, <1>2, <1>3 DEF Without
<1>4. CASE q # lots[1].qty
  <2> DEFINE left == [lots[1] EXCEPT !.qty = @ - q]
  <2>1. lots[1].qty - q \in Nat \ {0}
    BY <1>2, <1>4
  <2>2. left \in Lots
    BY <1>1, <2>1 DEF Lots
  <2> HIDE DEF left
  <2>3. Without(lots, q) = [lots EXCEPT ![1] = left]
    BY <1>4 DEF Without, left
  <2>4. [lots EXCEPT ![1] = left] \in Seq(Lots)
    BY <1>1, <2>2
  <2>5. Len([lots EXCEPT ![1] = left]) = Len(lots)
    BY <1>1, <2>2
  <2>6. \A i \in 2..Len(lots) : [lots EXCEPT ![1] = left][i] = lots[i]
    BY <1>1
  <2>7. [lots EXCEPT ![1] = left][1] = left
    BY <1>1
  <2> QED BY <1>1, <1>2, <1>4, <2>2, <2>3, <2>4, <2>5, <2>6, <2>7 DEF left
<1> QED BY <1>3, <1>4

\* What a round does that sells.
LEMMA SellIs ==
  ASSUME NEW E, Timely(E), NEW m, Shape(E, m), Selling(m)
  PROVE  Shape(E, Sell(m)) /\ \E q \in Nat \ {0} : Sold(m, Sell(m), q)
<1>1. PICK s : s = m.at.symbol
  OBVIOUS
<1>2. /\ m \in Matchings(E) /\ m.todo \subseteq E /\ m.lots \in [Symbols -> Seq(Lots)]
      /\ m.remaining \in Nat \ {0} /\ m.at \in E \ m.todo /\ m.at.side = "SELL" /\ m.pairs \in Seq(Trades)
      /\ m.remaining <= m.at.qty
  BY DEF Shape, Matchings, Selling
<1>3. m.at \in Executions /\ s \in Symbols /\ m.at.at \in Places /\ m.at.price \in Prices
  BY <1>1, <1>2, ExecutionIs DEF Timely
<1>4. m.lots[s] \in Seq(Lots) /\ m.lots[s] # <<>>
  BY <1>1, <1>2, <1>3 DEF Selling
<1>5. PICK lot : lot = m.lots[s][1]
  OBVIOUS
<1>6. Head(m.lots[s]) = lot /\ lot \in Lots
  BY <1>4, <1>5
<1>7. lot.qty \in Nat \ {0} /\ lot.at \in Places /\ lot.price \in Prices
  BY <1>6 DEF Lots
<1>8. PICK q : q = Least(m.remaining, lot.qty)
  OBVIOUS
<1>9. /\ q \in Nat \ {0} /\ q <= m.remaining /\ q <= lot.qty /\ (q = m.remaining \/ q = lot.qty)
  BY <1>2, <1>7, <1>8 DEF Least
<1> DEFINE n == Sell(m)
           new == [m.lots EXCEPT ![s] = Without(m.lots[s], q)]
           more == Append(m.pairs, Pair(lot, m.at, q))
<1>10. Without(m.lots[s], q) \in Seq(Lots)
  BY <1>4, <1>5, <1>9, WithoutIs
<1>11. new \in [Symbols -> Seq(Lots)]
  BY <1>2, <1>3, <1>10
<1>12. n = [m EXCEPT !.remaining = m.remaining - q, !.pairs = more, !.lots = new]
  BY <1>1, <1>2, <1>3, <1>5, <1>6, <1>8 DEF Sell, Without, Matchings
<1>13. Pair(lot, m.at, q) \in Trades
  BY <1>1, <1>3, <1>7, <1>9 DEF Pair, Trades
<1>14. more \in Seq(Trades)
  BY <1>2, <1>13
<1>15. m.remaining - q \in Nat
  BY <1>2, <1>9
<1>16. /\ n.todo = m.todo /\ n.at = m.at /\ n.pairs = more /\ n.lots = new /\ n.remaining = m.remaining - q
  BY <1>2, <1>12 DEF Matchings
<1>17. n \in Matchings(E)
  <2> HIDE DEF n, new, more
  <2> QED BY <1>2, <1>11, <1>12, <1>14, <1>15 DEF Matchings
<1>18. \A t \in Symbols : new[t] = IF t = s THEN Without(m.lots[t], q) ELSE m.lots[t]
  BY <1>2
<1> HIDE DEF n, new
<1>19. Sold(m, n, q)
  BY <1>1, <1>2, <1>3, <1>4, <1>5, <1>9, <1>16, <1>18 DEF Sold
<1>20. m.at.qty \in Nat
  BY <1>3, ExecutionIs
<1>21. Shape(E, n)
  BY <1>2, <1>9, <1>15, <1>16, <1>17, <1>20 DEF Shape
<1> QED BY <1>9, <1>19, <1>21 DEF n

-----------------------------------------------------------------------------
(* Sums of weights over executions, lots and pairs *)

LotSum(W, lots) == SumOver([i \in DOMAIN lots |-> W[lots[i]]], DOMAIN lots)

PairSum(W, ps) == SumOver([i \in DOMAIN ps |-> W[ps[i]]], DOMAIN ps)

\* A lot more.
LEMMA LotSumAppend ==
  ASSUME NEW W \in [Lots -> Int], NEW lots \in Seq(Lots), NEW lot \in Lots
  PROVE  /\ LotSum(W, lots) \in Int /\ LotSum(W, Append(lots, lot)) = LotSum(W, lots) + W[lot]
         /\ LotSum(W, <<>>) = 0
<1>1. PICK n \in Nat : n = Len(lots)
  OBVIOUS
<1>2. PICK more : more = Append(lots, lot)
  OBVIOUS
<1> DEFINE f == [i \in 1..n |-> W[lots[i]]]
           g == [i \in 1..(n + 1) |-> W[more[i]]]
<1>3. DOMAIN lots = 1..n /\ DOMAIN more = 1..(n + 1)
  BY <1>1, <1>2
<1>4. \A i \in 1..n : lots[i] \in Lots /\ more[i] = lots[i]
  BY <1>1, <1>2
<1>5. more[n + 1] = lot
  BY <1>1, <1>2
<1>6. \A i \in 1..(n + 1) : more[i] \in Lots
  BY <1>1, <1>2
<1>7. (\A i \in 1..(n + 1) : g[i] \in Int) /\ (\A i \in 1..n : f[i] = g[i]) /\ g[n + 1] = W[lot]
  BY <1>4, <1>5, <1>6
<1>8. \A i \in 1..n : f[i] \in Int
  BY <1>4
<1>9. LotSum(W, lots) = SumOver(f, 1..n) /\ LotSum(W, more) = SumOver(g, 1..(n + 1))
  BY <1>3 DEF LotSum
<1> HIDE DEF f, g
<1>10. SumOver(g, 1..(n + 1)) = SumOver(f, 1..n) + g[n + 1]
  BY <1>7, SumLonger
<1>11. SumOver(f, 1..n) \in Int
  <2>1. IsFiniteSet(1..n)
    BY FS_Interval
  <2> QED BY <1>8, <2>1, SumTyped
<1>12. LotSum(W, <<>>) = 0
  BY SumEmpty DEF LotSum
<1> QED BY <1>2, <1>7, <1>9, <1>10, <1>11, <1>12

\* A pair more.
LEMMA PairSumAppend ==
  ASSUME NEW W \in [Trades -> Int], NEW ps \in Seq(Trades), NEW p \in Trades
  PROVE  /\ PairSum(W, ps) \in Int /\ PairSum(W, Append(ps, p)) = PairSum(W, ps) + W[p]
         /\ PairSum(W, <<>>) = 0
<1>1. PICK n \in Nat : n = Len(ps)
  OBVIOUS
<1>2. PICK more : more = Append(ps, p)
  OBVIOUS
<1> DEFINE f == [i \in 1..n |-> W[ps[i]]]
           g == [i \in 1..(n + 1) |-> W[more[i]]]
<1>3. DOMAIN ps = 1..n /\ DOMAIN more = 1..(n + 1)
  BY <1>1, <1>2
<1>4. \A i \in 1..n : ps[i] \in Trades /\ more[i] = ps[i]
  BY <1>1, <1>2
<1>5. more[n + 1] = p
  BY <1>1, <1>2
<1>6. \A i \in 1..(n + 1) : more[i] \in Trades
  BY <1>1, <1>2
<1>7. (\A i \in 1..(n + 1) : g[i] \in Int) /\ (\A i \in 1..n : f[i] = g[i]) /\ g[n + 1] = W[p]
  BY <1>4, <1>5, <1>6
<1>8. \A i \in 1..n : f[i] \in Int
  BY <1>4
<1>9. PairSum(W, ps) = SumOver(f, 1..n) /\ PairSum(W, more) = SumOver(g, 1..(n + 1))
  BY <1>3 DEF PairSum
<1> HIDE DEF f, g
<1>10. SumOver(g, 1..(n + 1)) = SumOver(f, 1..n) + g[n + 1]
  BY <1>7, SumLonger
<1>11. SumOver(f, 1..n) \in Int
  <2>1. IsFiniteSet(1..n)
    BY FS_Interval
  <2> QED BY <1>8, <2>1, SumTyped
<1>12. PairSum(W, <<>>) = 0
  BY SumEmpty DEF PairSum
<1> QED BY <1>2, <1>7, <1>9, <1>10, <1>11, <1>12

\* The sum over pairs is a number.
LEMMA PairSumTyped ==
  ASSUME NEW W \in [Trades -> Int], NEW ps \in Seq(Trades)
  PROVE  PairSum(W, ps) \in Int
<1> DEFINE f == [i \in DOMAIN ps |-> W[ps[i]]]
<1>1. \A i \in DOMAIN ps : f[i] \in Int
  OBVIOUS
<1>2. DOMAIN ps = 1..Len(ps) /\ IsFiniteSet(1..Len(ps))
  BY FS_Interval
<1>3. PairSum(W, ps) = SumOver(f, DOMAIN ps)
  BY DEF PairSum
<1> HIDE DEF f
<1> QED BY <1>1, <1>2, <1>3, SumTyped

\* The lots after some shares of the first are sold.
LEMMA LotSumSold ==
  ASSUME NEW W \in [Lots -> Int], NEW lots \in Seq(Lots), lots # <<>>,
         NEW q \in Nat \ {0}, q <= lots[1].qty
  PROVE  LotSum(W, Without(lots, q)) =
           LotSum(W, lots) - W[lots[1]]
             + (IF q = lots[1].qty THEN 0 ELSE W[[lots[1] EXCEPT !.qty = @ - q]])
<1>1. PICK left : left = Without(lots, q)
  OBVIOUS
<1>2. PICK n \in Nat : Len(lots) = n + 1
  <2>1. Len(lots) - 1 \in Nat /\ Len(lots) = (Len(lots) - 1) + 1
    BY WithoutIs
  <2> QED BY <2>1
<1> DEFINE f == [i \in 1..(n + 1) |-> W[lots[i]]]
<1>3. (\A i \in 1..(n + 1) : lots[i] \in Lots) /\ DOMAIN lots = 1..(n + 1)
  BY <1>2
<1>4. \A i \in 1..(n + 1) : f[i] \in Int
  BY <1>3
<1>5. LotSum(W, lots) = SumOver(f, 1..(n + 1)) /\ f[1] = W[lots[1]]
  BY <1>3 DEF LotSum
<1>6. left \in Seq(Lots)
  BY <1>1, WithoutIs
<1>7. IsFiniteSet(1..(n + 1)) /\ IsFiniteSet(1..n)
  BY FS_Interval
<1>8. CASE q = lots[1].qty
  <2> DEFINE g == [i \in 1..n |-> W[left[i]]]
  <2>1. Len(left) = n /\ \A i \in 1..n : left[i] = lots[i + 1]
    <3>1. Len(left) = Len(lots) - 1 /\ \A i \in 1..(Len(lots) - 1) : left[i] = lots[i + 1]
      <4>1. q = lots[1].qty => /\ Len(Without(lots, q)) = Len(lots) - 1
                               /\ \A i \in 1..(Len(lots) - 1) : Without(lots, q)[i] = lots[i + 1]
        BY WithoutIs
      <4>2. /\ Len(Without(lots, q)) = Len(lots) - 1
            /\ \A i \in 1..(Len(lots) - 1) : Without(lots, q)[i] = lots[i + 1]
        BY <4>1, <1>8
      <4> QED BY <1>1, <4>2
    <3>2. Len(lots) - 1 = n
      BY <1>2
    <3> QED BY <3>1, <3>2
  <2>2. DOMAIN left = 1..n
    BY <1>6, <2>1
  <2>3. \A i \in 1..n : g[i] = f[i + 1]
    BY <2>1
  <2>4. LotSum(W, left) = SumOver(g, 1..n)
    BY <2>2 DEF LotSum
  <2> HIDE DEF f, g
  <2>5. \A i \in 1..n : g[i] \in Int
    <3>1. \A i \in 1..n : i + 1 \in 1..(n + 1)
      OBVIOUS
    <3> QED BY <2>3, <1>4, <3>1
  <2>6. SumOver(f, 1..(n + 1)) = f[1] + SumOver(g, 1..n)
    BY <1>4, <2>3, SumShifted
  <2>7. SumOver(g, 1..n) \in Int
    BY <1>7, <2>5, SumTyped
  <2>8. f[1] \in Int /\ SumOver(f, 1..(n + 1)) \in Int
    BY <1>4, <1>7, SumTyped
  <2> QED BY <1>1, <1>5, <1>8, <2>4, <2>6, <2>7, <2>8
<1>9. CASE q # lots[1].qty
  <2> DEFINE g == [i \in 1..(n + 1) |-> W[left[i]]]
  <2>1. /\ Len(left) = n + 1 /\ \A i \in 2..(n + 1) : left[i] = lots[i]
        /\ left[1] = [lots[1] EXCEPT !.qty = @ - q] /\ left[1] \in Lots
    BY <1>1, <1>2, <1>9, WithoutIs
  <2>2. DOMAIN left = 1..(n + 1) /\ 1 \in 1..(n + 1)
    BY <1>6, <2>1
  <2>3. \A i \in 1..(n + 1) : i # 1 => f[i] = g[i]
    <3>1. \A i \in 1..(n + 1) : i # 1 => i \in 2..(n + 1)
      OBVIOUS
    <3> QED BY <2>1, <3>1
  <2>4. LotSum(W, left) = SumOver(g, 1..(n + 1)) /\ g[1] = W[left[1]]
    BY <2>2 DEF LotSum
  <2>5. \A i \in 1..(n + 1) : g[i] \in Int
    <3>1. \A i \in 1..(n + 1) : left[i] \in Lots
      BY <1>6, <2>1
    <3> QED BY <3>1
  <2> HIDE DEF f, g
  <2>6. SumOver(g, 1..(n + 1)) = SumOver(f, 1..(n + 1)) - f[1] + g[1]
    <3>1. \A i \in 1..(n + 1) : f[i] \in Int /\ g[i] \in Int
      BY <1>4, <2>5
    <3>2. \A i \in 2..(n + 1) : f[i] = g[i]
      BY <2>3
    <3> QED BY <3>1, <3>2, SumFirst
  <2> QED BY <1>1, <1>5, <1>9, <2>1, <2>4, <2>6
<1> QED BY <1>8, <1>9

-----------------------------------------------------------------------------
(* Shares are conserved *)

LotQty == [l \in Lots |-> l.qty]
TradeQty(s) == [p \in Trades |-> IF p.symbol = s THEN p.qty ELSE 0]
Bought(s) == [x \in Executions |-> IF x.side = "BUY" /\ x.symbol = s THEN x.qty ELSE 0]

OpenShares(m, s) == LotSum(LotQty, m.lots[s])

\* Every share bought is in a pair, in a lot or still to be bought.
Balanced(E, m) == \A s \in Symbols :
  SumOver(Bought(s), E) = PairSum(TradeQty(s), m.pairs) + OpenShares(m, s) + SumOver(Bought(s), m.todo)

\* These are weights.
LEMMA QtyWeights ==
  ASSUME NEW s
  PROVE  LotQty \in [Lots -> Int] /\ TradeQty(s) \in [Trades -> Int] /\ Bought(s) \in [Executions -> Int]
<1>1. \A l \in Lots : l.qty \in Int
  BY DEF Lots
<1>2. \A p \in Trades : p.qty \in Int
  BY DEF Trades
<1>3. \A x \in Executions : x.qty \in Int
  BY ExecutionIs
<1>4. LotQty \in [Lots -> Int]
  BY <1>1 DEF LotQty
<1>5. TradeQty(s) \in [Trades -> Int]
  BY <1>2 DEF TradeQty
<1>6. Bought(s) \in [Executions -> Int]
  BY <1>3 DEF Bought
<1> QED BY <1>4, <1>5, <1>6

\* What is known of a state of the matching.
LEMMA ShapeIs ==
  ASSUME NEW E, Timely(E), NEW m, Shape(E, m)
  PROVE  /\ m.todo \subseteq E /\ m.todo \subseteq Executions /\ IsFiniteSet(m.todo)
         /\ E \subseteq Executions /\ IsFiniteSet(E) /\ m.remaining \in Nat
         /\ m.pairs \in Seq(Trades) /\ \A s \in Symbols : m.lots[s] \in Seq(Lots)
BY FS_Subset DEF Shape, Matchings, Timely

\* A weight of what is left after one execution is taken.
LEMMA SumTaken ==
  ASSUME NEW W \in [Executions -> Int], NEW F, F \subseteq Executions, IsFiniteSet(F), NEW ex \in F
  PROVE  /\ SumOver(W, F) = SumOver(W, F \ {ex}) + W[ex]
         /\ SumOver(W, F) \in Int /\ SumOver(W, F \ {ex}) \in Int /\ W[ex] \in Int
<1>1. (\A x \in F : W[x] \in Int) /\ (\A x \in F \ {ex} : W[x] \in Int) /\ IsFiniteSet(F \ {ex})
  BY FS_Subset
<1>2. SumOver(W, F) = W[ex] + SumOver(W, F \ {ex})
  BY <1>1, SumWithout
<1>3. SumOver(W, F) \in Int
  BY <1>1, SumTyped
<1>4. SumOver(W, F \ {ex}) \in Int
  BY <1>1, SumTyped
<1> QED BY <1>1, <1>2, <1>3, <1>4

\* So many shares are open, and so many when an execution was taken or some sold.
LEMMA OpenIs ==
  ASSUME NEW lots \in Seq(Lots)
  PROVE  /\ LotSum(LotQty, lots) \in Nat
         /\ \A lot \in Lots : LotSum(LotQty, Append(lots, lot)) = LotSum(LotQty, lots) + lot.qty
         /\ \A i \in 1..Len(lots) : lots[i].qty <= LotSum(LotQty, lots)
         /\ LotSum(LotQty, <<>>) = 0
<1> DEFINE f == [i \in DOMAIN lots |-> LotQty[lots[i]]]
<1>1. IsFiniteSet(DOMAIN lots) /\ DOMAIN lots = 1..Len(lots)
  BY FS_Interval
<1>2. \A i \in DOMAIN lots : f[i] \in Nat /\ f[i] = lots[i].qty
  <2> SUFFICES ASSUME NEW i \in DOMAIN lots PROVE f[i] \in Nat /\ f[i] = lots[i].qty
    OBVIOUS
  <2>1. lots[i] \in Lots
    OBVIOUS
  <2> QED BY <2>1 DEF LotQty, Lots
<1>3. LotSum(LotQty, lots) = SumOver(f, DOMAIN lots)
  BY DEF LotSum
<1>4. \A lot \in Lots : LotSum(LotQty, Append(lots, lot)) = LotSum(LotQty, lots) + lot.qty
  BY QtyWeights, LotSumAppend DEF LotQty
<1>5. LotSum(LotQty, <<>>) = 0
  BY SumEmpty DEF LotSum
<1> HIDE DEF f
<1>6. SumOver(f, DOMAIN lots) \in Nat
  <2>1. \A i \in DOMAIN lots : f[i] \in Int /\ f[i] >= 0
    BY <1>2
  <2>2. SumOver(f, DOMAIN lots) \in Int /\ SumOver(f, DOMAIN lots) >= 0
    BY <1>1, <2>1, SumTyped
  <2> QED BY <2>2
<1>7. \A i \in DOMAIN lots : f[i] <= SumOver(f, DOMAIN lots)
  BY <1>1, <1>2, SumAtLeast
<1> QED BY <1>1, <1>2, <1>3, <1>4, <1>5, <1>6, <1>7

\* What is open after some of the first lot is sold.
LEMMA OpenSold ==
  ASSUME NEW lots \in Seq(Lots), lots # <<>>, NEW q \in Nat \ {0}, q <= lots[1].qty
  PROVE  LotSum(LotQty, Without(lots, q)) = LotSum(LotQty, lots) - q
<1>1. lots[1] \in Lots /\ lots[1].qty \in Nat \ {0} /\ LotQty[lots[1]] = lots[1].qty
  BY WithoutIs DEF LotQty
<1>2. LotSum(LotQty, Without(lots, q)) =
           LotSum(LotQty, lots) - LotQty[lots[1]]
             + (IF q = lots[1].qty THEN 0 ELSE LotQty[[lots[1] EXCEPT !.qty = @ - q]])
  BY QtyWeights, LotSumSold
<1>3. LotSum(LotQty, lots) \in Nat
  BY OpenIs
<1>4. q # lots[1].qty => LotQty[[lots[1] EXCEPT !.qty = @ - q]] = lots[1].qty - q
  <2> SUFFICES ASSUME q # lots[1].qty PROVE LotQty[[lots[1] EXCEPT !.qty = @ - q]] = lots[1].qty - q
    OBVIOUS
  <2>1. lots[1].qty - q \in Nat \ {0}
    BY <1>1
  <2>2. [lots[1] EXCEPT !.qty = @ - q] \in Lots
    BY <1>1, <2>1 DEF Lots
  <2>3. [lots[1] EXCEPT !.qty = @ - q].qty = lots[1].qty - q
    BY <1>1 DEF Lots
  <2> QED BY <2>2, <2>3 DEF LotQty
<1> QED BY <1>1, <1>2, <1>3, <1>4

\* The pair of a sale.
LEMMA PairIs ==
  ASSUME NEW E, Timely(E), NEW m, Shape(E, m), NEW n, NEW q, Sold(m, n, q)
  PROVE  \E s \in Symbols, lot \in Lots, p \in Trades :
           /\ s = m.at.symbol /\ m.lots[s] \in Seq(Lots) /\ m.lots[s] # <<>> /\ lot = m.lots[s][1]
           /\ q \in Nat \ {0} /\ q <= lot.qty /\ q <= m.remaining
           /\ p = Pair(lot, m.at, q) /\ n.pairs = Append(m.pairs, p)
           /\ p.symbol = s /\ p.qty = q /\ p.buy_at = lot.at /\ p.buy_price = lot.price
           /\ p.sell_at = m.at.at /\ p.sell_price = m.at.price
           /\ m.at \in E \ m.todo /\ m.at \in Executions /\ m.at.side = "SELL"
           /\ n.lots[s] = Without(m.lots[s], q)
           /\ \A t \in Symbols : t # s => n.lots[t] = m.lots[t]
<1>1. PICK s : s = m.at.symbol
  OBVIOUS
<1>2. s \in Symbols /\ m.lots[s] \in Seq(Lots) /\ m.lots[s] # <<>>
  BY <1>1, ShapeIs DEF Sold
<1>3. PICK lot : lot = m.lots[s][1]
  OBVIOUS
<1>4. lot \in Lots
  BY <1>2, <1>3
<1>5. q \in Nat \ {0} /\ q <= lot.qty /\ q <= m.remaining /\ m.remaining > 0
  <2>1. m.remaining \in Nat
    BY ShapeIs
  <2> QED BY <1>1, <1>3, <2>1 DEF Sold
<1>6. m.at \in E \ m.todo /\ m.at \in Executions /\ m.at.side = "SELL"
  BY <1>5 DEF Shape, Timely
<1>7. Pair(lot, m.at, q) \in Trades
  BY <1>1, <1>2, <1>4, <1>5, <1>6 DEF Pair, Trades, Lots, Executions
<1>8. n.pairs = Append(m.pairs, Pair(lot, m.at, q))
  BY <1>1, <1>3 DEF Sold
<1>9. /\ n.lots[s] = Without(m.lots[s], q)
      /\ \A t \in Symbols : t # s => n.lots[t] = m.lots[t]
  BY <1>1, <1>2 DEF Sold
<1>10. PICK p : p = Pair(lot, m.at, q)
  OBVIOUS
<1>11. /\ p.symbol = s /\ p.qty = q /\ p.buy_at = lot.at /\ p.buy_price = lot.price
       /\ p.sell_at = m.at.at /\ p.sell_price = m.at.price
  BY <1>1, <1>10 DEF Pair
<1> QED BY <1>1, <1>2, <1>3, <1>4, <1>5, <1>6, <1>7, <1>8, <1>9, <1>10, <1>11

\* Taking an execution keeps the balance,
LEMMA BalancedTaken ==
  ASSUME NEW E, Timely(E), NEW m, Shape(E, m), NEW n, NEW ex, Taken(m, n, ex), Balanced(E, m)
  PROVE  Balanced(E, n)
<1>1. ex \in m.todo /\ ex \in Executions /\ ex \in Lots
  BY ShapeIs, ExecutionIs DEF Taken
<1> SUFFICES ASSUME NEW s \in Symbols
    PROVE SumOver(Bought(s), E) =
            PairSum(TradeQty(s), n.pairs) + OpenShares(n, s) + SumOver(Bought(s), n.todo)
  BY DEF Balanced
<1>2. SumOver(Bought(s), m.todo) = SumOver(Bought(s), n.todo) + Bought(s)[ex]
  <2>1. n.todo = m.todo \ {ex}
    BY DEF Taken
  <2> QED BY <1>1, <2>1, SumTaken, QtyWeights, ShapeIs
<1>3. SumOver(Bought(s), n.todo) \in Int /\ Bought(s)[ex] \in Int
  <2>1. n.todo = m.todo \ {ex}
    BY DEF Taken
  <2> QED BY <1>1, <2>1, SumTaken, QtyWeights, ShapeIs
<1>4. Bought(s)[ex] = IF ex.side = "BUY" /\ ex.symbol = s THEN ex.qty ELSE 0
  BY <1>1 DEF Bought
<1>5. m.lots[s] \in Seq(Lots) /\ OpenShares(m, s) \in Nat
  BY ShapeIs, OpenIs DEF OpenShares
<1>6. OpenShares(n, s) = OpenShares(m, s) + Bought(s)[ex]
  <2>1. CASE ex.side = "BUY" /\ ex.symbol = s
    <3>1. n.lots[s] = Append(m.lots[s], ex)
      BY <2>1 DEF Taken
    <3> QED BY <1>1, <1>4, <1>5, <2>1, <3>1, OpenIs DEF OpenShares
  <2>2. CASE ~ (ex.side = "BUY" /\ ex.symbol = s)
    <3>1. n.lots[s] = m.lots[s]
      BY <2>2 DEF Taken
    <3> QED BY <1>4, <1>5, <2>2, <3>1 DEF OpenShares
  <2> QED BY <2>1, <2>2
<1>7. PairSum(TradeQty(s), m.pairs) \in Int /\ n.pairs = m.pairs
  BY ShapeIs, QtyWeights, PairSumTyped DEF Taken
<1>8. SumOver(Bought(s), E) = PairSum(TradeQty(s), m.pairs) + OpenShares(m, s) + SumOver(Bought(s), m.todo)
  BY DEF Balanced
<1> QED BY <1>2, <1>3, <1>5, <1>6, <1>7, <1>8

\* and so does selling.
LEMMA BalancedSold ==
  ASSUME NEW E, Timely(E), NEW m, Shape(E, m), NEW n, NEW q, Sold(m, n, q), Balanced(E, m)
  PROVE  Balanced(E, n)
<1>1. PICK s \in Symbols, lot \in Lots, p \in Trades :
           /\ m.lots[s] \in Seq(Lots) /\ m.lots[s] # <<>> /\ lot = m.lots[s][1]
           /\ q \in Nat \ {0} /\ q <= lot.qty
           /\ n.pairs = Append(m.pairs, p) /\ p.symbol = s /\ p.qty = q
           /\ n.lots[s] = Without(m.lots[s], q)
           /\ \A t \in Symbols : t # s => n.lots[t] = m.lots[t]
  BY PairIs
<1> SUFFICES ASSUME NEW t \in Symbols
    PROVE SumOver(Bought(t), E) =
            PairSum(TradeQty(t), n.pairs) + OpenShares(n, t) + SumOver(Bought(t), n.todo)
  BY DEF Balanced
<1>2. SumOver(Bought(t), E) = PairSum(TradeQty(t), m.pairs) + OpenShares(m, t) + SumOver(Bought(t), m.todo)
  BY DEF Balanced
<1>3. n.todo = m.todo
  BY DEF Sold
<1>4. /\ PairSum(TradeQty(t), n.pairs) = PairSum(TradeQty(t), m.pairs) + TradeQty(t)[p]
      /\ PairSum(TradeQty(t), m.pairs) \in Int
  <2>1. PICK W, ps : W = TradeQty(t) /\ ps = m.pairs
    OBVIOUS
  <2>2. W \in [Trades -> Int] /\ ps \in Seq(Trades)
    BY <2>1, ShapeIs, QtyWeights
  <2>3. PairSum(W, Append(ps, p)) = PairSum(W, ps) + W[p] /\ PairSum(W, ps) \in Int
    BY <2>2, PairSumAppend
  <2> QED BY <1>1, <2>1, <2>3
<1>5. TradeQty(t)[p] = IF s = t THEN q ELSE 0
  BY <1>1 DEF TradeQty
<1>6. OpenShares(n, t) = OpenShares(m, t) - (IF s = t THEN q ELSE 0) /\ OpenShares(m, t) \in Nat
  <2>1. m.lots[t] \in Seq(Lots) /\ OpenShares(m, t) \in Nat
    BY ShapeIs, OpenIs DEF OpenShares
  <2>2. CASE s = t
    BY <1>1, <2>1, <2>2, OpenSold DEF OpenShares
  <2>3. CASE s # t
    BY <1>1, <2>1, <2>3 DEF OpenShares
  <2> QED BY <2>1, <2>2, <2>3
<1>7. SumOver(Bought(t), m.todo) \in Int
  <2>1. \A x \in m.todo : Bought(t)[x] \in Int
    BY ShapeIs, QtyWeights
  <2> QED BY <2>1, ShapeIs, SumTyped
<1>8. q \in Int
  BY <1>1
<1> QED BY <1>2, <1>3, <1>4, <1>5, <1>6, <1>7, <1>8

-----------------------------------------------------------------------------
(* What is open is what the account holds *)

\* Executions are taken by time.
ByTime(E, m) == \A x \in E \ m.todo, y \in m.todo : x.at < y.at

Signed == [x \in Executions |-> IF x.side = "BUY" THEN x.qty ELSE 0 - x.qty]

\* bought more than sold since t
Gained(F, t) == SumOver(Signed, {x \in F : x.at >= t})

\* h is held after the executions F.
IsHeld(F, h) == /\ h \in Nat
                /\ \A t \in Places : Gained(F, t) <= h
                /\ h = 0 \/ \E t \in Places : Gained(F, t) = h

\* what is open when what remains of the sale will have been served
Holds(m, s) == IF m.remaining > 0 /\ m.at.symbol = s
               THEN OpenShares(m, s) - Least(OpenShares(m, s), m.remaining) ELSE OpenShares(m, s)

Holding(E, m) == \A s \in Symbols : IsHeld(Of(E \ m.todo, s), Holds(m, s))

\* Taking the oldest keeps the order.
LEMMA ByTimeTaken ==
  ASSUME NEW E, Timely(E), NEW m, Shape(E, m), NEW n, NEW ex, Taken(m, n, ex), ByTime(E, m)
  PROVE  ByTime(E, n)
<1> SUFFICES ASSUME NEW x \in E \ n.todo, NEW y \in n.todo PROVE x.at < y.at
  BY DEF ByTime
<1>1. n.todo = m.todo \ {ex} /\ ex \in m.todo /\ \A other \in m.todo : ex.at <= other.at
  BY DEF Taken
<1>2. x \in Executions /\ y \in Executions /\ x \in E /\ y \in E
  BY <1>1, ShapeIs
<1>3. x.at \in Int /\ y.at \in Int
  BY <1>2, ExecutionIs
<1>4. CASE x = ex
  BY <1>1, <1>2, <1>3, <1>4 DEF Timely
<1>5. CASE x # ex
  BY <1>1, <1>5 DEF ByTime
<1> QED BY <1>4, <1>5

\* What was gained is a number, nothing of no executions.
LEMMA GainedTyped ==
  ASSUME NEW F, F \subseteq Executions, IsFiniteSet(F), NEW t
  PROVE  /\ Gained(F, t) \in Int
         /\ (\A x \in F : ~ (x.at >= t)) => Gained(F, t) = 0
<1> DEFINE G == {x \in F : x.at >= t}
<1>1. IsFiniteSet(G) /\ G \subseteq F
  BY FS_Subset
<1>2. \A x \in G : Signed[x] \in Int
  BY ExecutionIs DEF Signed
<1>3. (\A x \in F : ~ (x.at >= t)) => G = {}
  OBVIOUS
<1>4. Gained(F, t) = SumOver(Signed, G)
  BY DEF Gained
<1> HIDE DEF G
<1> QED BY <1>1, <1>2, <1>3, <1>4, SumTyped, SumEmpty

\* What is gained with one execution more, the last.
LEMMA GainedMore ==
  ASSUME NEW F, F \subseteq Executions, IsFiniteSet(F), NEW ex \in Executions,
         \A x \in F : x.at < ex.at, NEW t \in Places
  PROVE  Gained(F \cup {ex}, t) = IF ex.at >= t THEN Gained(F, t) + Signed[ex] ELSE 0
<1> DEFINE G == {x \in F : x.at >= t}
           H == {x \in F \cup {ex} : x.at >= t}
<1>1. IsFiniteSet(G) /\ G \subseteq F /\ ex \notin F /\ ex.at \in Int /\ t \in Int
  BY FS_Subset, ExecutionIs, HistoryConstants
<1>2. Gained(F, t) = SumOver(Signed, G) /\ Gained(F \cup {ex}, t) = SumOver(Signed, H)
  BY DEF Gained
<1>3. \A x \in G \cup {ex} : Signed[x] \in Int
  BY ExecutionIs DEF Signed
<1>4. CASE ex.at >= t
  <2>1. H = G \cup {ex} /\ ex \notin G
    BY <1>1, <1>4
  <2> HIDE DEF G, H
  <2>2. SumOver(Signed, G \cup {ex}) = SumOver(Signed, G) + Signed[ex]
    BY <1>1, <1>3, <2>1, SumWith
  <2> QED BY <1>2, <1>4, <2>1, <2>2
<1>5. CASE ~ (ex.at >= t)
  <2>1. \A x \in F : x.at \in Int
    BY ExecutionIs
  <2>2. H = {}
    BY <1>1, <1>5, <2>1
  <2> QED BY <1>2, <1>5, <2>2, SumEmpty
<1> QED BY <1>4, <1>5

\* What is held after one execution more.
LEMMA HeldMore ==
  ASSUME NEW F, F \subseteq Executions, IsFiniteSet(F), NEW ex \in Executions,
         \A x \in F : x.at < ex.at, NEW h, IsHeld(F, h)
  PROVE  IsHeld(F \cup {ex}, IF ex.side = "BUY" THEN h + ex.qty ELSE h - Least(h, ex.qty))
<1> DEFINE k == IF ex.side = "BUY" THEN h + ex.qty ELSE h - Least(h, ex.qty)
<1>1. h \in Nat /\ (\A t \in Places : Gained(F, t) <= h) /\ (h = 0 \/ \E t \in Places : Gained(F, t) = h)
  BY DEF IsHeld
<1>2. ex.at \in Places /\ ex.at \in Int /\ ex.qty \in Nat \ {0}
  BY ExecutionIs
<1>3. Signed[ex] = IF ex.side = "BUY" THEN ex.qty ELSE 0 - ex.qty
  BY DEF Signed
<1>4. k \in Nat /\ h + Signed[ex] <= k /\ (k = 0 \/ k = h + Signed[ex])
  BY <1>1, <1>2, <1>3 DEF Least
<1>5. \A t \in Places : Gained(F, t) \in Int
  BY GainedTyped
<1>6. \A t \in Places : Gained(F \cup {ex}, t) <= k
  <2> SUFFICES ASSUME NEW t \in Places PROVE Gained(F \cup {ex}, t) <= k
    OBVIOUS
  <2>1. Gained(F \cup {ex}, t) = IF ex.at >= t THEN Gained(F, t) + Signed[ex] ELSE 0
    BY GainedMore
  <2>2. Signed[ex] \in Int /\ Gained(F, t) <= h
    BY <1>1, <1>2, <1>3
  <2> HIDE DEF k
  <2> QED BY <1>1, <1>4, <1>5, <2>1, <2>2
<1>7. k = 0 \/ \E t \in Places : Gained(F \cup {ex}, t) = k
  <2> SUFFICES ASSUME k # 0 PROVE \E t \in Places : Gained(F \cup {ex}, t) = k
    OBVIOUS
  <2>1. k = h + Signed[ex]
    BY <1>4
  <2>2. \E t \in Places : Gained(F, t) = h /\ ex.at >= t
    <3>1. CASE h = 0
      <4>1. \A x \in F : ~ (x.at >= ex.at)
        <5>1. \A x \in F : x.at \in Int
          BY ExecutionIs
        <5> QED BY <1>2, <5>1
      <4>2. Gained(F, ex.at) = 0
        BY <4>1, GainedTyped
      <4> QED BY <1>2, <3>1, <4>2
    <3>2. CASE h # 0
      <4>1. PICK t \in Places : Gained(F, t) = h
        BY <1>1, <3>2
      <4>2. t \in Int /\ \A x \in F : x.at \in Int
        BY HistoryConstants, ExecutionIs
      <4>3. ex.at >= t
        <5> SUFFICES ASSUME ~ (ex.at >= t) PROVE FALSE
          OBVIOUS
        <5>1. \A x \in F : ~ (x.at >= t)
          BY <1>2, <4>2
        <5>2. Gained(F, t) = 0
          BY <5>1, GainedTyped
        <5> QED BY <3>2, <4>1, <5>2
      <4> QED BY <4>1, <4>3
    <3> QED BY <3>1, <3>2
  <2>3. PICK t \in Places : Gained(F, t) = h /\ ex.at >= t
    BY <2>2
  <2>4. Gained(F \cup {ex}, t) = h + Signed[ex]
    BY <2>3, GainedMore
  <2> QED BY <2>1, <2>4
<1> QED BY <1>4, <1>6, <1>7 DEF IsHeld

\* Taking an execution,
LEMMA HoldingTaken ==
  ASSUME NEW E, Timely(E), NEW m, Shape(E, m), NEW n, NEW ex, Taken(m, n, ex), ByTime(E, m),
         Holding(E, m)
  PROVE  Holding(E, n)
<1>1. /\ n.todo = m.todo \ {ex} /\ ex \in m.todo /\ ex \in E /\ ex \in Executions /\ ex \in Lots /\ n.at = ex
      /\ ex.side \in {"BUY", "SELL"} /\ ex.qty \in Nat \ {0} /\ m.remaining \in Nat
      /\ n.remaining = IF ex.side = "BUY" THEN 0 ELSE ex.qty
  BY ShapeIs, ExecutionIs DEF Taken
<1> SUFFICES ASSUME NEW s \in Symbols PROVE IsHeld(Of(E \ n.todo, s), Holds(n, s))
  BY DEF Holding
<1>2. m.lots[s] \in Seq(Lots) /\ OpenShares(m, s) \in Nat
  BY ShapeIs, OpenIs DEF OpenShares
<1>3. Holds(m, s) = OpenShares(m, s)
  <2>1. CASE m.remaining > 0 /\ m.at.symbol = s
    <3>1. m.lots[s] = <<>>
      BY <2>1 DEF Taken, Selling
    <3>2. OpenShares(m, s) = 0
      BY <3>1, OpenIs, <1>2 DEF OpenShares
    <3> QED BY <1>1, <1>2, <2>1, <3>2 DEF Holds, Least
  <2>2. CASE ~ (m.remaining > 0 /\ m.at.symbol = s)
    BY <2>2 DEF Holds
  <2> QED BY <2>1, <2>2
<1> DEFINE F == Of(E \ m.todo, s)
<1>4. IsHeld(F, OpenShares(m, s))
  BY <1>3 DEF Holding
<1>5. CASE ex.symbol = s
  <2>1. Of(E \ n.todo, s) = F \cup {ex}
    BY <1>1, <1>5 DEF Of
  <2>2. F \subseteq Executions /\ IsFiniteSet(F) /\ \A x \in F : x.at < ex.at
    <3>1. F \subseteq E /\ \A x \in F : x \in E \ m.todo
      BY DEF Of
    <3>2. IsFiniteSet(F) /\ F \subseteq Executions
      BY <3>1, ShapeIs, FS_Subset
    <3> QED BY <1>1, <3>1, <3>2 DEF ByTime
  <2>3. IsHeld(F \cup {ex}, IF ex.side = "BUY" THEN OpenShares(m, s) + ex.qty
                            ELSE OpenShares(m, s) - Least(OpenShares(m, s), ex.qty))
    <3> HIDE DEF F
    <3> QED BY <1>1, <1>4, <2>2, HeldMore
  <2>4. CASE ex.side = "BUY"
    <3>1. n.lots[s] = Append(m.lots[s], ex)
      BY <1>5, <2>4 DEF Taken
    <3>2. OpenShares(n, s) = OpenShares(m, s) + ex.qty
      BY <1>1, <1>2, <3>1, OpenIs DEF OpenShares
    <3>3. Holds(n, s) = OpenShares(n, s)
      BY <1>1, <2>4 DEF Holds
    <3> QED BY <2>1, <2>3, <2>4, <3>2, <3>3
  <2>5. CASE ex.side # "BUY"
    <3>1. n.lots[s] = m.lots[s]
      BY <2>5 DEF Taken
    <3>2. OpenShares(n, s) = OpenShares(m, s)
      BY <3>1 DEF OpenShares
    <3>3. Holds(n, s) = OpenShares(m, s) - Least(OpenShares(m, s), ex.qty)
      BY <1>1, <1>5, <2>5, <3>2 DEF Holds
    <3> QED BY <2>1, <2>3, <2>5, <3>3
  <2> QED BY <2>4, <2>5
<1>6. CASE ex.symbol # s
  <2>1. Of(E \ n.todo, s) = F
    BY <1>1, <1>6 DEF Of
  <2>2. n.lots[s] = m.lots[s]
    BY <1>6 DEF Taken
  <2>3. Holds(n, s) = OpenShares(m, s)
    BY <1>1, <1>6, <2>2 DEF Holds, OpenShares
  <2> QED BY <1>4, <2>1, <2>3
<1> QED BY <1>5, <1>6

\* and selling, leave what is open so.
LEMMA HoldingSold ==
  ASSUME NEW E, Timely(E), NEW m, Shape(E, m), NEW n, Shape(E, n), NEW q, Sold(m, n, q), Holding(E, m)
  PROVE  Holding(E, n)
<1>1. PICK s \in Symbols, lot \in Lots :
           /\ s = m.at.symbol /\ m.lots[s] \in Seq(Lots) /\ m.lots[s] # <<>> /\ lot = m.lots[s][1]
           /\ q \in Nat \ {0} /\ q <= lot.qty /\ q <= m.remaining
           /\ n.lots[s] = Without(m.lots[s], q)
           /\ \A t \in Symbols : t # s => n.lots[t] = m.lots[t]
  BY PairIs
<1> SUFFICES ASSUME NEW t \in Symbols PROVE Holds(n, t) = Holds(m, t)
  <2>1. n.todo = m.todo
    BY DEF Sold
  <2> QED BY <2>1 DEF Holding
<1>2. n.at = m.at /\ n.remaining = m.remaining - q /\ (q = m.remaining \/ q = lot.qty)
  BY <1>1 DEF Sold
<1>3. CASE t = s
  <2>1. OpenShares(m, s) \in Nat /\ OpenShares(n, s) \in Nat
    BY <1>1, ShapeIs, OpenIs DEF OpenShares
  <2>2. OpenShares(n, s) = OpenShares(m, s) - q
    BY <1>1, OpenSold DEF OpenShares
  <2>3. m.remaining \in Nat /\ m.remaining > 0
    BY <1>1, ShapeIs
  <2> QED BY <1>1, <1>2, <1>3, <2>1, <2>2, <2>3 DEF Holds, Least
<1>4. CASE t # s
  BY <1>1, <1>2, <1>4 DEF Holds, OpenShares
<1> QED BY <1>3, <1>4

-----------------------------------------------------------------------------
(* First in, first out *)

\* A lot is of a purchase that was taken, a pair of such a purchase and a later
\* sale; the execution at hand is the last that was taken.
Traced(E, m) ==
  /\ \A s \in Symbols : \A i \in 1..Len(m.lots[s]) :
       \E b \in E \ m.todo : b.side = "BUY" /\ b.symbol = s /\ b.at = m.lots[s][i].at
  /\ \A i \in 1..Len(m.pairs) : \E b, x \in E \ m.todo :
       /\ b.at = m.pairs[i].buy_at /\ x.at = m.pairs[i].sell_at /\ b.at < x.at
  /\ m.remaining > 0 => \A x \in E \ m.todo : x.at <= m.at.at

\* Lots are in order, pairs are in order, and no lot is older than what was sold.
InOrder(m) ==
  /\ \A s \in Symbols : \A i, j \in 1..Len(m.lots[s]) : i < j => m.lots[s][i].at <= m.lots[s][j].at
  /\ \A i, j \in 1..Len(m.pairs) : i < j =>
       /\ m.pairs[i].sell_at <= m.pairs[j].sell_at
       /\ m.pairs[i].symbol = m.pairs[j].symbol => m.pairs[i].buy_at <= m.pairs[j].buy_at
  /\ \A s \in Symbols : \A i \in 1..Len(m.pairs), j \in 1..Len(m.lots[s]) :
       m.pairs[i].symbol = s => m.pairs[i].buy_at <= m.lots[s][j].at

\* Lots left are lots there were.
LEMMA WithoutAt ==
  ASSUME NEW lots \in Seq(Lots), lots # <<>>, NEW q \in Nat \ {0}, q <= lots[1].qty
  PROVE  \E d \in {0, 1} : \A i \in 1..Len(Without(lots, q)) :
           i + d \in 1..Len(lots) /\ Without(lots, q)[i].at = lots[i + d].at
<1>1. PICK left : left = Without(lots, q)
  OBVIOUS
<1>2. Len(lots) \in Nat \ {0} /\ lots[1] \in Lots
  BY WithoutIs
<1>3. CASE q = lots[1].qty
  <2>1. Len(left) = Len(lots) - 1 /\ \A i \in 1..(Len(lots) - 1) : left[i] = lots[i + 1]
    BY <1>1, <1>3, WithoutIs
  <2>2. \A i \in 1..Len(left) : i + 1 \in 1..Len(lots) /\ left[i].at = lots[i + 1].at
    BY <1>2, <2>1
  <2> QED BY <1>1, <2>2
<1>4. CASE q # lots[1].qty
  <2>1. /\ Len(left) = Len(lots) /\ \A i \in 2..Len(lots) : left[i] = lots[i]
        /\ left[1] = [lots[1] EXCEPT !.qty = @ - q]
    BY <1>1, <1>4, WithoutIs
  <2>2. left[1].at = lots[1].at
    BY <1>2, <2>1 DEF Lots
  <2>3. \A i \in 1..Len(left) : i + 0 \in 1..Len(lots) /\ left[i].at = lots[i + 0].at
    <3> SUFFICES ASSUME NEW i \in 1..Len(left) PROVE i + 0 \in 1..Len(lots) /\ left[i].at = lots[i + 0].at
      OBVIOUS
    <3>1. i = 1 \/ i \in 2..Len(lots)
      BY <1>2, <2>1
    <3>2. i + 0 = i
      OBVIOUS
    <3> QED BY <2>1, <2>2, <3>1, <3>2
  <2> QED BY <1>1, <2>3
<1> QED BY <1>3, <1>4

\* What was taken stays taken,
LEMMA KnownTaken ==
  ASSUME NEW E, Timely(E), NEW m, Shape(E, m), NEW n, NEW ex, Taken(m, n, ex), ByTime(E, m), Traced(E, m)
  PROVE  Traced(E, n)
<1>1. /\ n.todo = m.todo \ {ex} /\ ex \in m.todo /\ ex \in E /\ ex \in Executions /\ n.at = ex /\ ex.at \in Int
      /\ n.pairs = m.pairs /\ ex \in E \ n.todo /\ \A x \in E \ m.todo : x \in E \ n.todo
  BY ShapeIs, ExecutionIs DEF Taken
<1>2. ASSUME NEW s \in Symbols, NEW i \in 1..Len(n.lots[s])
      PROVE  \E b \in E \ n.todo : b.side = "BUY" /\ b.symbol = s /\ b.at = n.lots[s][i].at
  <2>1. m.lots[s] \in Seq(Lots)
    BY ShapeIs
  <2>2. CASE s = ex.symbol /\ ex.side = "BUY"
    <3>1. n.lots[s] = Append(m.lots[s], ex)
      BY <2>2 DEF Taken
    <3>2. CASE i = Len(m.lots[s]) + 1
      <4>1. n.lots[s][i] = ex
        BY <2>1, <3>1, <3>2
      <4> QED BY <1>1, <2>2, <4>1
    <3>3. CASE i # Len(m.lots[s]) + 1
      <4>1. i \in 1..Len(m.lots[s]) /\ n.lots[s][i] = m.lots[s][i]
        BY <2>1, <3>1, <3>3
      <4>2. PICK b \in E \ m.todo : b.side = "BUY" /\ b.symbol = s /\ b.at = m.lots[s][i].at
        BY <4>1 DEF Traced
      <4> QED BY <1>1, <4>1, <4>2
    <3> QED BY <3>2, <3>3
  <2>3. CASE ~ (s = ex.symbol /\ ex.side = "BUY")
    <3>1. n.lots[s] = m.lots[s]
      BY <2>3 DEF Taken
    <3>2. PICK b \in E \ m.todo : b.side = "BUY" /\ b.symbol = s /\ b.at = m.lots[s][i].at
      BY <3>1 DEF Traced
    <3> QED BY <1>1, <3>1, <3>2
  <2> QED BY <2>2, <2>3
<1>3. ASSUME NEW i \in 1..Len(n.pairs)
      PROVE  \E b, x \in E \ n.todo : b.at = n.pairs[i].buy_at /\ x.at = n.pairs[i].sell_at /\ b.at < x.at
  <2>1. PICK b \in E \ m.todo, x \in E \ m.todo :
          b.at = m.pairs[i].buy_at /\ x.at = m.pairs[i].sell_at /\ b.at < x.at
    BY <1>1 DEF Traced
  <2> QED BY <1>1, <2>1
<1>4. \A x \in E \ n.todo : x.at <= n.at.at
  <2> SUFFICES ASSUME NEW x \in E \ n.todo PROVE x.at <= ex.at
    BY <1>1
  <2>1. x.at \in Int
    BY ShapeIs, ExecutionIs
  <2>2. x = ex \/ x \in E \ m.todo
    BY <1>1
  <2> QED BY <1>1, <2>1, <2>2 DEF ByTime
<1> QED BY <1>2, <1>3, <1>4 DEF Traced

\* and what is sold was known.
LEMMA KnownSold ==
  ASSUME NEW E, Timely(E), NEW m, Shape(E, m), NEW n, NEW q, Sold(m, n, q), Traced(E, m)
  PROVE  Traced(E, n)
<1>1. PICK s \in Symbols, lot \in Lots, p \in Trades :
           /\ s = m.at.symbol /\ m.lots[s] \in Seq(Lots) /\ m.lots[s] # <<>> /\ lot = m.lots[s][1]
           /\ q \in Nat \ {0} /\ q <= lot.qty /\ q <= m.remaining
           /\ n.pairs = Append(m.pairs, p) /\ p.buy_at = lot.at /\ p.sell_at = m.at.at
           /\ m.at \in E \ m.todo /\ m.at \in Executions /\ m.at.side = "SELL"
           /\ n.lots[s] = Without(m.lots[s], q)
           /\ \A t \in Symbols : t # s => n.lots[t] = m.lots[t]
  BY PairIs
<1>2. n.todo = m.todo /\ n.at = m.at /\ m.remaining > 0 /\ m.pairs \in Seq(Trades)
  BY ShapeIs DEF Sold
<1>6. PICK d \in {0, 1} : \A i \in 1..Len(n.lots[s]) :
                             i + d \in 1..Len(m.lots[s]) /\ n.lots[s][i].at = m.lots[s][i + d].at
  <2>1. PICK lots : lots = m.lots[s]
    OBVIOUS
  <2>2. \E d \in {0, 1} : \A k \in 1..Len(Without(lots, q)) :
          k + d \in 1..Len(lots) /\ Without(lots, q)[k].at = lots[k + d].at
    <3>1. lots \in Seq(Lots) /\ lots # <<>> /\ q \in Nat \ {0} /\ q <= lots[1].qty
      BY <1>1, <2>1
    <3> QED BY <3>1, WithoutAt
  <2>3. n.lots[s] = Without(lots, q)
    BY <1>1, <2>1
  <2> QED BY <2>1, <2>2, <2>3
<1>3. ASSUME NEW t \in Symbols, NEW i \in 1..Len(n.lots[t])
      PROVE  \E b \in E \ n.todo : b.side = "BUY" /\ b.symbol = t /\ b.at = n.lots[t][i].at
  <2>1. CASE t = s
    <3>2. PICK j \in 1..Len(m.lots[s]) : n.lots[s][i].at = m.lots[s][j].at
      BY <1>6, <2>1
    <3>3. \E b \in E \ m.todo : b.side = "BUY" /\ b.symbol = s /\ b.at = m.lots[s][j].at
      BY DEF Traced
    <3> QED BY <1>2, <2>1, <3>2, <3>3
  <2>2. CASE t # s
    <3>1. n.lots[t] = m.lots[t]
      BY <1>1, <2>2
    <3> QED BY <1>2, <3>1 DEF Traced
  <2> QED BY <2>1, <2>2
<1>4. ASSUME NEW i \in 1..Len(n.pairs)
      PROVE  \E b, x \in E \ n.todo : b.at = n.pairs[i].buy_at /\ x.at = n.pairs[i].sell_at /\ b.at < x.at
  <2>1. CASE i = Len(m.pairs) + 1
    <3>1. n.pairs[i] = p
      BY <1>1, <1>2, <2>1
    <3>2. 1 \in 1..Len(m.lots[s])
      BY <1>1
    <3>3. PICK b \in E \ m.todo : b.side = "BUY" /\ b.symbol = s /\ b.at = m.lots[s][1].at
      BY <3>2 DEF Traced
    <3>4. b.at <= m.at.at
      BY <1>2, <3>3 DEF Traced
    <3>5. b.at # m.at.at
      BY <1>1, <3>3 DEF Timely
    <3>6. b.at \in Int /\ m.at.at \in Int
      BY <1>1, <3>3, ShapeIs, ExecutionIs
    <3>7. b.at < m.at.at
      BY <3>4, <3>5, <3>6
    <3> QED BY <1>1, <1>2, <3>1, <3>3, <3>7
  <2>2. CASE i # Len(m.pairs) + 1
    <3>1. i \in 1..Len(m.pairs) /\ n.pairs[i] = m.pairs[i]
      BY <1>1, <1>2, <2>2
    <3> QED BY <1>2, <3>1 DEF Traced
  <2> QED BY <2>1, <2>2
<1>5. \A x \in E \ n.todo : x.at <= n.at.at
  BY <1>2 DEF Traced
<1> QED BY <1>3, <1>4, <1>5 DEF Traced

\* A lot that is added is newer than all,
LEMMA InOrderTaken ==
  ASSUME NEW E, Timely(E), NEW m, Shape(E, m), NEW n, NEW ex, Taken(m, n, ex), ByTime(E, m),
         Traced(E, m), InOrder(m)
  PROVE  InOrder(n)
<1>1. ex \in m.todo /\ ex \in Executions /\ ex.at \in Int /\ n.pairs = m.pairs
  BY ShapeIs, ExecutionIs DEF Taken
<1>2. \A b \in E \ m.todo : b.at \in Int /\ b.at <= ex.at
  <2> SUFFICES ASSUME NEW b \in E \ m.todo PROVE b.at \in Int /\ b.at <= ex.at
    OBVIOUS
  <2>1. b.at \in Int /\ b.at < ex.at
    BY <1>1, ShapeIs, ExecutionIs DEF ByTime
  <2> QED BY <1>1, <2>1
<1>3. \A s \in Symbols : \A i \in 1..Len(m.lots[s]) : m.lots[s][i].at <= ex.at
  BY <1>2 DEF Traced
<1>4. \A i \in 1..Len(m.pairs) : m.pairs[i].buy_at <= ex.at
  <2> SUFFICES ASSUME NEW i \in 1..Len(m.pairs) PROVE m.pairs[i].buy_at <= ex.at
    OBVIOUS
  <2>1. PICK b \in E \ m.todo : b.at = m.pairs[i].buy_at
    BY DEF Traced
  <2> QED BY <1>2, <2>1
<1>5. \A s \in Symbols : m.lots[s] \in Seq(Lots)
  BY ShapeIs
<1>6. ASSUME NEW s \in Symbols
      PROVE  \A i \in 1..Len(n.lots[s]) : \/ i \in 1..Len(m.lots[s]) /\ n.lots[s][i] = m.lots[s][i]
                                          \/ i = Len(m.lots[s]) + 1 /\ n.lots[s][i] = ex
  <2>1. CASE s = ex.symbol /\ ex.side = "BUY"
    <3>1. n.lots[s] = Append(m.lots[s], ex)
      BY <2>1 DEF Taken
    <3> QED BY <1>5, <3>1
  <2>2. CASE ~ (s = ex.symbol /\ ex.side = "BUY")
    <3>1. n.lots[s] = m.lots[s]
      BY <2>2 DEF Taken
    <3> QED BY <3>1
  <2> QED BY <2>1, <2>2
<1>7. ASSUME NEW s \in Symbols, NEW i \in 1..Len(n.lots[s]), NEW j \in 1..Len(n.lots[s]), i < j
      PROVE  n.lots[s][i].at <= n.lots[s][j].at
  <2>1. Len(m.lots[s]) \in Nat
    BY <1>5
  <2>2. i \in 1..Len(m.lots[s]) /\ n.lots[s][i] = m.lots[s][i]
    <3>1. i # Len(m.lots[s]) + 1
      BY <1>6, <1>7, <2>1
    <3> QED BY <1>6, <3>1
  <2>3. CASE j \in 1..Len(m.lots[s]) /\ n.lots[s][j] = m.lots[s][j]
    BY <1>7, <2>2, <2>3 DEF InOrder
  <2>4. CASE n.lots[s][j] = ex
    BY <1>3, <2>2, <2>4
  <2> QED BY <1>6, <2>3, <2>4
<1>8. ASSUME NEW s \in Symbols, NEW i \in 1..Len(n.pairs), NEW j \in 1..Len(n.lots[s]), n.pairs[i].symbol = s
      PROVE  n.pairs[i].buy_at <= n.lots[s][j].at
  <2>1. CASE j \in 1..Len(m.lots[s]) /\ n.lots[s][j] = m.lots[s][j]
    BY <1>1, <1>8, <2>1 DEF InOrder
  <2>2. CASE n.lots[s][j] = ex
    BY <1>1, <1>4, <2>2
  <2> QED BY <1>6, <2>1, <2>2
<1> QED BY <1>1, <1>7, <1>8 DEF InOrder

\* and a pair that is added is of the oldest.
LEMMA InOrderSold ==
  ASSUME NEW E, Timely(E), NEW m, Shape(E, m), NEW n, NEW q, Sold(m, n, q), Traced(E, m), InOrder(m)
  PROVE  InOrder(n)
<1>1. PICK s \in Symbols, lot \in Lots, p \in Trades :
           /\ s = m.at.symbol /\ m.lots[s] \in Seq(Lots) /\ m.lots[s] # <<>> /\ lot = m.lots[s][1]
           /\ q \in Nat \ {0} /\ q <= lot.qty
           /\ n.pairs = Append(m.pairs, p) /\ p.symbol = s /\ p.buy_at = lot.at /\ p.sell_at = m.at.at
           /\ m.at \in E \ m.todo /\ m.at \in Executions
           /\ n.lots[s] = Without(m.lots[s], q)
           /\ \A t \in Symbols : t # s => n.lots[t] = m.lots[t]
  BY PairIs
<1>2. m.pairs \in Seq(Trades) /\ m.remaining > 0 /\ Len(m.lots[s]) \in Nat \ {0} /\ 1 \in 1..Len(m.lots[s])
  BY <1>1, ShapeIs DEF Sold
<1>3. PICK d \in {0, 1} : \A i \in 1..Len(n.lots[s]) :
                             i + d \in 1..Len(m.lots[s]) /\ n.lots[s][i].at = m.lots[s][i + d].at
  <2>1. PICK lots : lots = m.lots[s]
    OBVIOUS
  <2>2. \E d \in {0, 1} : \A k \in 1..Len(Without(lots, q)) :
          k + d \in 1..Len(lots) /\ Without(lots, q)[k].at = lots[k + d].at
    <3>1. lots \in Seq(Lots) /\ lots # <<>> /\ q \in Nat \ {0} /\ q <= lots[1].qty
      BY <1>1, <2>1
    <3> QED BY <3>1, WithoutAt
  <2>3. n.lots[s] = Without(lots, q)
    BY <1>1, <2>1
  <2> QED BY <2>1, <2>2, <2>3
<1>4. \A i \in 1..Len(n.pairs) : \/ i \in 1..Len(m.pairs) /\ n.pairs[i] = m.pairs[i]
                                 \/ i = Len(m.pairs) + 1 /\ n.pairs[i] = p
  BY <1>1, <1>2
<1>5. \A i \in 1..Len(m.pairs) : m.pairs[i].sell_at <= p.sell_at
  <2> SUFFICES ASSUME NEW i \in 1..Len(m.pairs) PROVE m.pairs[i].sell_at <= p.sell_at
    OBVIOUS
  <2>1. PICK x \in E \ m.todo : x.at = m.pairs[i].sell_at
    BY DEF Traced
  <2> QED BY <1>1, <1>2, <2>1 DEF Traced
<1>6. \A i \in 1..Len(m.pairs) : m.pairs[i].symbol = s => m.pairs[i].buy_at <= p.buy_at
  BY <1>1, <1>2 DEF InOrder
<1>7. \A i \in 1..Len(n.lots[s]) : p.buy_at <= n.lots[s][i].at
  <2> SUFFICES ASSUME NEW i \in 1..Len(n.lots[s]) PROVE lot.at <= n.lots[s][i].at
    BY <1>1
  <2>1. PICK j \in 1..Len(m.lots[s]) : n.lots[s][i].at = m.lots[s][j].at
    BY <1>3
  <2>2. lot.at \in Int
    BY <1>1, HistoryConstants DEF Lots
  <2>3. CASE j = 1
    BY <1>1, <2>1, <2>2, <2>3
  <2>4. CASE j # 1
    <3>1. 1 < j
      BY <2>4
    <3> QED BY <1>1, <1>2, <2>1, <3>1 DEF InOrder
  <2> QED BY <2>3, <2>4
<1>8. ASSUME NEW t \in Symbols, NEW i \in 1..Len(n.lots[t]), NEW j \in 1..Len(n.lots[t]), i < j
      PROVE  n.lots[t][i].at <= n.lots[t][j].at
  <2>1. CASE t = s
    <3>1. PICK a, b : a = i + d /\ b = j + d
      OBVIOUS
    <3>2. a \in 1..Len(m.lots[s]) /\ b \in 1..Len(m.lots[s]) /\ a < b
      BY <1>3, <1>8, <2>1, <3>1
    <3>3. m.lots[s][a].at <= m.lots[s][b].at
      BY <3>2 DEF InOrder
    <3> QED BY <1>3, <2>1, <3>1, <3>3
  <2>2. CASE t # s
    BY <1>1, <1>8, <2>2 DEF InOrder
  <2> QED BY <2>1, <2>2
<1>9. ASSUME NEW i \in 1..Len(n.pairs), NEW j \in 1..Len(n.pairs), i < j
      PROVE  /\ n.pairs[i].sell_at <= n.pairs[j].sell_at
             /\ n.pairs[i].symbol = n.pairs[j].symbol => n.pairs[i].buy_at <= n.pairs[j].buy_at
  <2>1. Len(m.pairs) \in Nat
    BY <1>2
  <2>2. i \in 1..Len(m.pairs) /\ n.pairs[i] = m.pairs[i]
    <3>1. i # Len(m.pairs) + 1
      BY <1>4, <1>9, <2>1
    <3> QED BY <1>4, <3>1
  <2>3. CASE j \in 1..Len(m.pairs) /\ n.pairs[j] = m.pairs[j]
    BY <1>9, <2>2, <2>3 DEF InOrder
  <2>4. CASE n.pairs[j] = p
    BY <1>1, <1>5, <1>6, <2>2, <2>4
  <2> QED BY <1>4, <2>3, <2>4
<1>10. ASSUME NEW t \in Symbols, NEW i \in 1..Len(n.pairs), NEW j \in 1..Len(n.lots[t]), n.pairs[i].symbol = t
       PROVE  n.pairs[i].buy_at <= n.lots[t][j].at
  <2>1. CASE n.pairs[i] = p
    BY <1>1, <1>7, <1>10, <2>1
  <2>2. CASE i \in 1..Len(m.pairs) /\ n.pairs[i] = m.pairs[i]
    <3>1. CASE t = s
      <4>1. PICK k \in 1..Len(m.lots[s]) : n.lots[s][j].at = m.lots[s][k].at
        BY <1>3, <3>1
      <4> QED BY <1>10, <2>2, <3>1, <4>1 DEF InOrder
    <3>2. CASE t # s
      BY <1>1, <1>10, <2>2, <3>2 DEF InOrder
    <3> QED BY <3>1, <3>2
  <2> QED BY <1>4, <2>1, <2>2
<1> QED BY <1>8, <1>9, <1>10 DEF InOrder

-----------------------------------------------------------------------------
(* No execution has more shares in pairs than it has *)

\* pairs, and lots, of the execution at t
TradeAt(t) == [p \in Trades |-> IF t \in {p.buy_at, p.sell_at} THEN p.qty ELSE 0]
LotAt(t) == [l \in Lots |-> IF l.at = t THEN l.qty ELSE 0]

Involved(m, x) == PairSum(TradeAt(x.at), m.pairs)

\* shares of x that may still come into pairs
Unserved(m, x) ==
  (IF x \in m.todo THEN x.qty ELSE 0)
    + (IF x.side = "BUY" THEN LotSum(LotAt(x.at), m.lots[x.symbol])
       ELSE IF m.remaining > 0 /\ m.at = x THEN m.remaining ELSE 0)

Within(E, m) == \A x \in E : Involved(m, x) + Unserved(m, x) <= x.qty

\* These are weights.
LEMMA AtWeights ==
  ASSUME NEW t
  PROVE  TradeAt(t) \in [Trades -> Int] /\ LotAt(t) \in [Lots -> Int]
<1>1. \A l \in Lots : l.qty \in Int
  BY DEF Lots
<1>2. \A p \in Trades : p.qty \in Int
  BY DEF Trades
<1>3. TradeAt(t) \in [Trades -> Int]
  BY <1>2 DEF TradeAt
<1>4. LotAt(t) \in [Lots -> Int]
  BY <1>1 DEF LotAt
<1> QED BY <1>3, <1>4

\* Shares sold of the first lot are those of its purchase.
LEMMA LotAtSold ==
  ASSUME NEW lots \in Seq(Lots), lots # <<>>, NEW q \in Nat \ {0}, q <= lots[1].qty, NEW t
  PROVE  /\ LotSum(LotAt(t), lots) \in Int
         /\ LotSum(LotAt(t), Without(lots, q)) =
              LotSum(LotAt(t), lots) - (IF lots[1].at = t THEN q ELSE 0)
<1>1. PICK W : W = LotAt(t)
  OBVIOUS
<1>2. W \in [Lots -> Int]
  BY <1>1, AtWeights
<1>3. PICK lot : lot = lots[1]
  OBVIOUS
<1>4. lot \in Lots /\ lot.qty \in Nat \ {0}
  BY <1>3, WithoutIs
<1>5. LotSum(W, lots) \in Int
  BY <1>2, <1>4, LotSumAppend
<1>6. LotSum(W, Without(lots, q)) =
           LotSum(W, lots) - W[lot] + (IF q = lot.qty THEN 0 ELSE W[[lot EXCEPT !.qty = @ - q]])
  BY <1>2, <1>3, LotSumSold
<1>7. W[lot] = IF lot.at = t THEN lot.qty ELSE 0
  BY <1>1, <1>4 DEF LotAt
<1>8. ASSUME q # lot.qty
      PROVE  W[[lot EXCEPT !.qty = @ - q]] = IF lot.at = t THEN lot.qty - q ELSE 0
  <2>1. lot.qty - q \in Nat \ {0}
    BY <1>3, <1>4, <1>8
  <2>2. [lot EXCEPT !.qty = @ - q] \in Lots
    BY <1>4, <2>1 DEF Lots
  <2>3. [lot EXCEPT !.qty = @ - q].qty = lot.qty - q /\ [lot EXCEPT !.qty = @ - q].at = lot.at
    BY <1>4 DEF Lots
  <2> QED BY <1>1, <2>2, <2>3 DEF LotAt
<1> QED BY <1>1, <1>3, <1>4, <1>5, <1>6, <1>7, <1>8

\* What is unserved is not negative, nor are the shares in pairs.
LEMMA UnservedTyped ==
  ASSUME NEW E, Timely(E), NEW m, Shape(E, m), NEW x \in E
  PROVE  /\ x.qty \in Nat \ {0} /\ Involved(m, x) \in Int /\ m.remaining \in Nat
         /\ LotSum(LotAt(x.at), m.lots[x.symbol]) \in Int
<1>1. x \in Executions /\ x \in Lots /\ x.qty \in Nat \ {0} /\ x.symbol \in Symbols
  BY ShapeIs, ExecutionIs
<1>2. PICK lots : lots = m.lots[x.symbol]
  OBVIOUS
<1>3. lots \in Seq(Lots)
  BY <1>1, <1>2, ShapeIs
<1>4. PICK W : W = LotAt(x.at)
  OBVIOUS
<1>5. W \in [Lots -> Int]
  BY <1>4, AtWeights
<1>6. LotSum(W, lots) \in Int
  BY <1>1, <1>3, <1>5, LotSumAppend
<1>7. Involved(m, x) \in Int
  BY AtWeights, ShapeIs, PairSumTyped DEF Involved
<1> QED BY <1>1, <1>2, <1>4, <1>6, <1>7, ShapeIs

\* Taking an execution,
LEMMA WithinTaken ==
  ASSUME NEW E, Timely(E), NEW m, Shape(E, m), NEW n, NEW ex, Taken(m, n, ex), Within(E, m)
  PROVE  Within(E, n)
<1> SUFFICES ASSUME NEW x \in E PROVE Involved(n, x) + Unserved(n, x) <= x.qty
  BY DEF Within
<1>1. /\ n.todo = m.todo \ {ex} /\ ex \in m.todo /\ ex \in E /\ ex \in Executions /\ ex \in Lots /\ n.at = ex
      /\ n.pairs = m.pairs /\ n.remaining = IF ex.side = "BUY" THEN 0 ELSE ex.qty
  BY ShapeIs, ExecutionIs DEF Taken
<1>2. /\ x.qty \in Nat \ {0} /\ Involved(m, x) \in Int /\ m.remaining \in Nat /\ ex.qty \in Nat \ {0}
      /\ LotSum(LotAt(x.at), m.lots[x.symbol]) \in Int
  BY <1>1, UnservedTyped
<1>3. x \in Executions /\ x.symbol \in Symbols /\ x.side \in {"BUY", "SELL"}
  BY ShapeIs, ExecutionIs
<1>4. Involved(n, x) = Involved(m, x)
  BY <1>1 DEF Involved
<1>5. Involved(m, x) + Unserved(m, x) <= x.qty
  BY DEF Within
<1>6. CASE x.side = "BUY"
  <2>1. Unserved(m, x) = (IF x \in m.todo THEN x.qty ELSE 0) + LotSum(LotAt(x.at), m.lots[x.symbol])
    BY <1>6 DEF Unserved
  <2>2. Unserved(n, x) = (IF x \in n.todo THEN x.qty ELSE 0) + LotSum(LotAt(x.at), n.lots[x.symbol])
    BY <1>6 DEF Unserved
  <2>3. LotSum(LotAt(x.at), n.lots[x.symbol]) =
          LotSum(LotAt(x.at), m.lots[x.symbol]) + (IF x = ex THEN x.qty ELSE 0)
    <3>1. CASE x.symbol = ex.symbol /\ ex.side = "BUY"
      <4>1. PICK lots : lots = m.lots[x.symbol]
        OBVIOUS
      <4>2. lots \in Seq(Lots) /\ n.lots[x.symbol] = Append(lots, ex)
        BY <1>3, <3>1, <4>1, ShapeIs DEF Taken
      <4>3. PICK W : W = LotAt(x.at)
        OBVIOUS
      <4>4. W \in [Lots -> Int]
        BY <4>3, AtWeights
      <4>5. LotSum(W, Append(lots, ex)) = LotSum(W, lots) + W[ex]
        BY <1>1, <4>2, <4>4, LotSumAppend
      <4>6. W[ex] = IF ex.at = x.at THEN ex.qty ELSE 0
        BY <1>1, <4>3 DEF LotAt
      <4>7. ex.at = x.at <=> x = ex
        BY <1>1 DEF Timely
      <4> QED BY <4>1, <4>2, <4>3, <4>5, <4>6, <4>7
    <3>2. CASE ~ (x.symbol = ex.symbol /\ ex.side = "BUY")
      <4>1. n.lots[x.symbol] = m.lots[x.symbol] /\ x # ex
        BY <1>3, <1>6, <3>2 DEF Taken
      <4> QED BY <1>2, <4>1
    <3> QED BY <3>1, <3>2
  <2>4. x \in n.todo <=> x \in m.todo /\ x # ex
    BY <1>1
  <2> QED BY <1>1, <1>2, <1>4, <1>5, <2>1, <2>2, <2>3, <2>4
<1>7. CASE x.side # "BUY"
  <2>1. Unserved(m, x) = (IF x \in m.todo THEN x.qty ELSE 0)
                           + IF m.remaining > 0 /\ m.at = x THEN m.remaining ELSE 0
    BY <1>7 DEF Unserved
  <2>2. Unserved(n, x) = (IF x \in n.todo THEN x.qty ELSE 0)
                           + IF n.remaining > 0 /\ n.at = x THEN n.remaining ELSE 0
    BY <1>7 DEF Unserved
  <2>3. CASE x = ex
    BY <1>1, <1>2, <1>4, <1>5, <1>7, <2>1, <2>2, <2>3
  <2>4. CASE x # ex
    BY <1>1, <1>2, <1>4, <1>5, <2>1, <2>2, <2>4
  <2> QED BY <2>3, <2>4
<1> QED BY <1>6, <1>7

\* and selling shares of one lot to one sale, keep it so.
LEMMA WithinSold ==
  ASSUME NEW E, Timely(E), NEW m, Shape(E, m), NEW n, NEW q, Sold(m, n, q), Traced(E, m), Within(E, m)
  PROVE  Within(E, n)
<1>1. PICK s \in Symbols, lot \in Lots, p \in Trades :
           /\ s = m.at.symbol /\ m.lots[s] \in Seq(Lots) /\ m.lots[s] # <<>> /\ lot = m.lots[s][1]
           /\ q \in Nat \ {0} /\ q <= lot.qty /\ q <= m.remaining
           /\ n.pairs = Append(m.pairs, p) /\ p.buy_at = lot.at /\ p.sell_at = m.at.at /\ p.qty = q
           /\ m.at \in E \ m.todo /\ m.at \in Executions /\ m.at.side = "SELL"
           /\ n.lots[s] = Without(m.lots[s], q)
           /\ \A t \in Symbols : t # s => n.lots[t] = m.lots[t]
  BY PairIs
<1>2. n.todo = m.todo /\ n.at = m.at /\ n.remaining = m.remaining - q /\ m.remaining > 0
  BY DEF Sold
<1>3. PICK b \in E \ m.todo : b.side = "BUY" /\ b.symbol = s /\ b.at = lot.at
  <2>1. 1 \in 1..Len(m.lots[s])
    BY <1>1
  <2> QED BY <1>1, <2>1 DEF Traced
<1> SUFFICES ASSUME NEW x \in E PROVE Involved(n, x) + Unserved(n, x) <= x.qty
  BY DEF Within
<1>4. /\ x.qty \in Nat \ {0} /\ Involved(m, x) \in Int /\ m.remaining \in Nat
      /\ LotSum(LotAt(x.at), m.lots[x.symbol]) \in Int
  BY UnservedTyped
<1>5. x \in Executions /\ x.symbol \in Symbols /\ x.side \in {"BUY", "SELL"}
  BY ShapeIs, ExecutionIs
<1>6. Involved(m, x) + Unserved(m, x) <= x.qty
  BY DEF Within
<1>7. Involved(n, x) = Involved(m, x) + (IF x = b \/ x = m.at THEN q ELSE 0)
  <2>1. PICK W, ps : W = TradeAt(x.at) /\ ps = m.pairs
    OBVIOUS
  <2>2. W \in [Trades -> Int] /\ ps \in Seq(Trades)
    BY <2>1, ShapeIs, AtWeights
  <2>3. PairSum(W, Append(ps, p)) = PairSum(W, ps) + W[p]
    BY <2>2, PairSumAppend
  <2>4. W[p] = IF x.at \in {lot.at, m.at.at} THEN q ELSE 0
    BY <1>1, <2>1 DEF TradeAt
  <2>5. (x.at = lot.at <=> x = b) /\ (x.at = m.at.at <=> x = m.at)
    BY <1>1, <1>3 DEF Timely
  <2> QED BY <1>1, <2>1, <2>3, <2>4, <2>5 DEF Involved
<1>8. CASE x.side = "BUY"
  <2>1. Unserved(m, x) = (IF x \in m.todo THEN x.qty ELSE 0) + LotSum(LotAt(x.at), m.lots[x.symbol])
    BY <1>8 DEF Unserved
  <2>2. Unserved(n, x) = (IF x \in m.todo THEN x.qty ELSE 0) + LotSum(LotAt(x.at), n.lots[x.symbol])
    BY <1>2, <1>8 DEF Unserved
  <2>3. LotSum(LotAt(x.at), n.lots[x.symbol]) =
          LotSum(LotAt(x.at), m.lots[x.symbol]) - (IF x = b THEN q ELSE 0)
    <3>1. CASE x.symbol = s
      <4>1. PICK lots : lots = m.lots[s]
        OBVIOUS
      <4>2. lots \in Seq(Lots) /\ lots # <<>> /\ q \in Nat \ {0} /\ q <= lots[1].qty
        BY <1>1, <4>1
      <4>3. PICK t : t = x.at
        OBVIOUS
      <4>4. LotSum(LotAt(t), Without(lots, q)) =
              LotSum(LotAt(t), lots) - (IF lots[1].at = t THEN q ELSE 0)
        BY <4>2, LotAtSold
      <4>5. n.lots[x.symbol] = Without(lots, q) /\ m.lots[x.symbol] = lots /\ lots[1].at = b.at
        BY <1>1, <1>3, <3>1, <4>1
      <4>6. x.at = b.at <=> x = b
        BY <1>3 DEF Timely
      <4> QED BY <4>3, <4>4, <4>5, <4>6
    <3>2. CASE x.symbol # s
      <4>1. n.lots[x.symbol] = m.lots[x.symbol] /\ x # b
        BY <1>1, <1>3, <1>5, <3>2
      <4> QED BY <1>4, <4>1
    <3> QED BY <3>1, <3>2
  <2>4. x # m.at
    BY <1>1, <1>8
  <2> QED BY <1>1, <1>4, <1>6, <1>7, <2>1, <2>2, <2>3, <2>4
<1>9. CASE x.side # "BUY"
  <2>1. Unserved(m, x) = (IF x \in m.todo THEN x.qty ELSE 0)
                           + IF m.remaining > 0 /\ m.at = x THEN m.remaining ELSE 0
    BY <1>9 DEF Unserved
  <2>2. Unserved(n, x) = (IF x \in m.todo THEN x.qty ELSE 0)
                           + IF m.remaining - q > 0 /\ m.at = x THEN m.remaining - q ELSE 0
    BY <1>2, <1>9 DEF Unserved
  <2>3. x # b
    BY <1>3, <1>9
  <2> QED BY <1>1, <1>2, <1>4, <1>6, <1>7, <2>1, <2>2, <2>3
<1> QED BY <1>8, <1>9

-----------------------------------------------------------------------------
(* What the trades gain *)

SoldOf(s) == [x \in Executions |-> IF x.side = "SELL" /\ x.symbol = s THEN x.qty ELSE 0]
Cash(s) == [x \in Executions |-> IF x.symbol # s THEN 0
                                 ELSE IF x.side = "SELL" THEN x.qty * x.price ELSE 0 - x.qty * x.price]
LotCost == [l \in Lots |-> l.qty * l.price]
TradeGain(s) == [p \in Trades |-> IF p.symbol = s THEN Gain(p) ELSE 0]

\* what remains of the sale, and what it brings
Rest(m, s) == IF m.remaining > 0 /\ m.at.symbol = s THEN m.remaining ELSE 0
RestCash(m, s) == IF m.remaining > 0 /\ m.at.symbol = s THEN m.remaining * m.at.price ELSE 0

\* Shares that were sold without a lot, and the money of these.
Short(E, m, s) == SumOver(SoldOf(s), E) - SumOver(SoldOf(s), m.todo) - Rest(m, s)
                    - PairSum(TradeQty(s), m.pairs)
ShortCash(E, m, s) == SumOver(Cash(s), E) - SumOver(Cash(s), m.todo) - RestCash(m, s)
                        - PairSum(TradeGain(s), m.pairs) + LotSum(LotCost, m.lots[s])

\* When none were, the trades gained the money that the account made.
Paid(E, m) == \A s \in Symbols : /\ Short(E, m, s) \in Nat
                                 /\ Short(E, m, s) = 0 => ShortCash(E, m, s) = 0

\* Products of differences.
LEMMA Product ==
  ASSUME NEW a \in Int, NEW b \in Int, NEW c \in Int
  PROVE  /\ (a - b) * c = a * c - b * c /\ c * (a - b) = c * a - c * b
         /\ a * c \in Int /\ b * c \in Int /\ a * c = c * a /\ b * c = c * b
OBVIOUS

\* A price is a number.
LEMMA PricesAre ==
  ASSUME NEW c \in Prices
  PROVE  c \in Int
BY HistoryConstants

\* What a trade gains.
LEMMA GainIs ==
  ASSUME NEW p \in Trades
  PROVE  Gain(p) = p.qty * p.sell_price - p.qty * p.buy_price /\ Gain(p) \in Int
<1>1. p.qty \in Int /\ p.sell_price \in Int /\ p.buy_price \in Int
  <2>1. p.qty \in Nat /\ p.sell_price \in Prices /\ p.buy_price \in Prices
    BY DEF Trades
  <2> QED BY <2>1, PricesAre
<1> QED BY <1>1, Product DEF Gain

\* These are weights.
LEMMA CashWeights ==
  ASSUME NEW s
  PROVE  /\ SoldOf(s) \in [Executions -> Int] /\ Cash(s) \in [Executions -> Int]
         /\ LotCost \in [Lots -> Int] /\ TradeGain(s) \in [Trades -> Int]
<1>1. \A x \in Executions : x.qty \in Int /\ x.qty * x.price \in Int /\ 0 - x.qty * x.price \in Int
  <2> SUFFICES ASSUME NEW x \in Executions
        PROVE x.qty \in Int /\ x.qty * x.price \in Int /\ 0 - x.qty * x.price \in Int
    OBVIOUS
  <2>1. x.qty \in Int /\ x.price \in Int
    BY ExecutionIs
  <2>2. x.qty * x.price \in Int
    BY <2>1
  <2> QED BY <2>1, <2>2
<1>2. \A l \in Lots : l.qty * l.price \in Int
  <2> SUFFICES ASSUME NEW l \in Lots PROVE l.qty * l.price \in Int
    OBVIOUS
  <2>1. l.qty \in Int /\ l.price \in Int
    <3>1. l.qty \in Nat /\ l.price \in Prices
      BY DEF Lots
    <3> QED BY <3>1, PricesAre
  <2> QED BY <2>1
<1>3. SoldOf(s) \in [Executions -> Int]
  BY <1>1 DEF SoldOf
<1>4. Cash(s) \in [Executions -> Int]
  BY <1>1 DEF Cash
<1>5. LotCost \in [Lots -> Int]
  BY <1>2 DEF LotCost
<1>6. TradeGain(s) \in [Trades -> Int]
  BY GainIs DEF TradeGain
<1> QED BY <1>3, <1>4, <1>5, <1>6

\* The cost of what is left of the lots.
LEMMA LotCostSold ==
  ASSUME NEW lots \in Seq(Lots), lots # <<>>, NEW q \in Nat \ {0}, q <= lots[1].qty
  PROVE  /\ LotSum(LotCost, lots) \in Int
         /\ LotSum(LotCost, Without(lots, q)) = LotSum(LotCost, lots) - q * lots[1].price
<1>1. PICK W : W = LotCost
  OBVIOUS
<1>2. W \in [Lots -> Int]
  BY <1>1, CashWeights
<1>3. PICK lot : lot = lots[1]
  OBVIOUS
<1>4. lot \in Lots /\ lot.qty \in Nat \ {0} /\ lot.price \in Int
  <2>1. lot \in Lots /\ lot.qty \in Nat \ {0}
    BY <1>3, WithoutIs
  <2>2. lot.price \in Prices
    BY <2>1 DEF Lots
  <2> QED BY <2>1, <2>2, PricesAre
<1>5. LotSum(W, lots) \in Int
  BY <1>2, <1>4, LotSumAppend
<1>6. LotSum(W, Without(lots, q)) =
           LotSum(W, lots) - W[lot] + (IF q = lot.qty THEN 0 ELSE W[[lot EXCEPT !.qty = @ - q]])
  BY <1>2, <1>3, LotSumSold
<1>7. W[lot] = lot.qty * lot.price
  BY <1>1, <1>4 DEF LotCost
<1>8. (lot.qty - q) * lot.price = lot.qty * lot.price - q * lot.price
      /\ lot.qty * lot.price \in Int /\ q * lot.price \in Int
  BY <1>4, Product
<1>9. ASSUME q # lot.qty
      PROVE  W[[lot EXCEPT !.qty = @ - q]] = (lot.qty - q) * lot.price
  <2>1. lot.qty - q \in Nat \ {0}
    BY <1>3, <1>4, <1>9
  <2>2. [lot EXCEPT !.qty = @ - q] \in Lots
    BY <1>4, <2>1 DEF Lots
  <2>3. [lot EXCEPT !.qty = @ - q].qty = lot.qty - q /\ [lot EXCEPT !.qty = @ - q].price = lot.price
    BY <1>4 DEF Lots
  <2> QED BY <1>1, <2>2, <2>3 DEF LotCost
<1>10. PICK a, b, c : a = lot.qty * lot.price /\ b = q * lot.price /\ c = (lot.qty - q) * lot.price
  OBVIOUS
<1>11. CASE q = lot.qty
  BY <1>1, <1>3, <1>5, <1>6, <1>7, <1>8, <1>11
<1>12. CASE q # lot.qty
  BY <1>1, <1>3, <1>5, <1>6, <1>7, <1>8, <1>9, <1>10, <1>12
<1> QED BY <1>11, <1>12

\* All of these sums are numbers.
LEMMA PaidTyped ==
  ASSUME NEW E, Timely(E), NEW m, Shape(E, m), NEW s \in Symbols
  PROVE  /\ SumOver(SoldOf(s), E) \in Int /\ SumOver(SoldOf(s), m.todo) \in Int
         /\ SumOver(Cash(s), E) \in Int /\ SumOver(Cash(s), m.todo) \in Int
         /\ PairSum(TradeQty(s), m.pairs) \in Int /\ PairSum(TradeGain(s), m.pairs) \in Int
         /\ LotSum(LotCost, m.lots[s]) \in Int /\ Rest(m, s) \in Nat /\ RestCash(m, s) \in Int
<1>1. \A W \in [Executions -> Int] : SumOver(W, E) \in Int /\ SumOver(W, m.todo) \in Int
  <2> SUFFICES ASSUME NEW W \in [Executions -> Int] PROVE SumOver(W, E) \in Int /\ SumOver(W, m.todo) \in Int
    OBVIOUS
  <2>1. (\A x \in E : W[x] \in Int) /\ (\A x \in m.todo : W[x] \in Int)
    BY ShapeIs
  <2>2. SumOver(W, E) \in Int
    BY <2>1, ShapeIs, SumTyped
  <2>3. SumOver(W, m.todo) \in Int
    BY <2>1, ShapeIs, SumTyped
  <2> QED BY <2>2, <2>3
<1>2. \A W \in [Trades -> Int] : PairSum(W, m.pairs) \in Int
  <2>1. PICK ps : ps = m.pairs
    OBVIOUS
  <2>2. ps \in Seq(Trades)
    BY <2>1, ShapeIs
  <2> QED BY <2>1, <2>2, PairSumTyped
<1>3. LotSum(LotCost, m.lots[s]) \in Int
  <2>1. PICK lots, W : lots = m.lots[s] /\ W = LotCost
    OBVIOUS
  <2>2. lots \in Seq(Lots) /\ W \in [Lots -> Int]
    BY <2>1, ShapeIs, CashWeights
  <2>3. CASE lots = <<>>
    BY <2>1, <2>3, SumEmpty DEF LotSum
  <2>4. CASE lots # <<>>
    <3>1. lots[1] \in Lots
      BY <2>2, <2>4
    <3>2. LotSum(W, lots) \in Int
      BY <2>2, <3>1, LotSumAppend
    <3> QED BY <2>1, <3>2
  <2> QED BY <2>3, <2>4
<1>4. Rest(m, s) \in Nat
  BY ShapeIs DEF Rest
<1>5. RestCash(m, s) \in Int
  <2>1. CASE m.remaining > 0 /\ m.at.symbol = s
    <3>1. m.at \in Executions /\ m.remaining \in Int
      BY <2>1, ShapeIs DEF Shape, Timely
    <3>2. m.at.price \in Int
      BY <3>1, ExecutionIs
    <3>3. m.remaining * m.at.price \in Int
      BY <3>1, <3>2
    <3> QED BY <2>1, <3>3 DEF RestCash
  <2>2. CASE ~ (m.remaining > 0 /\ m.at.symbol = s)
    BY <2>2 DEF RestCash
  <2> QED BY <2>1, <2>2
<1>6. SoldOf(s) \in [Executions -> Int] /\ Cash(s) \in [Executions -> Int]
  BY CashWeights
<1>7. TradeQty(s) \in [Trades -> Int] /\ TradeGain(s) \in [Trades -> Int]
  BY CashWeights, QtyWeights
<1> QED BY <1>1, <1>2, <1>3, <1>4, <1>5, <1>6, <1>7

\* Taking a sale forgets what remains of the one before, which was short.
LEMMA PaidTaken ==
  ASSUME NEW E, Timely(E), NEW m, Shape(E, m), NEW n, Shape(E, n), NEW ex, Taken(m, n, ex), Paid(E, m)
  PROVE  Paid(E, n)
<1>1. /\ n.todo = m.todo \ {ex} /\ ex \in m.todo /\ ex \in E /\ ex \in Executions /\ ex \in Lots /\ n.at = ex
      /\ n.pairs = m.pairs /\ n.remaining = IF ex.side = "BUY" THEN 0 ELSE ex.qty
      /\ ex.side \in {"BUY", "SELL"} /\ ex.qty \in Nat \ {0} /\ ex.price \in Int
  BY ShapeIs, ExecutionIs DEF Taken
<1> SUFFICES ASSUME NEW s \in Symbols
             PROVE  Short(E, n, s) \in Nat /\ (Short(E, n, s) = 0 => ShortCash(E, n, s) = 0)
  BY DEF Paid
<1>2. Short(E, m, s) \in Nat /\ (Short(E, m, s) = 0 => ShortCash(E, m, s) = 0)
  BY DEF Paid
<1>3. PICK cash, cost : cash = ex.qty * ex.price /\ cost = LotSum(LotCost, m.lots[s])
  OBVIOUS
<1>4. cash \in Int /\ cost \in Int
  BY <1>1, <1>3, PaidTyped
<1>5. /\ SumOver(SoldOf(s), m.todo) = SumOver(SoldOf(s), n.todo) + SoldOf(s)[ex]
      /\ SumOver(Cash(s), m.todo) = SumOver(Cash(s), n.todo) + Cash(s)[ex]
  <2>1. PICK F, V, W : F = m.todo /\ V = SoldOf(s) /\ W = Cash(s)
    OBVIOUS
  <2>2. /\ V \in [Executions -> Int] /\ W \in [Executions -> Int] /\ F \subseteq Executions
        /\ IsFiniteSet(F) /\ ex \in F
    BY <1>1, <2>1, ShapeIs, CashWeights
  <2>3. SumOver(V, F) = SumOver(V, F \ {ex}) + V[ex]
    BY <2>2, SumTaken
  <2>4. SumOver(W, F) = SumOver(W, F \ {ex}) + W[ex]
    BY <2>2, SumTaken
  <2> QED BY <1>1, <2>1, <2>3, <2>4
<1>6. /\ SoldOf(s)[ex] = IF ex.side = "SELL" /\ ex.symbol = s THEN ex.qty ELSE 0
      /\ Cash(s)[ex] = IF ex.symbol # s THEN 0 ELSE IF ex.side = "SELL" THEN cash ELSE 0 - cash
  BY <1>1, <1>3 DEF SoldOf, Cash
<1>7. LotSum(LotCost, n.lots[s]) = cost + IF ex.symbol = s /\ ex.side = "BUY" THEN cash ELSE 0
  <2>1. CASE ex.symbol = s /\ ex.side = "BUY"
    <3>1. PICK lots, W : lots = m.lots[s] /\ W = LotCost
      OBVIOUS
    <3>2. lots \in Seq(Lots) /\ W \in [Lots -> Int] /\ n.lots[s] = Append(lots, ex)
      BY <2>1, <3>1, ShapeIs, CashWeights DEF Taken
    <3>3. LotSum(W, Append(lots, ex)) = LotSum(W, lots) + W[ex]
      BY <1>1, <3>2, LotSumAppend
    <3>4. W[ex] = cash
      BY <1>1, <1>3, <3>1 DEF LotCost
    <3> QED BY <1>3, <2>1, <3>1, <3>2, <3>3, <3>4
  <2>2. CASE ~ (ex.symbol = s /\ ex.side = "BUY")
    <3>1. n.lots[s] = m.lots[s]
      BY <2>2 DEF Taken
    <3> QED BY <1>3, <1>4, <2>2, <3>1
  <2> QED BY <2>1, <2>2
<1>8. /\ Rest(n, s) = IF ex.symbol = s /\ ex.side = "SELL" THEN ex.qty ELSE 0
      /\ RestCash(n, s) = IF ex.symbol = s /\ ex.side = "SELL" THEN cash ELSE 0
  BY <1>1, <1>3 DEF Rest, RestCash
<1>9. /\ SumOver(SoldOf(s), E) \in Int /\ SumOver(SoldOf(s), n.todo) \in Int
      /\ SumOver(Cash(s), E) \in Int /\ SumOver(Cash(s), n.todo) \in Int
      /\ PairSum(TradeQty(s), m.pairs) \in Int /\ PairSum(TradeGain(s), m.pairs) \in Int
  <2>1. /\ SumOver(SoldOf(s), E) \in Int /\ SumOver(SoldOf(s), n.todo) \in Int
        /\ SumOver(Cash(s), E) \in Int /\ SumOver(Cash(s), n.todo) \in Int
    BY PaidTyped
  <2>2. PairSum(TradeQty(s), m.pairs) \in Int /\ PairSum(TradeGain(s), m.pairs) \in Int
    BY PaidTyped
  <2> QED BY <2>1, <2>2
<1>10. Rest(m, s) \in Nat /\ RestCash(m, s) \in Int
  BY PaidTyped
<1>11. Short(E, n, s) = Short(E, m, s) + Rest(m, s)
  BY <1>1, <1>5, <1>6, <1>8, <1>9, <1>10 DEF Short
<1>12. ShortCash(E, n, s) = ShortCash(E, m, s) + RestCash(m, s)
  <2>1. ShortCash(E, n, s) = SumOver(Cash(s), E) - SumOver(Cash(s), n.todo) - RestCash(n, s)
                                - PairSum(TradeGain(s), m.pairs) + LotSum(LotCost, n.lots[s])
    BY <1>1 DEF ShortCash
  <2>2. ShortCash(E, m, s) = SumOver(Cash(s), E) - SumOver(Cash(s), m.todo) - RestCash(m, s)
                                - PairSum(TradeGain(s), m.pairs) + cost
    BY <1>3 DEF ShortCash
  <2> QED BY <1>1, <1>4, <1>5, <1>6, <1>7, <1>8, <1>9, <1>10, <2>1, <2>2
<1>13. Rest(m, s) = 0 => RestCash(m, s) = 0
  BY ShapeIs DEF Rest, RestCash
<1>14. Short(E, m, s) = 0 /\ RestCash(m, s) = 0 => ShortCash(E, n, s) = 0
  BY <1>2, <1>12
<1> QED BY <1>2, <1>10, <1>11, <1>13, <1>14

\* A trade gains what its sale brings and its lot cost.
LEMMA PaidSold ==
  ASSUME NEW E, Timely(E), NEW m, Shape(E, m), NEW n, Shape(E, n), NEW q, Sold(m, n, q), Paid(E, m)
  PROVE  Paid(E, n)
<1>1. PICK s \in Symbols, lot \in Lots, p \in Trades :
           /\ s = m.at.symbol /\ m.lots[s] \in Seq(Lots) /\ m.lots[s] # <<>> /\ lot = m.lots[s][1]
           /\ q \in Nat \ {0} /\ q <= lot.qty /\ q <= m.remaining
           /\ n.pairs = Append(m.pairs, p) /\ p.symbol = s /\ p.qty = q
           /\ p.buy_price = lot.price /\ p.sell_price = m.at.price /\ m.at \in Executions
           /\ n.lots[s] = Without(m.lots[s], q)
           /\ \A t \in Symbols : t # s => n.lots[t] = m.lots[t]
  BY PairIs
<1>2. /\ n.todo = m.todo /\ n.at = m.at /\ n.remaining = m.remaining - q /\ m.remaining > 0
      /\ m.remaining \in Nat
  BY ShapeIs DEF Sold
<1> SUFFICES ASSUME NEW t \in Symbols PROVE Short(E, n, t) = Short(E, m, t) /\ ShortCash(E, n, t) = ShortCash(E, m, t)
  BY DEF Paid
<1>3. PICK price, cost : price = m.at.price /\ cost = lot.price
  OBVIOUS
<1>4. price \in Int /\ cost \in Int /\ q \in Int
  <2>1. lot.price \in Prices
    BY DEF Lots
  <2> QED BY <1>1, <1>3, <2>1, ExecutionIs, PricesAre
<1>5. PICK a, b, c, d : a = q * price /\ b = q * cost /\ c = m.remaining * price /\ d = (m.remaining - q) * price
  OBVIOUS
<1>6. a \in Int /\ b \in Int /\ c \in Int /\ d \in Int /\ d = c - a
  BY <1>2, <1>4, <1>5, Product
<1>7. /\ PairSum(TradeQty(t), n.pairs) = PairSum(TradeQty(t), m.pairs) + (IF s = t THEN q ELSE 0)
      /\ PairSum(TradeGain(t), n.pairs) = PairSum(TradeGain(t), m.pairs) + (IF s = t THEN a - b ELSE 0)
  <2>1. PICK V, W, ps : V = TradeQty(t) /\ W = TradeGain(t) /\ ps = m.pairs
    OBVIOUS
  <2>2. V \in [Trades -> Int] /\ W \in [Trades -> Int] /\ ps \in Seq(Trades)
    BY <2>1, ShapeIs, CashWeights, QtyWeights
  <2>3. PairSum(V, Append(ps, p)) = PairSum(V, ps) + V[p]
    BY <2>2, PairSumAppend
  <2>4. PairSum(W, Append(ps, p)) = PairSum(W, ps) + W[p]
    BY <2>2, PairSumAppend
  <2>5. V[p] = IF s = t THEN q ELSE 0
    BY <1>1, <2>1 DEF TradeQty
  <2>6. Gain(p) = a - b
    BY <1>1, <1>3, <1>5, GainIs
  <2>7. W[p] = IF s = t THEN a - b ELSE 0
    BY <1>1, <2>1, <2>6 DEF TradeGain
  <2> QED BY <1>1, <2>1, <2>3, <2>4, <2>5, <2>7
<1>8. LotSum(LotCost, n.lots[t]) = LotSum(LotCost, m.lots[t]) - (IF s = t THEN b ELSE 0)
  <2>1. CASE s = t
    <3>1. PICK lots : lots = m.lots[s]
      OBVIOUS
    <3>2. lots \in Seq(Lots) /\ lots # <<>> /\ q \in Nat \ {0} /\ q <= lots[1].qty /\ lots[1] = lot
      BY <1>1, <3>1
    <3>3. LotSum(LotCost, Without(lots, q)) = LotSum(LotCost, lots) - q * lots[1].price
      BY <3>2, LotCostSold
    <3> QED BY <1>1, <1>3, <1>5, <2>1, <3>1, <3>2, <3>3
  <2>2. CASE s # t
    <3>1. n.lots[t] = m.lots[t]
      BY <1>1, <2>2
    <3>2. LotSum(LotCost, m.lots[t]) \in Int
      BY PaidTyped
    <3> QED BY <2>2, <3>1, <3>2
  <2> QED BY <2>1, <2>2
<1>9. /\ Rest(m, t) = (IF s = t THEN m.remaining ELSE 0) /\ RestCash(m, t) = (IF s = t THEN c ELSE 0)
      /\ Rest(n, t) = (IF s = t THEN m.remaining - q ELSE 0) /\ RestCash(n, t) = (IF s = t THEN d ELSE 0)
  <2>1. Rest(m, t) = (IF s = t THEN m.remaining ELSE 0) /\ RestCash(m, t) = (IF s = t THEN c ELSE 0)
    BY <1>1, <1>2, <1>3, <1>5 DEF Rest, RestCash
  <2>2. m.remaining - q = 0 => d = 0
    BY <1>4, <1>5
  <2>3. m.remaining - q \in Nat
    BY <1>1, <1>2
  <2>4. Rest(n, t) = (IF s = t THEN m.remaining - q ELSE 0) /\ RestCash(n, t) = (IF s = t THEN d ELSE 0)
    BY <1>1, <1>2, <1>3, <1>5, <2>2, <2>3 DEF Rest, RestCash
  <2> QED BY <2>1, <2>4
<1>10. /\ SumOver(SoldOf(t), E) \in Int /\ SumOver(SoldOf(t), m.todo) \in Int
       /\ SumOver(Cash(t), E) \in Int /\ SumOver(Cash(t), m.todo) \in Int
       /\ PairSum(TradeQty(t), m.pairs) \in Int /\ PairSum(TradeGain(t), m.pairs) \in Int
       /\ LotSum(LotCost, m.lots[t]) \in Int
  BY PaidTyped
<1>11. Short(E, n, t) = Short(E, m, t)
  BY <1>1, <1>2, <1>7, <1>9, <1>10 DEF Short
<1>12. ShortCash(E, n, t) = ShortCash(E, m, t)
  BY <1>2, <1>6, <1>7, <1>8, <1>9, <1>10 DEF ShortCash
<1> QED BY <1>11, <1>12

-----------------------------------------------------------------------------
(* The loop *)

\* What is true of every state of the matching.
Sound(E, m) == /\ Shape(E, m) /\ ByTime(E, m) /\ Traced(E, m) /\ InOrder(m)
               /\ Balanced(E, m) /\ Holding(E, m) /\ Within(E, m) /\ Paid(E, m)

Done(m) == m.todo = {} /\ ~ Selling(m)

\* rounds that the loop may still take
Lengths(m) == [s \in Symbols |-> Len(m.lots[s])]
Size(m) == 2 * Cardinality(m.todo) + SumOver(Lengths(m), Symbols) + (IF m.remaining > 0 THEN 1 ELSE 0)

\* The second sequence starts with the first.
Begins(first, second) == /\ Len(first) <= Len(second)
                         /\ \A i \in 1..Len(first) : second[i] = first[i]

\* How many lots there are is a number, and changes with one symbol's.
LEMMA LengthsAre ==
  ASSUME NEW E, Timely(E), NEW m, Shape(E, m), NEW n, Shape(E, n), NEW s \in Symbols,
         \A t \in Symbols : t # s => n.lots[t] = m.lots[t]
  PROVE  /\ SumOver(Lengths(m), Symbols) \in Nat
         /\ SumOver(Lengths(n), Symbols) = SumOver(Lengths(m), Symbols) - Len(m.lots[s]) + Len(n.lots[s])
<1>1. PICK f, g : f = Lengths(m) /\ g = Lengths(n)
  OBVIOUS
<1>2. \A t \in Symbols : m.lots[t] \in Seq(Lots) /\ n.lots[t] \in Seq(Lots)
  BY ShapeIs
<1>3. \A t \in Symbols : f[t] = Len(m.lots[t]) /\ g[t] = Len(n.lots[t])
  BY <1>1 DEF Lengths
<1>4. \A t \in Symbols : f[t] \in Int /\ g[t] \in Int /\ f[t] >= 0
  BY <1>2, <1>3
<1>5. \A t \in Symbols : t # s => f[t] = g[t]
  BY <1>3
<1>6. IsFiniteSet(Symbols)
  BY HistoryConstants
<1>7. SumOver(g, Symbols) = SumOver(f, Symbols) - f[s] + g[s]
  BY <1>4, <1>5, <1>6, SumMoved
<1>8. SumOver(f, Symbols) \in Int /\ SumOver(f, Symbols) >= 0
  BY <1>4, <1>6, SumTyped
<1> QED BY <1>1, <1>3, <1>7, <1>8

\* How large a state is.
LEMMA SizeIs ==
  ASSUME NEW E, Timely(E), NEW m, Shape(E, m)
  PROVE  /\ Size(m) \in Nat /\ Cardinality(m.todo) \in Nat /\ SumOver(Lengths(m), Symbols) \in Nat
         /\ Size(m) = 0 => Done(m)
<1>1. Cardinality(m.todo) \in Nat /\ (Cardinality(m.todo) = 0 => m.todo = {}) /\ m.remaining \in Nat
  BY ShapeIs, FS_CardinalityType, FS_EmptySet
<1>2. SumOver(Lengths(m), Symbols) \in Nat
  <2>1. PICK f : f = Lengths(m)
    OBVIOUS
  <2>2. \A t \in Symbols : f[t] \in Int /\ f[t] >= 0
    <3> SUFFICES ASSUME NEW t \in Symbols PROVE f[t] \in Int /\ f[t] >= 0
      OBVIOUS
    <3>1. m.lots[t] \in Seq(Lots)
      BY ShapeIs
    <3> QED BY <2>1, <3>1 DEF Lengths
  <2>3. SumOver(f, Symbols) \in Int /\ SumOver(f, Symbols) >= 0
    BY <2>2, SumTyped, HistoryConstants
  <2> QED BY <2>1, <2>3
<1>3. Size(m) \in Nat
  BY <1>1, <1>2 DEF Size
<1>4. Size(m) = 0 => m.todo = {} /\ m.remaining = 0
  <2>1. PICK c, k, r : c = Cardinality(m.todo) /\ k = SumOver(Lengths(m), Symbols) /\ r = m.remaining
    OBVIOUS
  <2>2. Size(m) = 2 * c + k + (IF r > 0 THEN 1 ELSE 0)
    BY <2>1 DEF Size
  <2>3. c \in Nat /\ k \in Nat /\ r \in Nat
    BY <1>1, <1>2, <2>1
  <2>4. Size(m) = 0 => c = 0 /\ r = 0
    BY <2>2, <2>3
  <2> QED BY <1>1, <2>1, <2>4
<1> QED BY <1>1, <1>2, <1>3, <1>4 DEF Done, Selling

\* One symbol's lots after an execution is taken.
LEMMA SizeTaken ==
  ASSUME NEW E, Timely(E), NEW m, Shape(E, m), NEW n, Shape(E, n), NEW ex, Taken(m, n, ex)
  PROVE  Size(n) < Size(m)
<1>1. /\ n.todo = m.todo \ {ex} /\ ex \in m.todo /\ ex \in Executions /\ ex \in Lots
      /\ n.remaining = IF ex.side = "BUY" THEN 0 ELSE ex.qty
      /\ ex.symbol \in Symbols /\ ex.qty \in Nat \ {0}
  BY ShapeIs, ExecutionIs DEF Taken
<1>2. Cardinality(n.todo) = Cardinality(m.todo) - 1
  <2>1. PICK F : F = m.todo
    OBVIOUS
  <2>2. IsFiniteSet(F) /\ ex \in F
    BY <1>1, <2>1, ShapeIs
  <2>3. Cardinality(F \ {ex}) = Cardinality(F) - 1
    BY <2>2, FS_RemoveElement
  <2> QED BY <1>1, <2>1, <2>3
<1>3. PICK s : s = ex.symbol
  OBVIOUS
<1>4. PICK lots, left : lots = m.lots[s] /\ left = n.lots[s]
  OBVIOUS
<1>5. lots \in Seq(Lots) /\ (\A t \in Symbols : t # s => n.lots[t] = m.lots[t])
      /\ left = IF ex.side = "BUY" THEN Append(lots, ex) ELSE lots
  BY <1>1, <1>3, <1>4, ShapeIs DEF Taken
<1>6. Len(lots) \in Nat /\ Len(left) = Len(lots) + IF ex.side = "BUY" THEN 1 ELSE 0
  BY <1>1, <1>5
<1>7. SumOver(Lengths(n), Symbols) = SumOver(Lengths(m), Symbols) - Len(m.lots[s]) + Len(n.lots[s])
  BY <1>1, <1>3, <1>5, LengthsAre
<1>8. PICK k : k = SumOver(Lengths(m), Symbols)
  OBVIOUS
<1>9. k \in Nat /\ Cardinality(m.todo) \in Nat /\ m.remaining \in Nat
  BY <1>8, SizeIs, ShapeIs
<1>10. SumOver(Lengths(n), Symbols) = k + IF ex.side = "BUY" THEN 1 ELSE 0
  <2>1. SumOver(Lengths(n), Symbols) = k - Len(lots) + Len(left)
    BY <1>4, <1>7, <1>8
  <2> QED BY <1>6, <1>9, <2>1
<1> QED BY <1>1, <1>2, <1>8, <1>9, <1>10 DEF Size

\* Selling ends the sale or empties the lot.
LEMMA SizeSold ==
  ASSUME NEW E, Timely(E), NEW m, Shape(E, m), NEW n, Shape(E, n), NEW q, Sold(m, n, q)
  PROVE  Size(n) < Size(m)
<1>1. PICK s \in Symbols, lot \in Lots :
           /\ s = m.at.symbol /\ m.lots[s] \in Seq(Lots) /\ m.lots[s] # <<>> /\ lot = m.lots[s][1]
           /\ q \in Nat \ {0} /\ q <= lot.qty /\ q <= m.remaining
           /\ n.lots[s] = Without(m.lots[s], q)
           /\ \A t \in Symbols : t # s => n.lots[t] = m.lots[t]
  BY PairIs
<1>2. /\ n.todo = m.todo /\ n.remaining = m.remaining - q /\ m.remaining > 0 /\ m.remaining \in Nat
      /\ (q = m.remaining \/ q = lot.qty)
  BY <1>1, ShapeIs DEF Sold
<1>3. PICK lots, left : lots = m.lots[s] /\ left = n.lots[s]
  OBVIOUS
<1>4. lots \in Seq(Lots) /\ lots # <<>> /\ q <= lots[1].qty /\ left = Without(lots, q) /\ lots[1] = lot
  BY <1>1, <1>3
<1>5. Len(lots) \in Nat /\ Len(left) = IF q = lot.qty THEN Len(lots) - 1 ELSE Len(lots)
  <2>1. q \in Nat \ {0}
    BY <1>1
  <2>2. Len(lots) \in Nat \ {0}
    BY <1>4, <2>1, WithoutIs
  <2>3. (q = lots[1].qty => Len(Without(lots, q)) = Len(lots) - 1)
        /\ (q # lots[1].qty => Len(Without(lots, q)) = Len(lots))
    BY <1>4, <2>1, WithoutIs
  <2> QED BY <1>4, <2>2, <2>3
<1>6. SumOver(Lengths(n), Symbols) = SumOver(Lengths(m), Symbols) - Len(m.lots[s]) + Len(n.lots[s])
  BY <1>1, LengthsAre
<1>7. PICK k : k = SumOver(Lengths(m), Symbols)
  OBVIOUS
<1>8. k \in Nat /\ Cardinality(m.todo) \in Nat
  BY <1>7, SizeIs
<1>9. SumOver(Lengths(n), Symbols) = k - IF q = lot.qty THEN 1 ELSE 0
  <2>1. SumOver(Lengths(n), Symbols) = k - Len(lots) + Len(left)
    BY <1>3, <1>6, <1>7
  <2> QED BY <1>5, <1>8, <2>1
<1>10. PICK c, r : c = Cardinality(m.todo) /\ r = m.remaining
  OBVIOUS
<1>11. /\ Size(m) = 2 * c + k + 1
       /\ Size(n) = 2 * c + (k - IF q = lot.qty THEN 1 ELSE 0) + (IF r - q > 0 THEN 1 ELSE 0)
  BY <1>2, <1>7, <1>9, <1>10 DEF Size
<1>12. /\ c \in Nat /\ r \in Nat /\ q \in Nat \ {0} /\ q <= r /\ (q = r \/ q = lot.qty)
  BY <1>1, <1>2, <1>8, <1>10
<1> QED BY <1>8, <1>11, <1>12

\* What a round of the loop does.
LEMMA LoopIs ==
  ASSUME NEW E, Timely(E), NEW m, Sound(E, m)
  PROVE  /\ Sound(E, Loop(m)) /\ Begins(m.pairs, Loop(m).pairs)
         /\ IF Done(m) THEN Loop(m) = m ELSE Size(Loop(m)) < Size(m)
<1>1. PICK n : n = Loop(m)
  OBVIOUS
<1>2. Shape(E, m) /\ m.pairs \in Seq(Trades)
  BY ShapeIs DEF Sound
<1>3. CASE Selling(m)
  <2>1. n = Sell(m)
    BY <1>1, <1>3 DEF Loop
  <2>2. Shape(E, n) /\ \E q \in Nat \ {0} : Sold(m, n, q)
    BY <1>2, <1>3, <2>1, SellIs
  <2>3. PICK q \in Nat \ {0} : Sold(m, n, q)
    BY <2>2
  <2>4. ByTime(E, n)
    BY <2>3 DEF Sold, ByTime, Sound
  <2>5. Traced(E, n) /\ InOrder(n)
    BY <1>2, <2>3, KnownSold, InOrderSold DEF Sound
  <2>6. Balanced(E, n) /\ Holding(E, n)
    BY <1>2, <2>2, <2>3, BalancedSold, HoldingSold DEF Sound
  <2>7. Within(E, n) /\ Paid(E, n)
    BY <1>2, <2>2, <2>3, WithinSold, PaidSold DEF Sound
  <2>8. Size(n) < Size(m) /\ ~ Done(m)
    BY <1>2, <1>3, <2>2, <2>3, SizeSold DEF Done
  <2>9. Begins(m.pairs, n.pairs)
    <3>1. PICK p \in Trades : n.pairs = Append(m.pairs, p)
      BY <1>2, <2>3, PairIs
    <3> QED BY <1>2, <3>1 DEF Begins
  <2> QED BY <1>1, <2>2, <2>4, <2>5, <2>6, <2>7, <2>8, <2>9 DEF Sound
<1>4. CASE ~ Selling(m) /\ m.todo # {}
  <2>1. n = Take(m)
    BY <1>1, <1>4 DEF Loop
  <2>2. Shape(E, n) /\ \E ex \in m.todo : Taken(m, n, ex)
    BY <1>2, <1>4, <2>1, TakeIs
  <2>3. PICK ex \in m.todo : Taken(m, n, ex)
    BY <2>2
  <2>4. ByTime(E, n) /\ Traced(E, n)
    BY <1>2, <2>3, ByTimeTaken, KnownTaken DEF Sound
  <2>5. InOrder(n)
    BY <1>2, <2>3, InOrderTaken DEF Sound
  <2>6. Balanced(E, n) /\ Holding(E, n)
    BY <1>2, <2>3, BalancedTaken, HoldingTaken DEF Sound
  <2>7. Within(E, n) /\ Paid(E, n)
    BY <1>2, <2>2, <2>3, WithinTaken, PaidTaken DEF Sound
  <2>8. Size(n) < Size(m) /\ ~ Done(m)
    BY <1>2, <1>4, <2>2, <2>3, SizeTaken DEF Done
  <2>9. Begins(m.pairs, n.pairs)
    BY <1>2, <2>3 DEF Taken, Begins
  <2> QED BY <1>1, <2>2, <2>4, <2>5, <2>6, <2>7, <2>8, <2>9 DEF Sound
<1>5. CASE ~ Selling(m) /\ m.todo = {}
  <2>1. n = m /\ Done(m)
    BY <1>1, <1>5 DEF Loop, Done
  <2> QED BY <1>1, <1>2, <2>1 DEF Begins
<1> QED BY <1>3, <1>4, <1>5

\* Nothing is sold of no pairs and no lots.
LEMMA NothingSums ==
  ASSUME NEW W
  PROVE  PairSum(W, <<>>) = 0 /\ LotSum(W, <<>>) = 0
BY SumEmpty DEF PairSum, LotSum

\* What is held of no executions.
LEMMA NothingHeld == IsHeld({}, 0)
<1>1. \A t \in Places : Gained({}, t) = 0
  <2> SUFFICES ASSUME NEW t \in Places PROVE Gained({}, t) = 0
    OBVIOUS
  <2>1. IsFiniteSet({})
    BY FS_EmptySet
  <2> QED BY <2>1, GainedTyped
<1> QED BY <1>1 DEF IsHeld

\* The matching begins so.
LEMMA UnmatchedSound ==
  ASSUME NEW E, Timely(E)
  PROVE  Sound(E, Unmatched(E))
<1>1. PICK m : m = Unmatched(E)
  OBVIOUS
<1>2. /\ m.todo = E /\ m.remaining = 0 /\ m.pairs = <<>> /\ E \ m.todo = {}
      /\ \A s \in Symbols : m.lots[s] = <<>>
  BY <1>1 DEF Unmatched
<1>3. Shape(E, m)
  BY <1>1, UnmatchedShape
<1>4. ByTime(E, m)
  BY <1>2 DEF ByTime
<1>5. Traced(E, m) /\ InOrder(m)
  BY <1>2 DEF Traced, InOrder
<1>6. \A s \in Symbols : OpenShares(m, s) = 0 /\ Holds(m, s) = 0
  BY <1>2, NothingSums DEF OpenShares, Holds
<1>7. Balanced(E, m)
  <2> SUFFICES ASSUME NEW s \in Symbols
               PROVE  SumOver(Bought(s), E) = PairSum(TradeQty(s), m.pairs) + OpenShares(m, s) + SumOver(Bought(s), m.todo)
    BY DEF Balanced
  <2>1. SumOver(Bought(s), E) \in Int
    <3>1. \A x \in E : Bought(s)[x] \in Int
      BY QtyWeights DEF Timely
    <3> QED BY <3>1, SumTyped DEF Timely
  <2> QED BY <1>2, <1>6, <2>1, NothingSums
<1>8. Holding(E, m)
  <2> SUFFICES ASSUME NEW s \in Symbols PROVE IsHeld(Of(E \ m.todo, s), Holds(m, s))
    BY DEF Holding
  <2>1. Of(E \ m.todo, s) = {}
    BY <1>2 DEF Of
  <2> QED BY <1>6, <2>1, NothingHeld
<1>9. Within(E, m)
  <2> SUFFICES ASSUME NEW x \in E PROVE Involved(m, x) + Unserved(m, x) <= x.qty
    BY DEF Within
  <2>1. x.symbol \in Symbols /\ x.qty \in Nat
    BY ExecutionIs DEF Timely
  <2>2. Involved(m, x) = 0
    BY <1>2, NothingSums DEF Involved
  <2>3. Unserved(m, x) = x.qty + 0
    BY <1>2, <2>1, NothingSums DEF Unserved
  <2> QED BY <2>1, <2>2, <2>3
<1>10. Paid(E, m)
  <2> SUFFICES ASSUME NEW s \in Symbols
               PROVE  Short(E, m, s) \in Nat /\ (Short(E, m, s) = 0 => ShortCash(E, m, s) = 0)
    BY DEF Paid
  <2>1. SumOver(SoldOf(s), E) \in Int /\ SumOver(Cash(s), E) \in Int
    BY <1>3, PaidTyped
  <2>2. Rest(m, s) = 0 /\ RestCash(m, s) = 0
    BY <1>2 DEF Rest, RestCash
  <2>3. Short(E, m, s) = 0 /\ ShortCash(E, m, s) = 0
    BY <1>2, <2>1, <2>2, NothingSums DEF Short, ShortCash
  <2> QED BY <2>3
<1> QED BY <1>1, <1>3, <1>4, <1>5, <1>7, <1>8, <1>9, <1>10 DEF Sound

\* f holds the states of the loop over E, up to the k-th round.
Run(E, k, f) == f = [n \in 0..k |-> IF n = 0 THEN Unmatched(E) ELSE Loop(f[n - 1])]

\* There are such states.
LEMMA RunExists ==
  ASSUME NEW E, NEW k \in Nat
  PROVE  \E f : Run(E, k, f)
<1> SUFFICES ASSUME ~ \E f : Run(E, k, f) PROVE FALSE
  OBVIOUS
<1> DEFINE B == {j \in Nat : ~ \E f : Run(E, j, f)}
<1>1. B \in SUBSET Nat /\ B # {}
  OBVIOUS
<1>2. PICK j : j = Min(B)
  OBVIOUS
<1>3. j \in B /\ \A i \in B : j <= i
  <2> HIDE DEF B
  <2> QED BY <1>1, <1>2, MinIsLeast
<1>4. j \in Nat /\ ~ \E f : Run(E, j, f)
  BY <1>3
<1>5. CASE j = 0
  <2> DEFINE f == [n \in 0..0 |-> Unmatched(E)]
  <2>1. f = [n \in 0..0 |-> IF n = 0 THEN Unmatched(E) ELSE Loop(f[n - 1])]
    OBVIOUS
  <2>2. Run(E, 0, f)
    BY <2>1 DEF Run
  <2> QED BY <1>4, <1>5, <2>2
<1>6. CASE j # 0
  <2>1. j - 1 \in Nat /\ j - 1 \notin B
    BY <1>3, <1>4, <1>6
  <2>2. PICK g : Run(E, j - 1, g)
    BY <2>1
  <2>3. /\ \A n \in 0..(j - 1) : g[n] = IF n = 0 THEN Unmatched(E) ELSE Loop(g[n - 1])
        /\ DOMAIN g = 0..(j - 1)
    BY <2>2 DEF Run
  <2> DEFINE f == [n \in 0..j |-> IF n = j THEN Loop(g[j - 1]) ELSE g[n]]
             h == [n \in 0..j |-> IF n = 0 THEN Unmatched(E) ELSE Loop(f[n - 1])]
  <2>4. ASSUME NEW n \in 0..j PROVE f[n] = IF n = 0 THEN Unmatched(E) ELSE Loop(f[n - 1])
    <3>1. CASE n = j
      <4>1. j - 1 \in 0..j /\ j - 1 # j
        BY <1>4, <2>1
      <4>2. f[j - 1] = g[j - 1] /\ f[n] = Loop(g[j - 1])
        BY <3>1, <4>1
      <4> QED BY <1>6, <3>1, <4>2
    <3>2. CASE n # j
      <4>1. n \in 0..(j - 1) /\ f[n] = g[n]
        BY <1>4, <3>2
      <4>2. CASE n = 0
        BY <2>3, <4>1, <4>2
      <4>3. CASE n # 0
        <5>1. n - 1 \in 0..j /\ n - 1 # j
          BY <1>4, <4>1, <4>3
        <5>2. f[n - 1] = g[n - 1]
          BY <5>1
        <5>3. g[n] = Loop(g[n - 1])
          BY <2>3, <4>1, <4>3
        <5> QED BY <4>1, <4>3, <5>2, <5>3
      <4> QED BY <4>2, <4>3
    <3> QED BY <3>1, <3>2
  <2>5. \A n \in 0..j : f[n] = h[n]
    <3> HIDE DEF f
    <3> QED BY <2>4
  <2>6. f = h
    <3>1. f = [n \in 0..j |-> f[n]]
      OBVIOUS
    <3>2. h = [n \in 0..j |-> h[n]]
      OBVIOUS
    <3> HIDE DEF f, h
    <3> QED BY <2>5, <3>1, <3>2
  <2>7. Run(E, j, f)
    <3> HIDE DEF f
    <3> QED BY <2>6 DEF Run
  <2> QED BY <1>4, <2>7
<1> QED BY <1>5, <1>6

\* The matching is the last state of such a run.
LEMMA FifoMatchIs ==
  ASSUME NEW E, Rounds(E) \in Nat
  PROVE  \E f : Run(E, Rounds(E), f) /\ FifoMatch(E) = f[Rounds(E)]
<1> DEFINE f == CHOOSE f : f = [n \in 0..Rounds(E) |-> IF n = 0 THEN Unmatched(E) ELSE Loop(f[n - 1])]
<1>1. \E g : g = [n \in 0..Rounds(E) |-> IF n = 0 THEN Unmatched(E) ELSE Loop(g[n - 1])]
  BY RunExists DEF Run
<1>2. f = [n \in 0..Rounds(E) |-> IF n = 0 THEN Unmatched(E) ELSE Loop(f[n - 1])]
  BY <1>1
<1>3. FifoMatch(E) = f[Rounds(E)]
  BY DEF FifoMatch
<1> QED BY <1>2, <1>3 DEF Run

\* Its states.
LEMMA RunAt ==
  ASSUME NEW E, NEW k \in Nat, NEW f, Run(E, k, f)
  PROVE  /\ f[0] = Unmatched(E)
         /\ \A n \in 1..k : n - 1 \in 0..k /\ f[n] = Loop(f[n - 1])
<1>1. \A n \in 0..k : f[n] = IF n = 0 THEN Unmatched(E) ELSE Loop(f[n - 1])
  BY DEF Run
<1>2. 0 \in 0..k /\ \A n \in 1..k : n \in 0..k /\ n # 0 /\ n - 1 \in 0..k
  OBVIOUS
<1> QED BY <1>1, <1>2

\* So many rounds are enough.
LEMMA RoundsAre ==
  ASSUME NEW E, Timely(E)
  PROVE  Rounds(E) \in Nat /\ Size(Unmatched(E)) = Rounds(E)
<1>1. PICK m : m = Unmatched(E)
  OBVIOUS
<1>2. m.todo = E /\ m.remaining = 0 /\ \A s \in Symbols : m.lots[s] = <<>>
  BY <1>1 DEF Unmatched
<1>3. SumOver(Lengths(m), Symbols) = 0
  <2>1. PICK f : f = Lengths(m)
    OBVIOUS
  <2>2. \A s \in Symbols : f[s] = 0
    BY <1>2, <2>1 DEF Lengths
  <2>3. PICK U : U = {}
    OBVIOUS
  <2>4. U \in SUBSET Symbols /\ \A s \in Symbols : f[s] \in Int
    BY <2>2, <2>3
  <2>5. (\A s \in U : f[s] = f[s]) /\ (\A s \in Symbols \ U : f[s] = 0)
    BY <2>2
  <2>6. SumOver(f, Symbols) = SumOver(f, U)
    BY <2>4, <2>5, SumPart, HistoryConstants
  <2> QED BY <2>1, <2>3, <2>6, SumEmpty
<1>4. Cardinality(E) \in Nat
  BY FS_CardinalityType DEF Timely
<1> QED BY <1>1, <1>2, <1>3, <1>4 DEF Rounds, Size

\* Every state of the run is sound, and nearer to the end.
LEMMA RunIs ==
  ASSUME NEW E, Timely(E), NEW k \in Nat, NEW f, Run(E, k, f), NEW n \in 0..k
  PROVE  Sound(E, f[n]) /\ (Done(f[n]) \/ Size(f[n]) + n <= Rounds(E))
<1>0. f[0] = Unmatched(E) /\ \A i \in 1..k : f[i] = Loop(f[i - 1])
  BY RunAt
<1> DEFINE Fine(j) == Sound(E, f[j]) /\ (Done(f[j]) \/ Size(f[j]) + j <= Rounds(E))
           B == {j \in 0..k : ~ Fine(j)}
<1> SUFFICES ASSUME ~ Fine(n) PROVE FALSE
  OBVIOUS
<1>1. B \in SUBSET Nat /\ B # {}
  OBVIOUS
<1>2. PICK j : j = Min(B)
  OBVIOUS
<1>3. j \in B /\ \A i \in B : j <= i
  <2> HIDE DEF B
  <2> QED BY <1>1, <1>2, MinIsLeast
<1>4. j \in 0..k /\ ~ Fine(j)
  BY <1>3
<1>5. CASE j = 0
  <2>1. f[0] = Unmatched(E)
    BY <1>0
  <2>2. Sound(E, f[0]) /\ Size(f[0]) + 0 <= Rounds(E)
    BY <2>1, UnmatchedSound, RoundsAre
  <2> QED BY <1>4, <1>5, <2>2
<1>6. CASE j # 0
  <2>1. j - 1 \in 0..k /\ j - 1 \notin B
    BY <1>3, <1>4, <1>6
  <2>2. Fine(j - 1)
    BY <2>1
  <2>3. PICK m, p : m = f[j - 1] /\ p = f[j]
    OBVIOUS
  <2>4. p = Loop(m)
    <3>1. j \in 1..k
      BY <1>4, <1>6
    <3> QED BY <1>0, <2>3, <3>1
  <2>5. Sound(E, m) /\ (Done(m) \/ Size(m) + (j - 1) <= Rounds(E))
    BY <2>2, <2>3
  <2>6. Sound(E, p) /\ IF Done(m) THEN p = m ELSE Size(p) < Size(m)
    BY <2>4, <2>5, LoopIs
  <2>7. Size(m) \in Nat /\ Size(p) \in Nat /\ Rounds(E) \in Nat
    BY <2>5, <2>6, SizeIs, RoundsAre DEF Sound
  <2>8. Done(p) \/ Size(p) + j <= Rounds(E)
    BY <1>4, <2>5, <2>6, <2>7
  <2> QED BY <1>4, <2>3, <2>6, <2>8
<1> QED BY <1>5, <1>6

\* The matching is sound, and complete.
LEMMA Matched ==
  ASSUME NEW E, Timely(E)
  PROVE  Sound(E, FifoMatch(E)) /\ Done(FifoMatch(E))
<1>1. PICK k : k = Rounds(E)
  OBVIOUS
<1>2. k \in Nat /\ k \in 0..k
  BY <1>1, RoundsAre
<1>3. PICK f : Run(E, k, f) /\ FifoMatch(E) = f[k]
  BY <1>1, <1>2, FifoMatchIs
<1>4. Sound(E, f[k]) /\ (Done(f[k]) \/ Size(f[k]) + k <= Rounds(E))
  BY <1>2, <1>3, RunIs
<1>5. PICK m : m = f[k]
  OBVIOUS
<1>6. Size(m) \in Nat /\ (Size(m) = 0 => Done(m))
  BY <1>4, <1>5, SizeIs DEF Sound
<1> QED BY <1>1, <1>2, <1>3, <1>4, <1>5, <1>6

-----------------------------------------------------------------------------
(* What the properties say of the matching *)

\* Shares of executions that a weight counts.
LEMMA SharesOfIs ==
  ASSUME NEW E, Timely(E), NEW G, G \subseteq E, NEW W,
         \A x \in E : W[x] = IF x \in G THEN x.qty ELSE 0
  PROVE  SharesOf(G) = SumOver(W, E) /\ SharesOf(G) \in Int
<1> DEFINE f == [x \in E |-> x.qty]
           h == [x \in G |-> x.qty]
<1>1. \A x \in E : f[x] \in Int /\ f[x] = x.qty
  BY ExecutionIs DEF Timely
<1>2. IsFiniteSet(E) /\ IsFiniteSet(G)
  BY FS_Subset DEF Timely
<1>3. \A x \in G : h[x] = f[x]
  OBVIOUS
<1>4. SharesOf(G) = SumOver(h, G)
  BY DEF SharesOf, SumFunction, SumOver
<1> HIDE DEF f, h
<1>5. SumOver(h, G) = SumOver(f, G)
  BY <1>2, <1>3, SumSame
<1>6. (\A x \in G : W[x] = f[x]) /\ (\A x \in E \ G : W[x] = 0)
  BY <1>1
<1>7. SumOver(W, E) = SumOver(f, G)
  BY <1>1, <1>2, <1>6, SumPart
<1>8. SumOver(f, G) \in Int
  BY <1>1, <1>2, SumTyped
<1> QED BY <1>4, <1>5, <1>7, <1>8

\* A sum over pairs that a weight counts.
LEMMA SomePairs ==
  ASSUME NEW ps \in Seq(Trades), NEW W \in [Trades -> Int], NEW h, DOMAIN h \subseteq DOMAIN ps,
         \A i \in DOMAIN h : h[i] = W[ps[i]], \A i \in DOMAIN ps \ DOMAIN h : W[ps[i]] = 0
  PROVE  SumFunction(h) = PairSum(W, ps)
<1>1. PICK D, I : D = DOMAIN ps /\ I = DOMAIN h
  OBVIOUS
<1> DEFINE g == [i \in DOMAIN ps |-> W[ps[i]]]
<1>2. IsFiniteSet(D) /\ I \in SUBSET D /\ IsFiniteSet(I)
  <2>1. D = 1..Len(ps)
    BY <1>1
  <2>2. IsFiniteSet(D)
    BY <2>1, FS_Interval
  <2> QED BY <1>1, <2>2, FS_Subset
<1>3. \A i \in D : g[i] \in Int /\ g[i] = W[ps[i]]
  <2>1. \A i \in D : ps[i] \in Trades
    BY <1>1
  <2> QED BY <1>1, <2>1
<1>4. SumFunction(h) = SumOver(h, I) /\ PairSum(W, ps) = SumOver(g, D)
  BY <1>1 DEF SumFunction, SumOver, PairSum
<1> HIDE DEF g
<1>5. SumOver(h, I) = SumOver(g, I)
  <2>1. \A i \in I : h[i] = g[i]
    BY <1>1, <1>3
  <2> QED BY <1>2, <2>1, SumSame
<1>6. (\A i \in I : g[i] = g[i]) /\ (\A i \in D \ I : g[i] = 0)
  BY <1>1, <1>3
<1>7. SumOver(g, D) = SumOver(g, I)
  BY <1>2, <1>3, <1>6, SumPart
<1> QED BY <1>4, <1>5, <1>7

\* What is open.
LEMMA OpenQtyIs ==
  ASSUME NEW E, Timely(E), NEW s \in Symbols
  PROVE  OpenQty(E, s) = OpenShares(FifoMatch(E), s) /\ OpenQty(E, s) \in Nat
<1>1. PICK m, lots : m = FifoMatch(E) /\ lots = m.lots[s]
  OBVIOUS
<1>2. lots \in Seq(Lots)
  BY <1>1, Matched, ShapeIs DEF Sound
<1> DEFINE f == [i \in DOMAIN lots |-> lots[i].qty]
           g == [i \in DOMAIN lots |-> LotQty[lots[i]]]
<1>3. \A i \in DOMAIN lots : lots[i].qty = LotQty[lots[i]]
  <2>1. \A i \in DOMAIN lots : lots[i] \in Lots
    BY <1>2
  <2> QED BY <2>1 DEF LotQty
<1>4. f = g
  BY <1>3
<1>5. Quantity(lots) = SumOver(f, DOMAIN lots)
  BY DEF Quantity, SumFunction, SumOver
<1>6. LotSum(LotQty, lots) = SumOver(g, DOMAIN lots)
  BY DEF LotSum
<1>7. LotSum(LotQty, lots) \in Nat
  BY <1>2, OpenIs
<1> HIDE DEF f, g
<1>8. OpenQty(E, s) = Quantity(lots) /\ OpenShares(m, s) = LotSum(LotQty, lots)
  BY <1>1 DEF OpenQty, OpenShares
<1> QED BY <1>1, <1>4, <1>5, <1>6, <1>7, <1>8

\* The pairs there are.
LEMMA PairsAre ==
  ASSUME NEW E, Timely(E)
  PROVE  /\ Pairs(E) \in Seq(Trades) /\ DOMAIN Pairs(E) = 1..Len(Pairs(E))
         /\ \A i \in DOMAIN Pairs(E) : Pairs(E)[i] \in Trades
<1>1. PICK ps : ps = Pairs(E)
  OBVIOUS
<1>2. ps \in Seq(Trades)
  BY <1>1, Matched, ShapeIs DEF Sound, Pairs
<1>3. DOMAIN ps = 1..Len(ps) /\ \A i \in DOMAIN ps : ps[i] \in Trades
  BY <1>2
<1> QED BY <1>1, <1>2, <1>3

\* Shares that were bought are in pairs or open.
LEMMA SharesMatched ==
  ASSUME NEW E, Timely(E), NEW s \in Symbols
  PROVE  /\ SharesOf(Side(Of(E, s), "BUY")) = MatchedOf(E, s) + OpenQty(E, s)
         /\ SharesOf(Side(Of(E, s), "BUY")) = SumOver(Bought(s), E)
         /\ MatchedOf(E, s) = PairSum(TradeQty(s), Pairs(E)) /\ MatchedOf(E, s) \in Int
<1>1. PICK G : G = Side(Of(E, s), "BUY")
  OBVIOUS
<1>2. G \subseteq E /\ \A x \in E : Bought(s)[x] = IF x \in G THEN x.qty ELSE 0
  BY <1>1 DEF Side, Of, Bought, Timely
<1>3. SharesOf(G) = SumOver(Bought(s), E)
  <2>1. PICK W : W = Bought(s)
    OBVIOUS
  <2> QED BY <1>2, <2>1, SharesOfIs
<1>4. MatchedOf(E, s) = PairSum(TradeQty(s), Pairs(E)) /\ MatchedOf(E, s) \in Int
  <2>1. PICK ps, W : ps = Pairs(E) /\ W = TradeQty(s)
    OBVIOUS
  <2>2. ps \in Seq(Trades) /\ W \in [Trades -> Int] /\ \A i \in DOMAIN ps : ps[i] \in Trades
    BY <2>1, PairsAre, QtyWeights
  <2> DEFINE I == {j \in DOMAIN ps : ps[j].symbol = s}
             h == [i \in I |-> ps[i].qty]
  <2>3. \A i \in DOMAIN ps : W[ps[i]] = IF i \in I THEN ps[i].qty ELSE 0
    BY <2>1, <2>2 DEF TradeQty
  <2>4. DOMAIN h \subseteq DOMAIN ps /\ (\A i \in DOMAIN h : h[i] = W[ps[i]])
        /\ \A i \in DOMAIN ps \ DOMAIN h : W[ps[i]] = 0
    BY <2>3
  <2>5. MatchedOf(E, s) = SumFunction(h)
    BY <2>1 DEF MatchedOf
  <2> HIDE DEF h, I
  <2>6. SumFunction(h) = PairSum(W, ps)
    BY <2>2, <2>4, SomePairs
  <2>7. PairSum(W, ps) \in Int
    BY <2>2, PairSumTyped
  <2> QED BY <2>1, <2>5, <2>6, <2>7
<1>5. PICK m : m = FifoMatch(E)
  OBVIOUS
<1>6. /\ SumOver(Bought(s), E) = PairSum(TradeQty(s), m.pairs) + OpenShares(m, s) + SumOver(Bought(s), m.todo)
      /\ m.todo = {}
  BY <1>5, Matched DEF Sound, Done, Balanced
<1>7. SumOver(Bought(s), m.todo) = 0
  BY <1>6, SumEmpty
<1>8. OpenShares(m, s) = OpenQty(E, s) /\ OpenQty(E, s) \in Nat /\ m.pairs = Pairs(E)
  BY <1>5, OpenQtyIs DEF Pairs
<1> QED BY <1>1, <1>3, <1>4, <1>6, <1>7, <1>8

\* The net of executions is the sum of what they add and take.
LEMMA NetSum ==
  ASSUME NEW E, Timely(E), NEW G, G \subseteq E
  PROVE  Net(G) = SumOver(Signed, G) /\ Net(G) \in Int
<1>2. G \subseteq E /\ G \subseteq Executions /\ IsFiniteSet(G)
  BY FS_Subset DEF Timely
<1>3. Timely(G)
  BY <1>2 DEF Timely
<1> DEFINE B == [x \in G |-> IF x.side = "BUY" THEN x.qty ELSE 0]
           S == [x \in G |-> IF x.side = "SELL" THEN x.qty ELSE 0]
<1>4. /\ \A x \in G : B[x] = IF x \in Side(G, "BUY") THEN x.qty ELSE 0
      /\ \A x \in G : S[x] = IF x \in Side(G, "SELL") THEN x.qty ELSE 0
      /\ Side(G, "BUY") \subseteq G /\ Side(G, "SELL") \subseteq G
  BY DEF Side
<1>5. \A x \in G : Signed[x] \in Int /\ S[x] \in Int /\ B[x] = Signed[x] + S[x]
  <2> SUFFICES ASSUME NEW x \in G PROVE Signed[x] \in Int /\ S[x] \in Int /\ B[x] = Signed[x] + S[x]
    OBVIOUS
  <2>1. x \in Executions /\ x.side \in {"BUY", "SELL"} /\ x.qty \in Nat
    BY <1>2, ExecutionIs
  <2> QED BY <2>1 DEF Signed
<1> HIDE DEF B, S
<1>6. SharesOf(Side(G, "BUY")) = SumOver(B, G)
  <2>1. PICK H : H = Side(G, "BUY")
    OBVIOUS
  <2> QED BY <1>3, <1>4, <2>1, SharesOfIs
<1>7. SharesOf(Side(G, "SELL")) = SumOver(S, G) /\ SharesOf(Side(G, "SELL")) \in Int
  <2>1. PICK H : H = Side(G, "SELL")
    OBVIOUS
  <2> QED BY <1>3, <1>4, <2>1, SharesOfIs
<1>8. PICK W : W = Signed
  OBVIOUS
<1>9. SumOver(B, G) = SumOver(W, G) + SumOver(S, G)
  <2>1. \A x \in G : W[x] \in Int /\ S[x] \in Int /\ B[x] = W[x] + S[x]
    BY <1>5, <1>8
  <2> QED BY <1>2, <2>1, SumPlus
<1>10. SumOver(W, G) \in Int
  <2>1. \A x \in G : W[x] \in Int
    BY <1>5, <1>8
  <2> QED BY <1>2, <2>1, SumTyped
<1>11. Net(G) = SumOver(W, G)
  BY <1>6, <1>7, <1>9, <1>10 DEF Net
<1> QED BY <1>8, <1>10, <1>11

\* What was gained since a place is the net of the executions from there on.
LEMMA NetIs ==
  ASSUME NEW E, Timely(E), NEW F, F \subseteq E, NEW t
  PROVE  Net({ex \in F : ex.at >= t}) = Gained(F, t)
<1>1. PICK G : G = {ex \in F : ex.at >= t}
  OBVIOUS
<1>2. G \subseteq E
  BY <1>1
<1>3. Net(G) = SumOver(Signed, G)
  BY <1>2, NetSum
<1> QED BY <1>1, <1>3 DEF Gained

\* What is held is the most gained since any place.
LEMMA HeldAsReadIs ==
  ASSUME NEW E, Timely(E), NEW F, F \subseteq E, NEW h, IsHeld(F, h)
  PROVE  HeldAsRead(F) = h
<1>1. h \in Nat /\ (\A t \in Places : Gained(F, t) <= h) /\ (h = 0 \/ \E t \in Places : Gained(F, t) = h)
  BY DEF IsHeld
<1>2. IsFiniteSet(F) /\ F \subseteq Executions
  BY FS_Subset DEF Timely
<1>3. \A t \in Places : Gained(F, t) \in Int
  BY <1>2, GainedTyped
<1> DEFINE S == {0} \cup {Net({ex \in F : ex.at >= t}) : t \in Places}
<1>4. S = {0} \cup {Gained(F, t) : t \in Places}
  BY NetIs
<1>5. h \in S /\ \A y \in S : y \in Int /\ h >= y
  <2>1. \A y : y \in S <=> y = 0 \/ \E t \in Places : y = Gained(F, t)
    BY <1>4
  <2> HIDE DEF S
  <2>2. h \in S
    BY <1>1, <2>1
  <2>3. \A y \in S : y \in Int /\ h >= y
    BY <1>1, <1>3, <2>1
  <2> QED BY <2>2, <2>3
<1>6. HeldAsRead(F) = Max(S)
  BY DEF HeldAsRead
<1> HIDE DEF S
<1>7. Max(S) \in S /\ \A y \in S : Max(S) >= y
  BY <1>5 DEF Max
<1>8. PICK k : k = Max(S)
  OBVIOUS
<1>9. k \in Int /\ h \in Int /\ k >= h /\ h >= k
  BY <1>5, <1>7, <1>8
<1> QED BY <1>6, <1>8, <1>9

\* Purchases add to what is held and sales take from it.
LEMMA NetMore ==
  ASSUME NEW E, Timely(E), NEW H, H \subseteq E, NEW G, G \subseteq H
  PROVE  /\ (\A x \in H \ G : x.side = "BUY") => Net(G) <= Net(H)
         /\ (\A x \in H \ G : x.side = "SELL") => Net(H) <= Net(G)
<1>1. IsFiniteSet(H) /\ G \subseteq E /\ H \subseteq Executions
  BY FS_Subset DEF Timely
<1>2. PICK W : W = Signed
  OBVIOUS
<1>3. \A x \in H : W[x] \in Int /\ (x.side = "BUY" => W[x] >= 0) /\ (x.side = "SELL" => W[x] <= 0)
  <2> SUFFICES ASSUME NEW x \in H
               PROVE  W[x] \in Int /\ (x.side = "BUY" => W[x] >= 0) /\ (x.side = "SELL" => W[x] <= 0)
    OBVIOUS
  <2>1. x \in Executions /\ x.side \in {"BUY", "SELL"} /\ x.qty \in Nat
    BY <1>1, ExecutionIs
  <2> QED BY <1>2, <2>1 DEF Signed
<1> DEFINE f == [x \in H |-> IF x \in G THEN W[x] ELSE 0]
<1>4. \A x \in H : f[x] \in Int /\ f[x] = IF x \in G THEN W[x] ELSE 0
  BY <1>3
<1> HIDE DEF f
<1>5. SumOver(f, H) = SumOver(W, G)
  <2>1. (\A x \in G : f[x] = W[x]) /\ (\A x \in H \ G : f[x] = 0) /\ \A x \in H : W[x] \in Int
    BY <1>3, <1>4
  <2> QED BY <1>1, <2>1, SumPart
<1>6. Net(G) = SumOver(f, H) /\ Net(H) = SumOver(W, H)
  BY <1>1, <1>2, <1>5, NetSum
<1>7. ASSUME \A x \in H \ G : x.side = "BUY" PROVE Net(G) <= Net(H)
  <2>1. \A x \in H : f[x] \in Int /\ W[x] \in Int /\ f[x] <= W[x]
    BY <1>3, <1>4, <1>7
  <2> QED BY <1>1, <1>6, <2>1, SumAtMost
<1>8. ASSUME \A x \in H \ G : x.side = "SELL" PROVE Net(H) <= Net(G)
  <2>1. \A x \in H : W[x] \in Int /\ f[x] \in Int /\ W[x] <= f[x]
    BY <1>3, <1>4, <1>8
  <2> QED BY <1>1, <1>6, <2>1, SumAtMost
<1> QED BY <1>7, <1>8

\* What comes later in the order read is not earlier.
LEMMA TimeIs ==
  ASSUME NEW E, Timely(E), NEW x \in E, NEW y \in E
  PROVE  /\ x.at \in Places /\ x.at \in Int /\ Time[x.at] \in Int
         /\ x.at <= y.at => Time[x.at] <= Time[y.at]
<1>1. x \in Executions /\ y \in Executions
  BY DEF Timely
<1>2. x.at \in Places /\ x.at \in Int /\ y.at \in Places /\ y.at \in Int
  BY <1>1, ExecutionIs
<1>3. Time[x.at] \in Int /\ Time[y.at] \in Int
  BY <1>2, HistoryConstants
<1>4. x.at < y.at => Time[x.at] <= Time[y.at]
  BY <1>2, HistoryConstants
<1> QED BY <1>2, <1>3, <1>4

\* Nothing that happened from some time on nets more than is held.
LEMMA SinceHeld ==
  ASSUME NEW E, Timely(E), NEW F, F \subseteq E, NEW h, IsHeld(F, h),
         NEW G, G \subseteq F, \A x \in G, y \in F : x.at <= y.at => y \in G
  PROVE  Net(G) \in Int /\ Net(G) <= h
<1>1. h \in Nat /\ \A t \in Places : Gained(F, t) <= h
  BY DEF IsHeld
<1>2. G \subseteq E /\ IsFiniteSet(G) /\ G \subseteq Executions
  BY FS_Subset DEF Timely
<1>3. Net(G) = SumOver(Signed, G) /\ Net(G) \in Int
  BY <1>2, NetSum
<1>4. CASE G = {}
  BY <1>1, <1>3, <1>4, SumEmpty
<1>5. CASE G # {}
  <2>1. PICK x \in G : \A other \in G : x.at <= other.at
    BY <1>2, <1>5, OldestIs
  <2>2. x.at \in Places /\ \A y \in F : y.at \in Int
    BY <1>2, TimeIs
  <2>3. \A y \in F : y \in G <=> y.at >= x.at
    BY <1>2, <2>1, <2>2, TimeIs
  <2>4. G = {y \in F : y.at >= x.at}
    BY <2>3
  <2>5. Net(G) = Gained(F, x.at)
    BY <2>4, NetIs
  <2> QED BY <1>1, <1>3, <2>2, <2>5
<1> QED BY <1>4, <1>5

\* Where no purchase has the time of a sale, the most that was gained since a
\* place was gained since a time.
LEMMA HeldIs ==
  ASSUME NEW E, Timely(E), NEW F, F \subseteq E, NEW h, IsHeld(F, h), Untied(F)
  PROVE  Held(F) = h
<1> DEFINE From(t) == {ex \in F : Time[ex.at] >= Time[t]}
<1>0. IsFiniteSet(F) /\ F \subseteq Executions
  BY FS_Subset DEF Timely
<1>1. h \in Nat /\ (h = 0 \/ \E t \in Places : Gained(F, t) = h)
  BY DEF IsHeld
<1>2. (\A x \in F : x.at \in Places) /\ \A t \in Places : t \in Int /\ Time[t] \in Int
  BY TimeIs, HistoryConstants
<1>3. \A s, t \in Places : s <= t => Time[s] <= Time[t]
  <2> SUFFICES ASSUME NEW s \in Places, NEW t \in Places, s <= t PROVE Time[s] <= Time[t]
    OBVIOUS
  <2>1. s \in Int /\ t \in Int /\ Time[s] \in Int
    BY <1>2
  <2>2. CASE s = t
    BY <2>1, <2>2
  <2>3. CASE s < t
    BY <2>3, HistoryConstants
  <2> QED BY <2>1, <2>2, <2>3
<1>4. ASSUME NEW t \in Places PROVE Net(From(t)) \in Int /\ Net(From(t)) <= h
  <2>1. PICK G : G = From(t)
    OBVIOUS
  <2>2. G \subseteq F /\ \A x \in G, y \in F : x.at <= y.at => y \in G
    BY <1>2, <1>3, <2>1
  <2>3. Net(G) \in Int /\ Net(G) <= h
    BY <2>2, SinceHeld
  <2> QED BY <2>1, <2>3
<1>5. h = 0 \/ \E t \in Places : Net(From(t)) = h
  <2> SUFFICES ASSUME h # 0 PROVE \E t \in Places : Net(From(t)) = h
    OBVIOUS
  <2>1. PICK p \in Places : Gained(F, p) = h
    BY <1>1
  <2>2. PICK G : G = {ex \in F : ex.at >= p}
    OBVIOUS
  <2>3. Net(G) = h /\ G \subseteq F /\ G \subseteq E /\ IsFiniteSet(G) /\ G \subseteq Executions
    <3>1. Net(G) = h
      BY <2>1, <2>2, NetIs
    <3>2. G \subseteq F
      BY <2>2
    <3> QED BY <1>0, <3>1, <3>2, FS_Subset
  <2>4. Net({}) = 0
    BY NetSum, SumEmpty
  <2>5. G # {}
    BY <2>3, <2>4
  <2>6. PICK x \in G : \A other \in G : x.at <= other.at
    BY <2>3, <2>5, OldestIs
  <2>7. \A y \in F : y \in G <=> x.at <= y.at
    BY <1>2, <1>3, <2>2, <2>3, <2>6
  <2>8. CASE x.side = "BUY"
    <3>1. PICK H : H = From(x.at)
      OBVIOUS
    <3>2. G \subseteq H /\ H \subseteq E
      BY <1>2, <1>3, <2>3, <2>6, <2>7, <3>1
    <3>3. ASSUME NEW y \in H \ G PROVE y.side = "BUY"
      <4>1. y \in F /\ Time[y.at] >= Time[x.at] /\ ~ (x.at <= y.at)
        BY <2>7, <3>1, <3>3
      <4>2. Time[y.at] = Time[x.at]
        BY <1>2, <1>3, <2>3, <4>1
      <4> QED BY <2>3, <2>8, <4>1, <4>2 DEF Untied
    <3>4. h <= Net(H)
      BY <2>3, <3>2, <3>3, NetMore
    <3>5. x.at \in Places
      BY <1>2, <2>3
    <3> HIDE DEF From
    <3>6. Net(From(x.at)) \in Int /\ Net(From(x.at)) <= h /\ h <= Net(From(x.at))
      BY <1>4, <3>1, <3>4, <3>5
    <3> QED BY <1>1, <3>5, <3>6
  <2>9. CASE x.side = "SELL"
    <3>1. PICK H : H = {ex \in F : Time[ex.at] > Time[x.at]}
      OBVIOUS
    <3>2. H \subseteq G /\ H \subseteq E /\ H \subseteq F
      BY <1>2, <1>3, <2>3, <2>7, <3>1
    <3>3. ASSUME NEW y \in G \ H PROVE y.side = "SELL"
      <4>1. y \in F /\ ~ (Time[y.at] > Time[x.at]) /\ x.at <= y.at
        BY <2>3, <2>7, <3>1, <3>3
      <4>2. Time[y.at] = Time[x.at]
        BY <1>2, <1>3, <2>3, <4>1
      <4> QED BY <2>3, <2>9, <4>1, <4>2 DEF Untied
    <3>4. h <= Net(H)
      BY <2>3, <3>2, <3>3, NetMore
    <3>5. H # {}
      BY <1>1, <2>4, <3>4
    <3>6. PICK z \in H : \A other \in H : z.at <= other.at
      <4>1. IsFiniteSet(H) /\ H \subseteq Executions
        BY <1>0, <3>2, FS_Subset
      <4> QED BY <3>5, <4>1, OldestIs
    <3>7. H = From(z.at)
      <4>1. \A y \in F : Time[y.at] > Time[x.at] <=> Time[y.at] >= Time[z.at]
        BY <1>2, <1>3, <2>3, <3>1, <3>2, <3>6
      <4> QED BY <3>1, <4>1
    <3>8. z.at \in Places
      BY <1>2, <3>2
    <3> HIDE DEF From
    <3>9. Net(From(z.at)) \in Int /\ Net(From(z.at)) <= h /\ h <= Net(From(z.at))
      BY <1>4, <3>4, <3>7, <3>8
    <3> QED BY <1>1, <3>8, <3>9
  <2>10. x.side \in {"BUY", "SELL"}
    BY <2>3, ExecutionIs
  <2> QED BY <2>8, <2>9, <2>10
<1> DEFINE S == {0} \cup {Net(From(t)) : t \in Places}
<1>6. h \in S /\ \A y \in S : y \in Int /\ h >= y
  <2>1. \A y : y \in S <=> y = 0 \/ \E t \in Places : y = Net(From(t))
    OBVIOUS
  <2> HIDE DEF S, From
  <2>2. h \in S
    BY <1>5, <2>1
  <2>3. \A y \in S : y \in Int /\ h >= y
    BY <1>1, <1>4, <2>1
  <2> QED BY <2>2, <2>3
<1>7. Held(F) = Max(S)
  BY DEF Held
<1> HIDE DEF S
<1>8. Max(S) \in S /\ \A y \in S : Max(S) >= y
  BY <1>6 DEF Max
<1>9. PICK k : k = Max(S)
  OBVIOUS
<1>10. k \in Int /\ h \in Int /\ k >= h /\ h >= k
  BY <1>6, <1>8, <1>9
<1> QED BY <1>7, <1>9, <1>10

\* When nothing is left to sell, what is open is held.
LEMMA OpenIsHeldAsRead ==
  ASSUME NEW E, Timely(E), NEW s \in Symbols
  PROVE  /\ OpenQty(E, s) = HeldAsRead(Of(E, s))
         /\ Untied(Of(E, s)) => OpenQty(E, s) = Held(Of(E, s))
<1>1. PICK m : m = FifoMatch(E)
  OBVIOUS
<1>2. Sound(E, m) /\ Done(m) /\ m.todo = {} /\ Shape(E, m) /\ m.remaining \in Nat
  BY <1>1, Matched, ShapeIs DEF Sound, Done
<1>3. OpenShares(m, s) = OpenQty(E, s) /\ OpenQty(E, s) \in Nat
  BY <1>1, OpenQtyIs
<1>4. Holds(m, s) = OpenShares(m, s)
  <2>1. CASE m.remaining > 0 /\ m.at.symbol = s
    <3>1. m.lots[s] = <<>>
      BY <1>2, <2>1 DEF Done, Selling
    <3>2. OpenShares(m, s) = 0
      BY <3>1, NothingSums DEF OpenShares
    <3> QED BY <1>2, <2>1, <3>2 DEF Holds, Least
  <2>2. CASE ~ (m.remaining > 0 /\ m.at.symbol = s)
    BY <2>2 DEF Holds
  <2> QED BY <2>1, <2>2
<1>5. PICK F, h : F = Of(E, s) /\ h = OpenQty(E, s)
  OBVIOUS
<1>6. IsHeld(F, h)
  <2>1. E \ m.todo = E
    BY <1>2
  <2>2. IsHeld(Of(E \ m.todo, s), Holds(m, s))
    BY <1>2 DEF Sound, Holding
  <2> QED BY <1>3, <1>4, <1>5, <2>1, <2>2
<1>7. F \subseteq E
  BY <1>5 DEF Of
<1> QED BY <1>5, <1>6, <1>7, HeldAsReadIs, HeldIs

\* The lots of an execution have no negative number of shares.
LEMMA LotAtTyped ==
  ASSUME NEW lots \in Seq(Lots), NEW t
  PROVE  LotSum(LotAt(t), lots) \in Nat
<1> DEFINE f == [i \in DOMAIN lots |-> LotAt(t)[lots[i]]]
<1>1. DOMAIN lots = 1..Len(lots) /\ IsFiniteSet(1..Len(lots))
  BY FS_Interval
<1>2. \A i \in DOMAIN lots : f[i] \in Int /\ f[i] >= 0
  <2> SUFFICES ASSUME NEW i \in DOMAIN lots PROVE f[i] \in Int /\ f[i] >= 0
    OBVIOUS
  <2>1. lots[i] \in Lots
    OBVIOUS
  <2>2. LotAt(t)[lots[i]] = IF lots[i].at = t THEN lots[i].qty ELSE 0
    BY <2>1 DEF LotAt
  <2>3. lots[i].qty \in Nat
    BY <2>1 DEF Lots
  <2> QED BY <2>2, <2>3
<1>3. LotSum(LotAt(t), lots) = SumOver(f, DOMAIN lots)
  BY DEF LotSum
<1> HIDE DEF f
<1>4. SumOver(f, DOMAIN lots) \in Int /\ SumOver(f, DOMAIN lots) >= 0
  BY <1>1, <1>2, SumTyped
<1> QED BY <1>3, <1>4

\* No execution is in pairs with more shares than it has.
LEMMA MatchedWithin ==
  ASSUME NEW E, Timely(E), NEW x \in E
  PROVE  MatchedAt(E, {x.at}) <= x.qty
<1>1. PICK m : m = FifoMatch(E)
  OBVIOUS
<1>2. Sound(E, m) /\ Shape(E, m) /\ m.todo = {}
  BY <1>1, Matched DEF Sound, Done
<1>3. Involved(m, x) + Unserved(m, x) <= x.qty
  BY <1>2 DEF Sound, Within
<1>4. x.qty \in Nat /\ Involved(m, x) \in Int /\ m.remaining \in Nat
  BY <1>2, UnservedTyped
<1>5. Unserved(m, x) \in Nat
  <2>1. x.symbol \in Symbols
    BY ExecutionIs DEF Timely
  <2>2. m.lots[x.symbol] \in Seq(Lots)
    BY <1>2, <2>1, ShapeIs
  <2>3. LotSum(LotAt(x.at), m.lots[x.symbol]) \in Nat
    BY <2>2, LotAtTyped
  <2> QED BY <1>2, <1>4, <2>3 DEF Unserved
<1>6. MatchedAt(E, {x.at}) = Involved(m, x)
  <2>1. PICK ps, t, W : ps = Pairs(E) /\ t = x.at /\ W = TradeAt(t)
    OBVIOUS
  <2>2. ps \in Seq(Trades) /\ W \in [Trades -> Int] /\ \A i \in DOMAIN ps : ps[i] \in Trades
    BY <2>1, PairsAre, AtWeights
  <2> DEFINE I == {j \in DOMAIN ps : {ps[j].buy_at, ps[j].sell_at} \cap {t} # {}}
             h == [i \in I |-> ps[i].qty]
  <2>3. \A i \in DOMAIN ps : W[ps[i]] = IF i \in I THEN ps[i].qty ELSE 0
    <3> SUFFICES ASSUME NEW i \in DOMAIN ps PROVE W[ps[i]] = IF i \in I THEN ps[i].qty ELSE 0
      OBVIOUS
    <3>1. ps[i] \in Trades
      BY <2>2
    <3>2. i \in I <=> t \in {ps[i].buy_at, ps[i].sell_at}
      OBVIOUS
    <3> QED BY <2>1, <3>1, <3>2 DEF TradeAt
  <2>4. DOMAIN h \subseteq DOMAIN ps /\ (\A i \in DOMAIN h : h[i] = W[ps[i]])
        /\ \A i \in DOMAIN ps \ DOMAIN h : W[ps[i]] = 0
    BY <2>3
  <2>5. MatchedAt(E, {x.at}) = SumFunction(h)
    BY <2>1 DEF MatchedAt
  <2> HIDE DEF h, I
  <2>6. SumFunction(h) = PairSum(W, ps)
    BY <2>2, <2>4, SomePairs
  <2> QED BY <1>1, <2>1, <2>5, <2>6 DEF Involved, Pairs
<1> QED BY <1>3, <1>4, <1>5, <1>6

-----------------------------------------------------------------------------
(* What the trades of a closed account gain *)

\* Closed accounts have gained, symbol by symbol, what came in.
LEMMA ClosedGains ==
  ASSUME NEW E, Timely(E), NEW s \in Symbols, OpenQty(E, s) = 0,
         SharesOf(Side(Of(E, s), "BUY")) = SharesOf(Side(Of(E, s), "SELL"))
  PROVE  PairSum(TradeGain(s), Pairs(E)) = SumOver(Cash(s), E)
<1>1. PICK m : m = FifoMatch(E)
  OBVIOUS
<1>2. Sound(E, m) /\ Shape(E, m) /\ m.todo = {} /\ m.pairs = Pairs(E)
  BY <1>1, Matched DEF Sound, Done, Pairs
<1>3. PICK G : G = Side(Of(E, s), "SELL")
  OBVIOUS
<1>4. G \subseteq E /\ \A x \in E : SoldOf(s)[x] = IF x \in G THEN x.qty ELSE 0
  BY <1>3 DEF Side, Of, SoldOf, Timely
<1>5. SharesOf(G) = SumOver(SoldOf(s), E)
  <2>1. PICK W : W = SoldOf(s)
    OBVIOUS
  <2> QED BY <1>4, <2>1, SharesOfIs
<1>6. SharesOf(G) = PairSum(TradeQty(s), m.pairs)
  <2>1. SharesOf(G) = MatchedOf(E, s) + 0 /\ MatchedOf(E, s) \in Int
    BY <1>3, SharesMatched
  <2>2. MatchedOf(E, s) = PairSum(TradeQty(s), Pairs(E))
    BY SharesMatched
  <2> QED BY <1>2, <2>1, <2>2
<1>7. SumOver(SoldOf(s), m.todo) = 0 /\ SumOver(Cash(s), m.todo) = 0
  BY <1>2, SumEmpty
<1>8. LotSum(LotCost, m.lots[s]) = 0
  <2>1. PICK lots : lots = m.lots[s]
    OBVIOUS
  <2>2. lots \in Seq(Lots)
    BY <1>2, <2>1, ShapeIs
  <2>3. LotSum(LotQty, lots) = 0
    BY <1>1, <2>1, OpenQtyIs DEF OpenShares
  <2>4. lots = <<>>
    <3> SUFFICES ASSUME lots # <<>> PROVE FALSE
      OBVIOUS
    <3>1. 1 \in 1..Len(lots) /\ lots[1] \in Lots
      BY <2>2
    <3>2. lots[1].qty \in Nat \ {0}
      BY <3>1 DEF Lots
    <3>3. lots[1].qty <= LotSum(LotQty, lots)
      BY <2>2, <3>1, OpenIs
    <3> QED BY <2>3, <3>2, <3>3
  <2> QED BY <2>1, <2>4, NothingSums
<1>9. /\ SumOver(SoldOf(s), E) \in Int /\ SumOver(Cash(s), E) \in Int /\ Rest(m, s) \in Nat
      /\ PairSum(TradeGain(s), m.pairs) \in Int
  BY <1>2, PaidTyped
<1>10. Short(E, m, s) \in Nat /\ (Short(E, m, s) = 0 => ShortCash(E, m, s) = 0)
  BY <1>2 DEF Sound, Paid
<1>11. Short(E, m, s) = 0 - Rest(m, s)
  BY <1>5, <1>6, <1>7, <1>9 DEF Short
<1>12. Rest(m, s) = 0 /\ Short(E, m, s) = 0
  BY <1>9, <1>10, <1>11
<1>13. RestCash(m, s) = 0
  BY <1>2, <1>12, ShapeIs DEF Rest, RestCash
<1>14. ShortCash(E, m, s) = SumOver(Cash(s), E) - PairSum(TradeGain(s), m.pairs)
  BY <1>7, <1>8, <1>9, <1>13 DEF ShortCash
<1> QED BY <1>2, <1>9, <1>10, <1>12, <1>14

\* The gains of all pairs, symbol by symbol.
LEMMA GainsBySymbol ==
  ASSUME NEW ps \in Seq(Trades), NEW F, \A s \in Symbols : F[s] = PairSum(TradeGain(s), ps)
  PROVE  SumOver([i \in DOMAIN ps |-> Gain(ps[i])], DOMAIN ps) = SumOver(F, Symbols)
<1>1. PICK D : D = DOMAIN ps
  OBVIOUS
<1> DEFINE f == [i \in D |-> Gain(ps[i])]
           key == [i \in D |-> ps[i].symbol]
<1>2. IsFiniteSet(D) /\ IsFiniteSet(Symbols)
  <2>1. D = 1..Len(ps)
    BY <1>1
  <2> QED BY <2>1, FS_Interval, HistoryConstants
<1>3. \A i \in D : ps[i] \in Trades
  BY <1>1
<1>4. \A i \in D : f[i] \in Int /\ key[i] \in Symbols /\ f[i] = Gain(ps[i]) /\ key[i] = ps[i].symbol
  BY <1>3, GainIs DEF Trades
<1>5. ASSUME NEW s \in Symbols PROVE F[s] = SumOver(f, {i \in D : key[i] = s})
  <2>1. PICK W, I : W = TradeGain(s) /\ I = {i \in D : key[i] = s}
    OBVIOUS
  <2> DEFINE h == [i \in I |-> f[i]]
  <2>2. W \in [Trades -> Int] /\ DOMAIN h \subseteq DOMAIN ps /\ DOMAIN h = I
    BY <1>1, <2>1, CashWeights
  <2>3. \A i \in D : W[ps[i]] = IF i \in I THEN f[i] ELSE 0
    BY <1>3, <1>4, <2>1 DEF TradeGain
  <2>4. (\A i \in DOMAIN h : h[i] = W[ps[i]]) /\ (\A i \in DOMAIN ps \ DOMAIN h : W[ps[i]] = 0)
    BY <1>1, <2>1, <2>3
  <2>5. IsFiniteSet(I) /\ \A i \in I : h[i] = f[i]
    BY <1>2, <2>1, FS_Subset
  <2>6. SumFunction(h) = SumOver(h, I)
    BY <2>2 DEF SumFunction, SumOver
  <2> HIDE DEF h, f, key
  <2>7. SumFunction(h) = PairSum(W, ps)
    BY <2>2, <2>4, SomePairs
  <2>8. SumOver(h, I) = SumOver(f, I)
    BY <2>5, SumSame
  <2> QED BY <2>1, <2>6, <2>7, <2>8
<1>6. f = [i \in DOMAIN ps |-> Gain(ps[i])]
  BY <1>1
<1> HIDE DEF f, key
<1>7. SumOver(f, D) = SumOver(F, Symbols)
  <2>1. \A i \in D : key[i] \in Symbols
    BY <1>4
  <2>2. \A i \in D : f[i] \in Int
    BY <1>4
  <2>3. \A c \in Symbols : F[c] = SumOver(f, {i \in D : key[i] = c})
    BY <1>5
  <2> DEFINE H == [c \in Symbols |-> SumOver(f, {i \in D : key[i] = c})]
  <2>4. SumOver(f, D) = SumOver(H, Symbols)
    BY <1>2, <2>1, <2>2, SumGrouped
  <2>5. \A c \in Symbols : H[c] = F[c]
    BY <2>3
  <2> HIDE DEF H
  <2>6. SumOver(H, Symbols) = SumOver(F, Symbols)
    BY <1>2, <2>5, SumSame
  <2> QED BY <2>4, <2>6
<1> QED BY <1>1, <1>6, <1>7

\* The money of all executions, symbol by symbol.
LEMMA MoneyBySymbol ==
  ASSUME NEW E, Timely(E), NEW F, \A s \in Symbols : F[s] = SumOver(Cash(s), E)
  PROVE  Money(E) = SumOver(F, Symbols)
<1> DEFINE f == [ex \in E |-> IF ex.side = "SELL" THEN ex.qty * ex.price ELSE 0 - ex.qty * ex.price]
           key == [ex \in E |-> ex.symbol]
<1>1. IsFiniteSet(E) /\ IsFiniteSet(Symbols) /\ E \subseteq Executions
  BY HistoryConstants DEF Timely
<1>2. \A x \in E : f[x] \in Int /\ key[x] \in Symbols /\ key[x] = x.symbol
  <2> SUFFICES ASSUME NEW x \in E PROVE f[x] \in Int /\ key[x] \in Symbols /\ key[x] = x.symbol
    OBVIOUS
  <2>1. x.qty \in Int /\ x.price \in Int /\ x.symbol \in Symbols
    BY <1>1, ExecutionIs
  <2>2. x.qty * x.price \in Int
    BY <2>1
  <2> QED BY <2>1, <2>2
<1>3. ASSUME NEW s \in Symbols PROVE F[s] = SumOver(f, {x \in E : key[x] = s})
  <2>1. PICK W, U : W = Cash(s) /\ U = {x \in E : key[x] = s}
    OBVIOUS
  <2>2. \A x \in E : W[x] = IF x.symbol # s THEN 0 ELSE f[x]
    BY <1>1, <2>1 DEF Cash
  <2>3. U \in SUBSET E /\ (\A x \in U : W[x] = f[x]) /\ (\A x \in E \ U : W[x] = 0)
    BY <1>2, <2>1, <2>2
  <2> HIDE DEF f, key
  <2>4. SumOver(W, E) = SumOver(f, U)
    BY <1>1, <1>2, <2>3, SumPart
  <2> QED BY <2>1, <2>4
<1>4. Money(E) = SumOver(f, E)
  BY DEF Money, SumFunction, SumOver
<1> HIDE DEF f, key
<1>5. \A x \in E : key[x] \in Symbols
  BY <1>2
<1>6. \A x \in E : f[x] \in Int
  BY <1>2
<1>7. \A c \in Symbols : F[c] = SumOver(f, {x \in E : key[x] = c})
  BY <1>3
<1>8. PICK g, k : g = f /\ k = key
  OBVIOUS
<1>9. (\A x \in E : k[x] \in Symbols) /\ (\A x \in E : g[x] \in Int)
  BY <1>5, <1>6, <1>8
<1>10. \A c \in Symbols : F[c] = SumOver(g, {x \in E : k[x] = c})
  BY <1>7, <1>8
<1>11. IsFiniteSet(E) /\ IsFiniteSet(Symbols)
  BY <1>1
<1>12. SumOver(g, E) = SumOver(F, Symbols)
  <2> DEFINE H == [c \in Symbols |-> SumOver(g, {x \in E : k[x] = c})]
  <2>1. SumOver(g, E) = SumOver(H, Symbols)
    BY <1>9, <1>11, SumGrouped
  <2>2. \A c \in Symbols : H[c] = F[c]
    BY <1>10
  <2> HIDE DEF H
  <2>3. SumOver(H, Symbols) = SumOver(F, Symbols)
    BY <1>11, <2>2, SumSame
  <2> QED BY <2>1, <2>3
<1> QED BY <1>4, <1>8, <1>12

\* What is won and lost is what all trades gain, and what is won is not negative.
LEMMA GrossIs ==
  ASSUME NEW E, Timely(E)
  PROVE  /\ Summary(E).gross_wins \in Nat /\ Summary(E).gross_losses \in Int
         /\ Summary(E).gross_wins - Summary(E).gross_losses
              = SumOver([i \in DOMAIN Pairs(E) |-> Gain(Pairs(E)[i])], DOMAIN Pairs(E))
<1>1. PICK ps, D : ps = Pairs(E) /\ D = DOMAIN ps
  OBVIOUS
<1>2. PICK V, L : V = {i \in D : Wins(ps[i])} /\ L = D \ V
  OBVIOUS
<1>3. IsFiniteSet(D) /\ V \subseteq D /\ L \subseteq D /\ \A i \in D : ps[i] \in Trades
  <2>1. D = 1..Len(ps) /\ \A i \in D : ps[i] \in Trades
    BY <1>1, PairsAre
  <2> QED BY <1>2, <2>1, FS_Interval
<1> DEFINE f == [i \in D |-> Gain(ps[i])]
           v == [i \in V |-> Gain(ps[i])]
           l == [i \in L |-> Gain(ps[i])]
           vv == [i \in D |-> IF i \in V THEN f[i] ELSE 0]
           ll == [i \in D |-> IF i \in V THEN 0 ELSE f[i]]
<1>4. \A i \in D : f[i] \in Int /\ vv[i] \in Int /\ ll[i] \in Int /\ f[i] = vv[i] + ll[i]
  <2> SUFFICES ASSUME NEW i \in D PROVE f[i] \in Int /\ vv[i] \in Int /\ ll[i] \in Int /\ f[i] = vv[i] + ll[i]
    OBVIOUS
  <2>1. f[i] \in Int
    BY <1>3, GainIs
  <2> QED BY <2>1
<1>5. \A i \in V : f[i] >= 0
  <2> SUFFICES ASSUME NEW i \in V PROVE Gain(ps[i]) >= 0
    BY <1>3
  <2>1. PICK p : p = ps[i]
    OBVIOUS
  <2>2. p \in Trades /\ p.sell_price > p.buy_price
    BY <1>2, <1>3, <2>1 DEF Wins
  <2>3. p.qty \in Nat /\ p.sell_price \in Int /\ p.buy_price \in Int
    <3>1. p.qty \in Nat /\ p.sell_price \in Prices /\ p.buy_price \in Prices
      BY <2>2 DEF Trades
    <3> QED BY <3>1, PricesAre
  <2>4. PICK d : d = p.sell_price - p.buy_price
    OBVIOUS
  <2>5. d \in Nat
    BY <2>2, <2>3, <2>4
  <2>6. d * p.qty \in Nat
    BY <2>3, <2>5
  <2> QED BY <2>1, <2>4, <2>6 DEF Gain
<1>6. /\ Summary(E).gross_wins = SumOver(v, V)
      /\ Summary(E).gross_losses = 0 - SumOver(l, L)
  BY <1>1, <1>2 DEF Summary, SumFunction, SumOver
<1>7. /\ \A i \in V : v[i] = f[i] /\ vv[i] = f[i]
      /\ \A i \in L : l[i] = f[i] /\ ll[i] = f[i]
      /\ \A i \in D \ V : vv[i] = 0
      /\ \A i \in D \ L : ll[i] = 0
  BY <1>2, <1>3
<1>8. f = [i \in DOMAIN Pairs(E) |-> Gain(Pairs(E)[i])]
  BY <1>1
<1>9. IsFiniteSet(V) /\ IsFiniteSet(L) /\ V \in SUBSET D /\ L \in SUBSET D
  BY <1>3, FS_Subset
<1> HIDE DEF f, v, l, vv, ll
<1>10. SumOver(v, V) = SumOver(f, V)
  BY <1>7, <1>9, SumSame
<1>11. SumOver(l, L) = SumOver(f, L)
  BY <1>7, <1>9, SumSame
<1>12. SumOver(vv, D) = SumOver(f, V)
  BY <1>3, <1>4, <1>7, <1>9, SumPart
<1>13. SumOver(ll, D) = SumOver(f, L)
  BY <1>3, <1>4, <1>7, <1>9, SumPart
<1>14. SumOver(f, D) = SumOver(vv, D) + SumOver(ll, D)
  BY <1>3, <1>4, SumPlus
<1>15. SumOver(f, V) \in Int /\ SumOver(f, V) >= 0
  <2>1. \A i \in V : f[i] \in Int
    BY <1>4, <1>9
  <2> QED BY <1>5, <1>9, <2>1, SumTyped
<1>16. SumOver(f, L) \in Int
  <2>1. \A i \in L : f[i] \in Int
    BY <1>4, <1>9
  <2> QED BY <1>9, <2>1, SumTyped
<1>17. SumOver(f, D) = Summary(E).gross_wins - Summary(E).gross_losses
  BY <1>6, <1>10, <1>11, <1>12, <1>13, <1>14, <1>15, <1>16
<1> QED BY <1>1, <1>6, <1>8, <1>10, <1>11, <1>15, <1>16, <1>17

-----------------------------------------------------------------------------
(* An execution that is newer than all *)

\* n is m with ex still to be matched.
Later(m, n, ex) == /\ n.todo = m.todo \cup {ex} /\ n.at = m.at /\ n.remaining = m.remaining
                   /\ n.lots = m.lots /\ n.pairs = m.pairs

\* While there are others, the loop does what it does without it.
LEMMA LoopLater ==
  ASSUME NEW E, Timely(E), NEW ex \in Executions, \A x \in E : x.at < ex.at, Timely(E \cup {ex}),
         NEW m, Shape(E, m), NEW n, Shape(E \cup {ex}, n), Later(m, n, ex), ~ Done(m)
  PROVE  Later(Loop(m), Loop(n), ex)
<1>1. m \in Matchings(E) /\ n \in Matchings(E \cup {ex})
  BY DEF Shape
<1>2. Selling(m) <=> Selling(n)
  BY DEF Selling, Later
<1>3. CASE Selling(m)
  <2>1. Loop(m) = Sell(m) /\ Loop(n) = Sell(n)
    BY <1>2, <1>3 DEF Loop
  <2>2. Later(Sell(m), Sell(n), ex)
    BY <1>1 DEF Later, Sell, Matchings
  <2> QED BY <2>1, <2>2
<1>4. CASE ~ Selling(m)
  <2>1. m.todo # {} /\ n.todo # {}
    BY <1>4 DEF Done, Later
  <2>2. Loop(m) = Take(m) /\ Loop(n) = Take(n)
    BY <1>2, <1>4, <2>1 DEF Loop
  <2>3. PICK a, b : a = Oldest(m.todo) /\ b = Oldest(n.todo)
    OBVIOUS
  <2>4. a \in m.todo /\ (\A other \in m.todo : a.at <= other.at) /\ a \in E /\ a \in Executions
    BY <2>1, <2>3, ShapeIs, OldestIs
  <2>5. b \in n.todo /\ (\A other \in n.todo : b.at <= other.at)
    BY <2>1, <2>3, ShapeIs, OldestIs
  <2>6. b \in Executions /\ a.at \in Int /\ b.at \in Int /\ ex.at \in Int /\ a.at < ex.at /\ a \in n.todo
        /\ ex \notin m.todo
    <3>1. b \in Executions /\ a \in n.todo
      BY <2>4, <2>5, ShapeIs DEF Later
    <3>2. a.at \in Int /\ b.at \in Int /\ ex.at \in Int
      BY <2>4, <3>1, ExecutionIs
    <3>3. ex \notin E
      BY <3>2
    <3> QED BY <2>4, <3>1, <3>2, <3>3, ShapeIs
  <2>7. b.at <= a.at
    BY <2>5, <2>6
  <2>8. b # ex
    BY <2>6, <2>7
  <2>9. b \in m.todo
    BY <2>5, <2>8 DEF Later
  <2>10. a.at = b.at /\ b \in E
    BY <2>4, <2>6, <2>7, <2>9, ShapeIs
  <2>11. a = b
    BY <2>4, <2>10 DEF Timely
  <2>12. n.todo \ {a} = (m.todo \ {a}) \cup {ex}
    BY <2>4, <2>8, <2>11 DEF Later
  <2>13. Later(Take(m), Take(n), ex)
    BY <1>1, <2>3, <2>11, <2>12 DEF Later, Take, Matchings
  <2> QED BY <2>2, <2>13
<1> QED BY <1>3, <1>4

\* Beginnings of sequences, and of these.
LEMMA BeginsFurther ==
  ASSUME NEW p \in Seq(Trades), NEW q \in Seq(Trades), NEW r \in Seq(Trades), Begins(p, q), Begins(q, r)
  PROVE  Begins(p, r)
<1>1. Len(p) \in Nat /\ Len(q) \in Nat /\ Len(r) \in Nat
  OBVIOUS
<1>2. \A i \in 1..Len(p) : i \in 1..Len(q)
  BY <1>1 DEF Begins
<1> QED BY <1>1, <1>2 DEF Begins

\* As long as the loop runs, pairs are added.
LEMMA RunGrows ==
  ASSUME NEW E, Timely(E), NEW k \in Nat, NEW f, Run(E, k, f), NEW a \in 0..k, NEW b \in 0..k, a <= b
  PROVE  Begins(f[a].pairs, f[b].pairs)
<1>0. \A i \in 1..k : f[i] = Loop(f[i - 1])
  BY RunAt
<1> DEFINE B == {j \in 0..k : a <= j /\ ~ Begins(f[a].pairs, f[j].pairs)}
<1> SUFFICES ASSUME B # {} PROVE FALSE
  OBVIOUS
<1>1. B \in SUBSET Nat
  OBVIOUS
<1>2. PICK j : j = Min(B)
  OBVIOUS
<1>3. j \in B /\ \A i \in B : j <= i
  <2> HIDE DEF B
  <2> QED BY <1>1, <1>2, MinIsLeast
<1>4. j \in 0..k /\ a <= j /\ ~ Begins(f[a].pairs, f[j].pairs)
  BY <1>3
<1>5. CASE j = a
  BY <1>4, <1>5 DEF Begins
<1>6. CASE j # a
  <2>1. j - 1 \in 0..k /\ a <= j - 1 /\ j \in 1..k /\ j - 1 \notin B
    BY <1>3, <1>4, <1>6
  <2>2. Begins(f[a].pairs, f[j - 1].pairs)
    BY <2>1
  <2>3. PICK p, m, n : p = f[a] /\ m = f[j - 1] /\ n = f[j]
    OBVIOUS
  <2>4. n = Loop(m)
    BY <1>0, <2>1, <2>3
  <2>5. Sound(E, p) /\ Sound(E, m) /\ Sound(E, n)
    BY <1>4, <2>1, <2>3, RunIs
  <2>6. Begins(m.pairs, n.pairs)
    BY <2>4, <2>5, LoopIs
  <2>7. p.pairs \in Seq(Trades) /\ m.pairs \in Seq(Trades) /\ n.pairs \in Seq(Trades)
    BY <2>5, ShapeIs DEF Sound
  <2>8. Begins(p.pairs, n.pairs)
    BY <2>2, <2>3, <2>6, <2>7, BeginsFurther
  <2> QED BY <1>4, <2>3, <2>8
<1> QED BY <1>5, <1>6

\* With a newer execution the loop is at the same point, or further.
LEMMA RunsAgree ==
  ASSUME NEW E, Timely(E), NEW ex \in Executions, \A x \in E : x.at < ex.at, NEW F, F = E \cup {ex}, Timely(F),
         NEW k \in Nat, NEW l \in Nat, k <= l, NEW f, Run(E, k, f), NEW g, Run(F, l, g), NEW n \in 0..k
  PROVE  Begins(f[n].pairs, g[n].pairs) /\ (Done(f[n]) \/ Later(f[n], g[n], ex))
<1>0. f[0] = Unmatched(E) /\ \A i \in 1..k : f[i] = Loop(f[i - 1])
  BY RunAt
<1>0g. g[0] = Unmatched(F) /\ \A i \in 1..l : g[i] = Loop(g[i - 1])
  BY RunAt
<1> DEFINE Fine(j) == Begins(f[j].pairs, g[j].pairs) /\ (Done(f[j]) \/ Later(f[j], g[j], ex))
           B == {j \in 0..k : ~ Fine(j)}
<1> SUFFICES ASSUME B # {} PROVE FALSE
  OBVIOUS
<1>1. B \in SUBSET Nat
  OBVIOUS
<1>2. PICK j : j = Min(B)
  OBVIOUS
<1>3. j \in B /\ \A i \in B : j <= i
  <2> HIDE DEF B
  <2> QED BY <1>1, <1>2, MinIsLeast
<1>4. j \in 0..k /\ ~ Fine(j) /\ j \in 0..l
  BY <1>3
<1>5. PICK m, n1 : m = f[j] /\ n1 = g[j]
  OBVIOUS
<1>6. Sound(E, m) /\ Sound(F, n1)
  BY <1>4, <1>5, RunIs
<1>7. m.pairs \in Seq(Trades) /\ n1.pairs \in Seq(Trades)
  BY <1>6, ShapeIs DEF Sound
<1>8. Later(m, n1, ex) => Begins(m.pairs, n1.pairs)
  BY <1>7 DEF Later, Begins
<1>9. CASE j = 0
  <2>1. m = Unmatched(E) /\ n1 = Unmatched(F)
    BY <1>0, <1>0g, <1>5, <1>9
  <2>2. Later(m, n1, ex)
    BY <2>1 DEF Unmatched, Later
  <2> QED BY <1>4, <1>5, <1>8, <2>2
<1>10. CASE j # 0
  <2>1. j - 1 \in 0..k /\ j - 1 \in 0..l /\ j \in 1..k /\ j \in 1..l /\ j - 1 \notin B
    BY <1>3, <1>4, <1>10
  <2>2. Fine(j - 1)
    BY <2>1
  <2>3. PICK p, q : p = f[j - 1] /\ q = g[j - 1]
    OBVIOUS
  <2>4. m = Loop(p)
    BY <1>0, <1>5, <2>1, <2>3
  <2>5. n1 = Loop(q)
    BY <1>0g, <1>5, <2>1, <2>3
  <2>6. Sound(E, p) /\ Sound(F, q)
    BY <2>1, <2>3, RunIs
  <2>7. Begins(p.pairs, q.pairs) /\ (Done(p) \/ Later(p, q, ex))
    BY <2>2, <2>3
  <2>8. CASE Done(p)
    <3>1. m = p
      BY <2>4, <2>6, <2>8, LoopIs
    <3>2. Begins(q.pairs, n1.pairs)
      BY <2>5, <2>6, LoopIs
    <3>3. p.pairs \in Seq(Trades) /\ q.pairs \in Seq(Trades)
      BY <2>6, ShapeIs DEF Sound
    <3>4. Begins(p.pairs, n1.pairs)
      BY <1>7, <2>7, <3>2, <3>3, BeginsFurther
    <3> QED BY <1>4, <1>5, <2>8, <3>1, <3>4
  <2>9. CASE ~ Done(p)
    <3>1. Later(p, q, ex)
      BY <2>7, <2>9
    <3>2. Shape(E, p) /\ Shape(E \cup {ex}, q)
      BY <2>6 DEF Sound
    <3>3. Later(m, n1, ex)
      BY <2>4, <2>5, <2>9, <3>1, <3>2, LoopLater
    <3> QED BY <1>4, <1>5, <1>8, <3>3
  <2> QED BY <2>8, <2>9
<1> QED BY <1>9, <1>10

\* A newer execution adds pairs and changes none.
LEMMA NewerAppends ==
  ASSUME NEW E, Timely(E), NEW ex \in Executions, \A x \in E : x.at < ex.at, NEW F, F = E \cup {ex}, Timely(F)
  PROVE  IsPrefix(Pairs(E), Pairs(F))
<1>1. PICK k, l : k = Rounds(E) /\ l = Rounds(F)
  OBVIOUS
<1>2. k \in Nat /\ l \in Nat /\ k <= l /\ k \in 0..k /\ k \in 0..l /\ l \in 0..l
  <2>1. k \in Nat /\ l \in Nat
    BY <1>1, RoundsAre
  <2>2. Cardinality(E) \in Nat /\ Cardinality(F) \in Nat /\ Cardinality(E) <= Cardinality(F)
    <3>1. IsFiniteSet(E) /\ IsFiniteSet(F)
      BY DEF Timely
    <3>2. Cardinality(E) \in Nat /\ Cardinality(F) \in Nat
      BY <3>1, FS_CardinalityType
    <3>3. Cardinality(F) = IF ex \in E THEN Cardinality(E) ELSE Cardinality(E) + 1
      BY <3>1, FS_AddElement
    <3> QED BY <3>2, <3>3
  <2> QED BY <1>1, <2>1, <2>2 DEF Rounds
<1>3. PICK f : Run(E, k, f) /\ FifoMatch(E) = f[k]
  BY <1>1, <1>2, FifoMatchIs
<1>4. PICK g : Run(F, l, g) /\ FifoMatch(F) = g[l]
  BY <1>1, <1>2, FifoMatchIs
<1>5. Begins(f[k].pairs, g[k].pairs)
  BY <1>2, <1>3, <1>4, RunsAgree
<1>6. Begins(g[k].pairs, g[l].pairs)
  BY <1>2, <1>4, RunGrows
<1>7. PICK p, q, r : p = f[k].pairs /\ q = g[k].pairs /\ r = g[l].pairs
  OBVIOUS
<1>8. p \in Seq(Trades) /\ q \in Seq(Trades) /\ r \in Seq(Trades)
  <2>1. Sound(E, f[k]) /\ Sound(F, g[k]) /\ Sound(F, g[l])
    BY <1>2, <1>3, <1>4, RunIs
  <2> QED BY <1>7, <2>1, ShapeIs DEF Sound
<1>9. Begins(p, r)
  BY <1>5, <1>6, <1>7, <1>8, BeginsFurther
<1>10. Len(p) <= Len(r) /\ SubSeq(p, 1, Len(p)) = SubSeq(r, 1, Len(p))
  <2>1. Len(p) \in Nat /\ Len(r) \in Nat /\ Len(p) <= Len(r) /\ \A i \in 1..Len(p) : r[i] = p[i]
    BY <1>8, <1>9 DEF Begins
  <2>2. SubSeq(p, 1, Len(p)) = [i \in 1..Len(p) |-> p[i]]
    BY <1>8, <2>1
  <2>3. SubSeq(r, 1, Len(p)) = [i \in 1..Len(p) |-> r[i]]
    BY <1>8, <2>1
  <2> QED BY <2>1, <2>2, <2>3
<1>11. Pairs(E) = p /\ Pairs(F) = r
  BY <1>3, <1>4, <1>7 DEF Pairs
<1> QED BY <1>10, <1>11 DEF IsPrefix

-----------------------------------------------------------------------------
(* Theorems *)

\* Two executions that change places are two executions.
LEMMA RereadIs ==
  ASSUME Timely(history), NEW x \in Places, NEW y \in Places, Reread(x, y)
  PROVE  /\ Timely(history')
         /\ \A ex \in history' : \E old \in history : Time[old.at] = Time[ex.at]
<1> DEFINE g(t) == CASE t = x -> y [] t = y -> x [] OTHER -> t
           f == [ex \in history |-> [ex EXCEPT !.at = g(ex.at)]]
<1>1. history' = {f[ex] : ex \in history}
  BY DEF Reread
<1>2. \A t \in Places : g(t) \in Places /\ Time[g(t)] = Time[t]
  BY DEF Reread
<1>3. \A s, t : g(s) = g(t) => s = t
  OBVIOUS
<1>4. \A ex \in history : ex \in Executions /\ ex.at \in Places
  BY ExecutionIs DEF Timely
<1> HIDE DEF g
<1>5. \A ex \in history : f[ex] \in Executions /\ f[ex].at = g(ex.at)
  BY <1>2, <1>4 DEF Executions
<1>6. DOMAIN f = history /\ f = [ex \in history |-> f[ex]]
  OBVIOUS
<1> HIDE DEF f
<1>7. IsFiniteSet(history')
  <2>1. PICK T : T = history'
    OBVIOUS
  <2>2. f \in Surjection(history, T)
    BY <1>1, <1>6, <2>1 DEF Surjection
  <2>3. IsFiniteSet(history)
    BY DEF Timely
  <2> QED BY <2>1, <2>2, <2>3, FS_Surjection
<1>8. \A a, b \in history' : a.at = b.at => a = b
  BY <1>1, <1>3, <1>5 DEF Timely
<1>9. \A ex \in history' : \E old \in history : Time[old.at] = Time[ex.at]
  BY <1>1, <1>2, <1>4, <1>5
<1> QED BY <1>1, <1>5, <1>7, <1>8, <1>9 DEF Timely

\* The account has finitely many executions, in different places: the inductive
\* invariant of the history.
LEMMA HistoryTimely == HistorySpec => []Timely(history)
<1>1. InitHistory => Timely(history)
  BY FS_EmptySet DEF InitHistory, Timely
<1>2. Timely(history) /\ [NextHistory]_history => Timely(history)'
  <2> SUFFICES ASSUME Timely(history), [NextHistory]_history PROVE Timely(history')
    BY DEF Timely
  <2>1. ASSUME NEW ex \in Executions, Record(ex) PROVE Timely(history')
    <3>2. history' = history \cup {ex} /\ \A other \in history : other.at # ex.at
      BY <2>1 DEF Record
    <3>3. IsFiniteSet(history')
      BY <3>2, FS_AddElement DEF Timely
    <3> QED BY <3>2, <3>3 DEF Timely
  <2>2. CASE UNCHANGED history
    BY <2>2
  <2>3. ASSUME NEW x \in Places, NEW y \in Places, Reread(x, y) PROVE Timely(history')
    BY <2>3, RereadIs
  <2> QED BY <2>1, <2>2, <2>3 DEF NextHistory
<1> QED BY <1>1, <1>2, PTL DEF HistorySpec

\* Of every such history, the matching has the types it should, pairs sell after
\* they bought, and what is open is not negative.
LEMMA TimelyTyped ==
  ASSUME Timely(history)
  PROVE  HistoryTyped
<1>1. PICK E, ps : E = history /\ ps = Pairs(E)
  OBVIOUS
<1>2. Timely(E) /\ E \subseteq Executions
  BY <1>1 DEF Timely
<1>3. \A i \in DOMAIN ps : ps[i] \in Trades
  BY <1>1, <1>2, PairsAre
<1>4. PICK m : m = FifoMatch(E)
  OBVIOUS
<1>5. Sound(E, m) /\ m.pairs = ps /\ Traced(E, m)
  BY <1>1, <1>2, <1>4, Matched DEF Sound, Pairs
<1>6. ASSUME NEW i \in DOMAIN ps PROVE ps[i].qty > 0 /\ ps[i].buy_at < ps[i].sell_at
  <2>1. ps[i].qty \in Nat \ {0}
    BY <1>3 DEF Trades
  <2>2. DOMAIN ps = 1..Len(ps)
    BY <1>1, <1>2, PairsAre
  <2>3. \E b, x \in E \ m.todo : b.at = ps[i].buy_at /\ x.at = ps[i].sell_at /\ b.at < x.at
    BY <1>5, <2>2 DEF Traced
  <2> QED BY <2>1, <2>3
<1>7. \A s \in Symbols : OpenQty(E, s) \in Nat
  BY <1>2, OpenQtyIs
<1>8. Reported(E) \subseteq Symbols
  BY <1>1, <1>3 DEF Reported, Trades
<1> QED BY <1>1, <1>2, <1>6, <1>7, <1>8 DEF HistoryTyped

\* Pairs are in the order of their sales, and of their lots.
LEMMA TimelyOrder ==
  ASSUME Timely(history)
  PROVE  FirstInFirstOut
<1>1. PICK E, ps, m : E = history /\ ps = Pairs(E) /\ m = FifoMatch(E)
  OBVIOUS
<1>2. Timely(E)
  BY <1>1
<1>3. InOrder(m) /\ m.pairs = ps /\ DOMAIN ps = 1..Len(ps)
  <2>1. Sound(E, m)
    BY <1>1, <1>2, Matched
  <2>2. m.pairs = ps /\ DOMAIN ps = 1..Len(ps)
    BY <1>1, <1>2, PairsAre DEF Pairs
  <2> QED BY <2>1, <2>2 DEF Sound
<1> QED BY <1>1, <1>3 DEF InOrder, FirstInFirstOut

\* The trading profile is computed of typed trades.
THEOREM HistoryTypeCorrect == HistorySpec => []HistoryTyped
<1>1. Timely(history) => HistoryTyped
  BY TimelyTyped
<1> QED BY <1>1, HistoryTimely, PTL

\* Sales are matched with the shares they sold, first in first out: every share
\* bought is sold in one pair or open, what is open is what the account holds,
\* and no execution is matched with more shares than it has.
THEOREM SalesMatchedHolds == HistorySpec => []SalesMatched
<1>1. Timely(history) => SalesMatched
  <2> SUFFICES ASSUME Timely(history) PROVE SalesMatched
    OBVIOUS
  <2>1. FirstInFirstOut
    BY TimelyOrder
  <2>2. PICK E : E = history
    OBVIOUS
  <2>3. Timely(E)
    BY <2>2
  <2>4. \A s \in Symbols : SharesOf(Side(Of(E, s), "BUY")) = MatchedOf(E, s) + OpenQty(E, s)
    BY <2>3, SharesMatched
  <2>5. \A s \in Symbols : /\ OpenQty(E, s) = HeldAsRead(Of(E, s))
                           /\ Untied(Of(E, s)) => OpenQty(E, s) = Held(Of(E, s))
    BY <2>3, OpenIsHeldAsRead
  <2>6. \A ex \in E : MatchedAt(E, {ex.at}) <= ex.qty
    BY <2>3, MatchedWithin
  <2> QED BY <2>1, <2>2, <2>4, <2>5, <2>6 DEF SalesMatched, SharesConserved
<1> QED BY <1>1, HistoryTimely, PTL

\* Executions that are newer than the ones there are add trades and change none.
THEOREM NewExecutionsAppendHolds == HistorySpec => NewExecutionsAppend
<1> DEFINE Appends == \A ex \in history' \ history :
      (\A old \in history : Time[old.at] < Time[ex.at]) => IsPrefix(Pairs(history), Pairs(history'))
<1>1. Timely(history) /\ Timely(history)' /\ [NextHistory]_history => [Appends]_history
  <2> SUFFICES ASSUME Timely(history), Timely(history'), NextHistory PROVE Appends
    BY DEF Timely
  <2>1. PICK E, F : E = history /\ F = history'
    OBVIOUS
  <2>2. SUFFICES ASSUME NEW ex \in F \ E, \A old \in E : Time[old.at] < Time[ex.at]
                 PROVE  IsPrefix(Pairs(E), Pairs(F))
    BY <2>1
  <2>3. CASE \E new \in Executions : Record(new)
    <3>1. PICK new \in Executions : F = E \cup {new}
      BY <2>1, <2>3 DEF Record
    <3>2. ex = new /\ Timely(E) /\ Timely(F) /\ ex \in Executions /\ F = E \cup {ex}
      BY <2>1, <2>2, <3>1
    <3>3. \A old \in E : old.at < ex.at
      <4>1. \A old \in E : /\ old.at \in Int /\ ex.at \in Int
                           /\ Time[old.at] \in Int /\ Time[ex.at] \in Int
                           /\ ex.at <= old.at => Time[ex.at] <= Time[old.at]
        BY <3>2, TimeIs
      <4> QED BY <2>2, <4>1
    <3> QED BY <3>2, <3>3, NewerAppends
  <2>4. CASE \E x, y \in Places : Reread(x, y)
    <3>1. PICK old \in E : Time[old.at] = Time[ex.at]
      BY <2>1, <2>2, <2>4, RereadIs
    <3>2. Time[old.at] < Time[ex.at] /\ Time[ex.at] \in Int
      BY <2>1, <2>2, <3>1, TimeIs
    <3> QED BY <3>1, <3>2
  <2> QED BY <2>3, <2>4 DEF NextHistory
<1> QED BY <1>1, HistoryTimely, PTL DEF HistorySpec, NewExecutionsAppend

\* When an account sold exactly what it bought, in order, the trades' gains add
\* up to the money it made, and the flag says that it lost.
THEOREM GainsAreMoneyHolds == HistorySpec => []GainsAreMoney
<1>1. Timely(history) => GainsAreMoney
  <2> SUFFICES ASSUME Timely(history), \A s \in Symbols : Closed(s)
               PROVE  LET m == Summary(history) IN
                        /\ m.gross_wins - m.gross_losses = Money(history)
                        /\ ("NEGATIVE_EXPECTANCY" \in Flags(history)) = (Money(history) < 0)
    BY DEF GainsAreMoney
  <2>1. PICK E, ps : E = history /\ ps = Pairs(E)
    OBVIOUS
  <2>2. Timely(E) /\ ps \in Seq(Trades)
    BY <2>1, PairsAre
  <2>3. \A s \in Symbols : PairSum(TradeGain(s), ps) = SumOver(Cash(s), E)
    <3> SUFFICES ASSUME NEW s \in Symbols PROVE PairSum(TradeGain(s), ps) = SumOver(Cash(s), E)
      OBVIOUS
    <3>1. OpenQty(E, s) = 0 /\ SharesOf(Side(Of(E, s), "BUY")) = SharesOf(Side(Of(E, s), "SELL"))
      BY <2>1 DEF Closed
    <3> QED BY <2>1, <2>2, <3>1, ClosedGains
  <2> DEFINE F == [s \in Symbols |-> SumOver(Cash(s), E)]
  <2>4. (\A s \in Symbols : F[s] = SumOver(Cash(s), E)) /\ \A s \in Symbols : F[s] = PairSum(TradeGain(s), ps)
    BY <2>3
  <2> HIDE DEF F
  <2>5. Money(E) = SumOver(F, Symbols)
    BY <2>2, <2>4, MoneyBySymbol
  <2>6. SumOver([i \in DOMAIN ps |-> Gain(ps[i])], DOMAIN ps) = SumOver(F, Symbols)
    BY <2>2, <2>4, GainsBySymbol
  <2>7. PICK wins, losses : wins = Summary(E).gross_wins /\ losses = Summary(E).gross_losses
    OBVIOUS
  <2>8. wins \in Nat /\ losses \in Int /\ wins - losses = Money(E)
    BY <2>1, <2>2, <2>5, <2>6, <2>7, GrossIs
  <2>9. "NEGATIVE_EXPECTANCY" \in Flags(E) <=> losses # 0 /\ wins < losses
    BY <2>7 DEF Flags, NegativeExpectancy
  <2> QED BY <2>1, <2>7, <2>8, <2>9
<1> QED BY <1>1, HistoryTimely, PTL
=============================================================================
