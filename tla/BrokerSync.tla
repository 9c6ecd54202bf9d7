----------------------------- MODULE BrokerSync -----------------------------
(***************************************************************************)
(* Importing executions of an IBKR account: the current session's          *)
(* (sync-ibkr), those of a Flex statement (sync-flex), and rebuilding the  *)
(* trading profile.  Concurrent requests, each with its transactions at    *)
(* READ COMMITTED, over rows that are unique by account and exec_id.       *)
(*                                                                         *)
(* An account row is named after the request that created it.  Each feed   *)
(* has exec_ids of its own, so a row is <<account, feed, fill>>.           *)
(***************************************************************************)
EXTENDS Naturals, Sequences, FiniteSets, SequencesExt

CONSTANTS Requests, NoAccount, Fills,
          ExecutedAt, \* of a fill by its feed: to the second, or only the day
          Kinds,     \* of requests: "session", "flex", "rebuild"
          Known,     \* accounts registered beforehand
          MaxPolls   \* ibkr_flex_max_polls

ASSUME ConstantsTyped == /\ MaxPolls \in Nat /\ IsFiniteSet(Fills) /\ IsFiniteSet(Requests)
                         /\ ExecutedAt \in [{"session", "flex"} -> [Fills -> Nat]]
                         /\ Kinds \subseteq {"session", "flex", "rebuild"}
                         /\ NoAccount \notin Requests \cup Known

VARIABLES accounts,   \* accounts[a]: when its transaction began, 0 if not committed
          rows,       \* ibkr_executions
          status,     \* last_sync_status
          snapshots,  \* trading_profile_snapshots
          clock,      \* transactions begun
          req         \* requests

db == <<accounts, rows, status, snapshots>>
vars == <<db, clock, req>>

Ids == Requests \cup Known

Idle == [at |-> "idle", kind |-> "none", acct |-> NoAccount,
         began |-> 0,       \* of the open transaction, 0 if none is
         polls |-> 0, list |-> {}, todo |-> <<>>, new |-> {}, covers |-> {}]

Init == /\ accounts = [a \in Ids |-> IF a \in Known THEN 1 ELSE 0]
        /\ rows = {}
        /\ status = [a \in Ids |-> "never"]
        /\ snapshots = {}
        /\ clock = 1
        /\ req = [q \in Requests |-> Idle]

Go(q, r) == req' = [req EXCEPT ![q] = r]

\* func.now() is the time at which the transaction began
Begun(q) == IF req[q].began = 0 THEN clock + 1 ELSE req[q].began

Open(q, r) == /\ Go(q, [r EXCEPT !.began = Begun(q)])
              /\ clock' = IF req[q].began = 0 THEN clock + 1 ELSE clock

RowsOf(a) == {x \in rows : x[1] = a}

-----------------------------------------------------------------------------
(* Which account *)

Existing == {a \in Ids : accounts[a] > 0}

\* get_active_default: the first by created_at
Default == CHOOSE a \in Existing : \A b \in Existing : accounts[a] <= accounts[b]

Fetching(kind) == IF kind = "rebuild" THEN "profile" ELSE "fetch"

\* ensure_dev_default finds one.  A sync commits at once.
ResolveDefault(q, kind) ==
  /\ req[q].at = "idle" /\ Existing # {}
  /\ LET r == [Idle EXCEPT !.at = Fetching(kind), !.kind = kind, !.acct = Default] IN
       IF kind = "rebuild" THEN Open(q, r) ELSE Go(q, r) /\ UNCHANGED clock
  /\ UNCHANGED db

\* ensure_dev_default finds none
ResolveNone(q, kind) ==
  /\ req[q].at = "idle" /\ Existing = {}
  /\ Open(q, [Idle EXCEPT !.at = "create", !.kind = kind, !.acct = q])
  /\ UNCHANGED db

\* It creates one.  A rebuild commits it at its end only.
CreateDefault(q) ==
  /\ req[q].at = "create"
  /\ IF req[q].kind = "rebuild"
     THEN Go(q, [req[q] EXCEPT !.at = "profile"]) /\ UNCHANGED accounts
     ELSE /\ Go(q, [req[q] EXCEPT !.at = "fetch", !.began = 0])
          /\ accounts' = [accounts EXCEPT ![q] = req[q].began]
  /\ UNCHANGED <<rows, status, snapshots, clock>>

\* broker-accounts/{id}/sync-*: the transaction stays open during the fetch
ResolveAccount(q, kind, a) ==
  /\ req[q].at = "idle" /\ kind # "rebuild" /\ a \in Existing
  /\ Open(q, [Idle EXCEPT !.at = "fetch", !.kind = kind, !.acct = a])
  /\ UNCHANGED db

-----------------------------------------------------------------------------
(* What the broker answers *)

\* mutation: executions are stored in the order of the response
ListedAsSent(kind, S) == SetToSeqs(S)

\* executions.sort(key=executed_at): those of the same time stay in the order of
\* the response.
Listed(kind, S) == {s \in SetToSeqs(S) : \A i, j \in DOMAIN s :
                      i < j => ExecutedAt[kind][s[i]] <= ExecutedAt[kind][s[j]]}

Receive(q, S) == \E s \in Listed(req[q].kind, S) :
  Go(q, [req[q] EXCEPT !.at = "insert", !.list = S, !.todo = s])

\* reqExecutionsAsync, which has no timeout
FetchSession(q) ==
  /\ req[q].at = "fetch" /\ req[q].kind = "session"
  /\ \E S \in SUBSET Fills : Receive(q, S)
  /\ UNCHANGED <<db, clock>>

\* IBKRConnectionError reaches the router
ConnectionFails(q) ==
  /\ req[q].at = "fetch" /\ req[q].kind = "session"
  /\ Go(q, [req[q] EXCEPT !.at = "failed"])
  /\ UNCHANGED <<db, clock>>

\* One of at most MaxPolls polls: the statement, or not ready
Poll(q) ==
  /\ req[q].at = "fetch" /\ req[q].kind = "flex"
  /\ req[q].polls < MaxPolls
  /\ \/ \E S \in SUBSET Fills : Receive(q, S)
     \/ Go(q, [req[q] EXCEPT !.polls = @ + 1])
  /\ UNCHANGED <<db, clock>>

PollsExhausted(q) ==
  /\ req[q].at = "fetch" /\ req[q].kind = "flex"
  /\ req[q].polls = MaxPolls
  /\ Go(q, [req[q] EXCEPT !.at = "raise"])
  /\ UNCHANGED <<db, clock>>

\* timeout, HTTP error, error code, malformed statement
FlexError(q) ==
  /\ req[q].at = "fetch" /\ req[q].kind = "flex"
  /\ Go(q, [req[q] EXCEPT !.at = "raise"])
  /\ UNCHANGED <<db, clock>>

-----------------------------------------------------------------------------
(* Storing it *)

InTransaction(q) == req[q].at \in {"insert", "flush", "marked", "profiled", "raise"}

\* rows of q nobody else sees yet
Pending(q) == IF InTransaction(q) THEN req[q].new ELSE {}

Head1(q) == <<req[q].acct, req[q].kind, Head(req[q].todo)>>

\* exists_by_exec_id
Check(q) ==
  /\ req[q].at = "insert" /\ req[q].todo # <<>>
  /\ IF Head1(q) \in rows \cup req[q].new
     THEN Open(q, [req[q] EXCEPT !.todo = Tail(@)])
     ELSE Open(q, [req[q] EXCEPT !.at = "flush"])
  /\ UNCHANGED db

\* An insert waits for another transaction that inserted the same key.
Blocked(q) == {p \in Requests \ {q} : Head1(q) \in Pending(p)}

\* mutation: the rollback is followed by the rest of the list
InsertResuming(q) ==
  /\ req[q].at = "flush" /\ Blocked(q) = {}
  /\ IF Head1(q) \in rows
     THEN Go(q, [req[q] EXCEPT !.at = "insert", !.todo = Tail(@), !.new = {}])
     ELSE Go(q, [req[q] EXCEPT !.at = "insert", !.todo = Tail(@), !.new = @ \cup {Head1(q)}])
  /\ UNCHANGED <<db, clock>>

\* create: the unique constraint may object.  Then nothing is kept.
Insert(q) ==
  /\ req[q].at = "flush" /\ Blocked(q) = {}
  /\ IF Head1(q) \in rows
     THEN Go(q, [req[q] EXCEPT !.at = "conflict", !.began = 0, !.new = {}])
     ELSE Go(q, [req[q] EXCEPT !.at = "insert", !.todo = Tail(@), !.new = @ \cup {Head1(q)}])
  /\ UNCHANGED <<db, clock>>

\* Every member of W waits for one and is waited for by one: W is made of cycles.
OnWaitCycle(q) ==
  \E W \in SUBSET {p \in Requests : req[p].at = "flush"} :
    /\ q \in W
    /\ \A p \in W : Blocked(p) \cap W # {}
    /\ \A p \in W : \E r \in W : p \in Blocked(r)

\* The database breaks the deadlock.  mark_sync_failure fails in the transaction
\* that failed, and so does the request.
DeadlockVictim(q) ==
  /\ req[q].at = "flush" /\ OnWaitCycle(q)
  /\ Go(q, [req[q] EXCEPT !.at = "victim", !.began = 0, !.new = {}])
  /\ UNCHANGED <<db, clock>>

\* the row of the account is locked by who marked it
LockedBy(q) == {p \in Requests \ {q} : /\ req[p].at \in {"marked", "profiled"}
                                       /\ req[p].kind # "rebuild"
                                       /\ req[p].acct = req[q].acct}

\* mutation: the account is marked after the profile is built
MarkLate(q) ==
  /\ req[q].at = "insert" /\ req[q].todo = <<>>
  /\ Open(q, [req[q] EXCEPT !.at = "marked"])
  /\ UNCHANGED db

\* mark_sync_success
Mark(q) ==
  /\ req[q].at = "insert" /\ req[q].todo = <<>> /\ LockedBy(q) = {}
  /\ Open(q, [req[q] EXCEPT !.at = "marked"])
  /\ UNCHANGED db

\* build_and_save_profile: what the transaction sees
Profile(q) ==
  /\ \/ req[q].at = "marked" /\ req[q].kind = "flex"
     \/ req[q].at = "profile"
  /\ Go(q, [req[q] EXCEPT !.at = "profiled",
                          !.covers = RowsOf(req[q].acct) \cup req[q].new])
  /\ UNCHANGED <<db, clock>>

Commit(q) ==
  /\ \/ req[q].at = "marked" /\ req[q].kind = "session"
     \/ req[q].at = "profiled"
  /\ LET r == req[q] IN
       /\ rows' = rows \cup r.new
       /\ accounts' = IF accounts[r.acct] = 0 THEN [accounts EXCEPT ![r.acct] = r.began] ELSE accounts
       /\ status' = IF r.kind = "rebuild" THEN status ELSE [status EXCEPT ![r.acct] = "success"]
       /\ snapshots' = IF r.kind = "session" THEN snapshots
                       ELSE snapshots \cup {[acct |-> r.acct, began |-> r.began, covers |-> r.covers]}
       /\ Go(q, [r EXCEPT !.at = "done", !.began = 0])
  /\ UNCHANGED clock

\* Any other exception
DbFails(q) ==
  /\ req[q].at \in {"insert", "flush"}
  /\ Go(q, [req[q] EXCEPT !.at = "raise"])
  /\ UNCHANGED <<db, clock>>

\* mark_sync_failure, if the transaction still takes statements, then the
\* exception goes on and the router, or the end of the session, rolls back.
Raise(q) ==
  /\ req[q].at = "raise" /\ LockedBy(q) = {}
  /\ Go(q, [req[q] EXCEPT !.at = "failed", !.began = 0, !.new = {}])
  /\ UNCHANGED <<db, clock>>

-----------------------------------------------------------------------------
Step(q) ==
  \/ CreateDefault(q)
  \/ Poll(q) \/ PollsExhausted(q)
  \/ Check(q) \/ Insert(q)
  \/ Mark(q) \/ Profile(q) \/ Commit(q) \/ Raise(q)

Fault(q) == ConnectionFails(q) \/ FlexError(q) \/ DbFails(q)

\* what the broker and the database do
Reply(q) == FetchSession(q) \/ DeadlockVictim(q)

Resolve(q) == \E kind \in Kinds : \/ ResolveDefault(q, kind)
                                  \/ ResolveNone(q, kind)
                                  \/ \E a \in Ids : ResolveAccount(q, kind, a)

Next == \E q \in Requests : Resolve(q) \/ Step(q) \/ Reply(q) \/ Fault(q)

Spec == Init /\ [][Next]_vars

\* A request runs on by itself once it was received, it need not fail; polls
\* time out.  A session may never answer.  The database breaks every deadlock.
FairSpec == Spec /\ \A q \in Requests : WF_vars(Step(q)) /\ WF_vars(DeadlockVictim(q))

-----------------------------------------------------------------------------
(* Properties *)

Ended(q) == req[q].at \in {"done", "failed", "conflict", "victim"}

TypeOK ==
  /\ accounts \in [Ids -> 0..clock]
  /\ rows \subseteq Ids \X {"session", "flex"} \X Fills
  /\ status \in [Ids -> {"never", "success", "failure"}]
  /\ \A x \in snapshots : x.acct \in Existing /\ x.covers \subseteq rows
  /\ clock \in Nat
  /\ \A q \in Requests :
       /\ req[q].at \in {"idle", "create", "fetch", "insert", "flush", "marked", "profile",
                         "profiled", "raise", "done", "failed", "conflict", "victim"}
       /\ req[q].polls \in 0..MaxPolls

\* A sync that reports success has stored all it was sent, also what it
\* skipped because another request had stored it.
SyncedAll == \A q \in Requests : \A f \in req[q].list :
  req[q].at = "done" => <<req[q].acct, req[q].kind, f>> \in rows

\* The profile that a Flex sync is about to commit covers all executions of
\* the account that are committed by then: marking the account first keeps
\* every other sync of it from committing meanwhile.
SnapshotCurrent == \A q \in Requests :
  req[q].at = "profiled" /\ req[q].kind = "flex" =>
    req[q].covers = RowsOf(req[q].acct) \cup req[q].new

\* Every request that was received ends, unless a session does not answer it,
\* whatever others do, those that wait for an answer for ever included.  A sync
\* falls victim to a deadlock only over an execution of the same time as another
\* one: otherwise they are stored in the same order, and the account is marked
\* last.
Unanswered(q) == req[q].at = "fetch" /\ req[q].kind = "session"

TiedVictim(q) ==
  LET at == ExecutedAt[req[q].kind]  wanted == Head(req[q].todo) IN
    \E f \in req[q].list \ {wanted} : at[f] = at[wanted]

EveryRequestEnds == \A q \in Requests :
  req[q].at # "idle" ~> \/ Unanswered(q)
                        \/ Ended(q) /\ (req[q].at = "victim" => TiedVictim(q))

\* The second half of it, which is proved.
VictimsTied == \A q \in Requests : req[q].at = "victim" => TiedVictim(q)

\* "On any exception, BrokerAccountRepository.mark_sync_failure() is called to
\* record the failure"
FailureRecorded == [][\A q \in Requests :
  ~Ended(q) /\ req'[q].at \in {"failed", "victim"} => status'[req[q].acct] = "failure"]_vars

\* "Return the default dev account, creating it if absent."
OneDefaultAccount == Cardinality(Existing \ Known) <= 1

\* "Executions are deduplicated using a deterministic exec_id"
FillsCountedOnce == \A a \in Ids, f \in Fills :
  ~(<<a, "flex", f>> \in rows /\ <<a, "session", f>> \in rows)

\* The snapshot GET /trading-profile reads: latest by created_at.
Latest(a) == CHOOSE x \in snapshots : /\ x.acct = a
                                      /\ \A y \in snapshots : y.acct = a => y.began <= x.began

\* "Rebuild trading profile for this broker account": what a Flex sync stored
\* is in the profile that is read afterwards.
ProfileRebuilt == \A q \in Requests :
  req[q].at = "done" /\ req[q].kind = "flex" => req[q].new \subseteq Latest(req[q].acct).covers
=============================================================================
