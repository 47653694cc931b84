----------------------------- MODULE PriceLock -----------------------------
(***************************************************************************)
(* The price locks of the customer database: create_demo_lock,             *)
(* create_scoped_demo_lock and redeem_demo_fuel, PL/pgSQL functions that   *)
(* customers' sessions call concurrently.                                  *)
(*                                                                         *)
(* A call is one database transaction.  Creating a lock touches no row     *)
(* another session can see before the commit, so it is one action.         *)
(* Redeeming reads the row with SELECT ... FOR UPDATE, which waits while   *)
(* another transaction holds it, computes, updates the row and inserts the *)
(* ledger row, and commits: three actions.  A raised exception, a          *)
(* cancelled statement or a lost connection rolls everything back.         *)
(*                                                                         *)
(* Volumes are counted in a fraction of the stored unit (numeric(10, 3)):  *)
(* Scale fractions make 0.001.  An argument is an unconstrained numeric, a *)
(* column is rounded when it is stored.                                    *)
(***************************************************************************)
EXTENDS Maps, Sequences

CONSTANTS
  User, LockId, Session,
  Volume,         \* p_volume of calls, in fractions of the stored unit
  MaxVolume,      \* v_max_volume of the market
  Scale,          \* fractions in one stored unit
  MaxRedemptions  \* bound: redemptions made or under way

ASSUME ScaleAssumption == Scale \in Nat \ {0} /\ Scale % 2 = 0
ASSUME VolumeAssumption == Volume \subseteq Nat /\ MaxVolume \in Nat

VARIABLES
  locks,         \* price_locks: the rows a transaction has committed
  transactions,  \* the redemption rows of public.transactions, in commit order
  call           \* Session -> the redeem_demo_fuel call it is executing

vars == <<locks, transactions, call>>

Status == {"active", "partially_redeemed", "redeemed"}
Redeemable == {"active", "partially_redeemed"}

Lock == [owner : User, volume : Nat, remaining : Nat, status : Status]
Row == [user : User, lock : LockId, asked : Volume \ {0}, volume : Nat]

Idle == [pc |-> "idle"]
Waiting == [pc : {"waiting"}, user : User, lock : LockId, asked : Volume \ {0}]
Held == [pc : {"holding"}, user : User, lock : LockId, asked : Volume \ {0}, read : Nat]

\* numeric(10, 3): half a unit or more is rounded up.
Stored(n) == ((n + Scale \div 2) \div Scale) * Scale

Init == locks = EmptyMap /\ transactions = <<>> /\ call = [s \in Session |-> Idle]

-----------------------------------------------------------------------------
\* A lock for a volume that is positive, within the market's limit and, by the check
\* constraint of the column, still positive once it is stored.
CreateLock(user, id, volume) ==
  /\ id \notin DOMAIN locks
  /\ volume > 0 /\ volume <= MaxVolume
  /\ Stored(volume) > 0
  /\ locks' = Put(locks, id, [owner |-> user, volume |-> Stored(volume),
                              remaining |-> Stored(volume), status |-> "active"])
  /\ UNCHANGED <<transactions, call>>

-----------------------------------------------------------------------------
(* redeem_demo_fuel                                                        *)

Busy == {s \in Session : call[s] # Idle}
Holding(id) == {s \in Busy : call[s].pc = "holding" /\ call[s].lock = id}

BeginRedeem(s, user, id, asked) ==
  /\ call[s] = Idle
  /\ Len(transactions) + Cardinality(Busy) < MaxRedemptions
  /\ asked > 0
  /\ call' = [call EXCEPT ![s] = [pc |-> "waiting", user |-> user, lock |-> id,
                                  asked |-> asked]]
  /\ UNCHANGED <<locks, transactions>>

\* Mutant of Selected: the owner is not compared.
SelectedById(c) == c.lock \in DOMAIN locks

\* The row is looked for by id and owner; one that is used up or holds too little
\* raises an exception.
Selected(c) == c.lock \in DOMAIN locks /\ locks[c.lock].owner = c.user

MayRedeem(c) ==
  /\ Selected(c)
  /\ locks[c.lock].status \in Redeemable
  /\ c.asked <= locks[c.lock].remaining

\* Mutants of RowFree: no FOR UPDATE; sessions that wait hold up each other.
NoRowLock(s) == TRUE
NobodyElseWants(s) == \A t \in Busy \ {s} : call[t].lock # call[s].lock

RowFree(s) == Selected(call[s]) => Holding(call[s].lock) = {}

\* SELECT ... FOR UPDATE finds no row and raises, or returns the row as it is once no
\* other transaction holds it.
SelectForUpdate(s) ==
  /\ s \in Busy /\ call[s].pc = "waiting"
  /\ RowFree(s)
  /\ \/ /\ MayRedeem(call[s])
        /\ call' = [call EXCEPT ![s] =
             [pc |-> "holding", user |-> call[s].user, lock |-> call[s].lock,
              asked |-> call[s].asked, read |-> locks[call[s].lock].remaining]]
     \/ /\ ~MayRedeem(call[s])
        /\ call' = [call EXCEPT ![s] = Idle]
  /\ UNCHANGED <<locks, transactions>>

\* Mutant of StatusAfter: a lock that is used up stays redeemable.
NeverRedeemed(left) == "partially_redeemed"

StatusAfter(left) == IF left = 0 THEN "redeemed" ELSE "partially_redeemed"

\* The status is chosen from the exact difference, the column keeps its rounding.
Redeem(s) ==
  /\ s \in Busy /\ call[s].pc = "holding"
  /\ LET c == call[s]
         left == c.read - c.asked
     IN /\ locks' = [locks EXCEPT
             ![c.lock].remaining = Stored(left),
             ![c.lock].status = StatusAfter(left)]
        /\ transactions' = Append(transactions,
             [user |-> c.user, lock |-> c.lock, asked |-> c.asked,
              volume |-> Stored(c.asked)])
  /\ call' = [call EXCEPT ![s] = Idle]

\* The statement is cancelled or the connection lost: a rollback.
Abort(s) ==
  /\ s \in Busy
  /\ call' = [call EXCEPT ![s] = Idle]
  /\ UNCHANGED <<locks, transactions>>

Next ==
  \/ \E user \in User, id \in LockId, volume \in Volume : CreateLock(user, id, volume)
  \/ \E s \in Session :
       \/ \E user \in User, id \in LockId, asked \in Volume : BeginRedeem(s, user, id, asked)
       \/ SelectForUpdate(s) \/ Redeem(s) \/ Abort(s)

Spec == Init /\ [][Next]_vars

\* The server runs every statement to its end, and grants a row to each of the
\* transactions that wait for it in turn.
Fairness ==
  \A s \in Session : SF_vars(SelectForUpdate(s)) /\ WF_vars(Redeem(s))

FairSpec == Spec /\ Fairness

-----------------------------------------------------------------------------
(* Properties                                                              *)

\* Rows and calls hold values of their types, and columns whole stored units.
TypeOK ==
  /\ IsMap(locks, LockId, Lock)
  /\ \A id \in DOMAIN locks :
       locks[id].volume % Scale = 0 /\ locks[id].remaining % Scale = 0
  /\ transactions \in Seq(Row)
  /\ call \in [Session -> {Idle} \cup Waiting \cup Held]

Redemptions(id) == {n \in DOMAIN transactions : transactions[n].lock = id}

\* No redemption is computed from a stale row: whoever holds a lock holds it alone,
\* and what they read is still what the row says when they write it.
NoStaleRead ==
  \A s \in Busy : call[s].pc = "holding" =>
    /\ Holding(call[s].lock) = {s}
    /\ MayRedeem(call[s]) /\ call[s].read = locks[call[s].lock].remaining

\* No redemption is lost or counted twice: however sessions interleave, wait, fail and
\* retry, the row has lost what the recorded calls asked for, up to half a stored unit
\* of rounding for each of them; and in whole stored units the books are exact: the row
\* and its transaction rows add up to the volume that was locked, and it is "redeemed"
\* exactly when nothing is left.
RedemptionsAddUp ==
  \A id \in DOMAIN locks :
    LET used  == locks[id].volume - locks[id].remaining
        asked == Total([n \in Redemptions(id) |-> transactions[n].asked])
        slack == Cardinality(Redemptions(id)) * Scale
    IN /\ 2 * used <= 2 * asked + slack /\ 2 * asked <= 2 * used + slack
       /\ (\A n \in Redemptions(id) : transactions[n].asked % Scale = 0) =>
            /\ locks[id].remaining + Total([n \in Redemptions(id) |-> transactions[n].volume])
                 = locks[id].volume
            /\ locks[id].status = "redeemed" <=> locks[id].remaining = 0
            /\ locks[id].status = "active" <=> Redemptions(id) = {}

\* What a step may do to the locks there are.
Shrinks ==
  \A id \in DOMAIN locks :
    /\ id \in DOMAIN locks'
    /\ locks'[id].owner = locks[id].owner /\ locks'[id].volume = locks[id].volume
    /\ locks'[id].remaining <= locks[id].remaining
    /\ locks[id].status = "redeemed" => locks'[id] = locks[id]
    /\ locks'[id] # locks[id] =>
         \E n \in DOMAIN transactions' \ DOMAIN transactions :
           transactions'[n].lock = id /\ transactions'[n].user = locks[id].owner

\* A lock is only ever drawn by its owner, never refilled or resized, and once it is
\* redeemed it stays so.
LocksOnlyShrink == [][Shrinks]_vars

\* Every redemption call is answered: no session waits for a row for ever.
CallsAnswered == \A s \in Session : call[s] # Idle ~> call[s] = Idle
=============================================================================
