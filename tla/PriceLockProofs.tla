-------------------------- MODULE PriceLockProofs --------------------------
(***************************************************************************)
(* For any number of members, locks and sessions, and any rounding of the  *)
(* volume columns: no redemption is computed from a stale row, and a lock  *)
(* is only ever drawn down, by its owner.                                  *)
(***************************************************************************)
EXTENDS PriceLock, BasicLemmas

-----------------------------------------------------------------------------
(* Lemmas                                                                  *)

\* A stored volume is a natural number of whole stored units.
LEMMA StoredWhole ==
  ASSUME NEW n \in Nat
  PROVE  Stored(n) \in Nat /\ Stored(n) % Scale = 0
<1>1. n + Scale \div 2 \in Nat
  BY ScaleAssumption
<1> DEFINE q == (n + Scale \div 2) \div Scale
<1>2. q \in Nat
  BY <1>1, Quotient, ScaleAssumption
<1> HIDE DEF q
<1>3. q * Scale \in Nat /\ (q * Scale) % Scale = 0
  BY <1>2, ScaleAssumption
<1>4. QED
  BY <1>3 DEF Stored, q

\* Rounding never takes a volume above a stored one that it was not above before.
LEMMA StoredBelow ==
  ASSUME NEW n \in Nat, NEW m \in Nat, m % Scale = 0, n <= m
  PROVE  Stored(n) <= m
<1> DEFINE q == (n + Scale \div 2) \div Scale
           k == m \div Scale
           h == Scale \div 2
<1>1. h \in Nat /\ h < Scale /\ Scale \in Nat \ {0}
  BY ScaleAssumption
<1>2. q \in Nat /\ q * Scale <= n + h
  BY <1>1, Quotient
<1>3. k \in Nat /\ m = k * Scale
  BY <1>1
<1>4. q * Scale \in Int /\ k * Scale \in Int
  BY <1>1, <1>2, <1>3
<1> HIDE DEF q, k, h
<1>5. q * Scale < k * Scale + Scale
  BY <1>1, <1>2, <1>3, <1>4
<1>6. q <= k
  BY <1>1, <1>2, <1>3, <1>5, TimesCancel
<1>7. q * Scale <= k * Scale
  BY <1>1, <1>2, <1>3, <1>6, TimesMonotone
<1>8. QED
  BY <1>3, <1>7 DEF Stored, q, h

\* Rounding moves a volume by half a stored unit at most, and a stored one not at all.
LEMMA StoredNear ==
  ASSUME NEW n \in Nat
  PROVE  /\ 2 * Stored(n) <= 2 * n + Scale /\ 2 * n <= 2 * Stored(n) + Scale
         /\ n % Scale = 0 => Stored(n) = n
<1> DEFINE q == (n + Scale \div 2) \div Scale
           k == n \div Scale
           h == Scale \div 2
<1>1. h \in Nat /\ h < Scale /\ 2 * h = Scale /\ Scale \in Nat \ {0}
  BY ScaleAssumption
<1>2. q \in Nat /\ q * Scale <= n + h /\ n + h < q * Scale + Scale
  BY <1>1, Quotient
<1>3. k \in Nat /\ (n % Scale = 0 => n = k * Scale)
  BY <1>1
<1>4. q * Scale \in Int /\ k * Scale \in Int /\ Stored(n) = q * Scale
  BY <1>1, <1>2, <1>3 DEF Stored
<1> HIDE DEF q, k, h
<1>5. 2 * (q * Scale) <= 2 * n + Scale /\ 2 * n <= 2 * (q * Scale) + Scale
  BY <1>1, <1>2, <1>4
<1>6. ASSUME n % Scale = 0
      PROVE  q * Scale = n
  <2>1. q * Scale < k * Scale + Scale /\ k * Scale < q * Scale + Scale
    BY <1>1, <1>2, <1>3, <1>4, <1>6
  <2>2. q <= k /\ k <= q
    BY <1>1, <1>2, <1>3, <2>1, TimesCancel
  <2>3. q = k
    BY <1>2, <1>3, <2>2
  <2>4. QED
    BY <1>3, <1>6, <2>3
<1>7. QED
  BY <1>4, <1>5, <1>6

\* What is left of whole stored units is whole.
LEMMA WholeLeft ==
  ASSUME NEW n \in Nat, NEW m \in Nat, n % Scale = 0, m % Scale = 0, n - m \in Nat
  PROVE  (n - m) % Scale = 0
<1> DEFINE a == n \div Scale
           b == m \div Scale
<1>1. Scale \in Nat \ {0}
  BY ScaleAssumption
<1>2. a \in Nat /\ b \in Nat /\ n = a * Scale /\ m = b * Scale
  BY <1>1
<1> HIDE DEF a, b
<1>3. n - m = (a - b) * Scale
  BY <1>1, <1>2
<1>4. a - b \in Int
  BY <1>2
<1>5. ((a - b) * Scale) % Scale = 0
  BY <1>1, <1>4
<1>6. QED
  BY <1>3, <1>5

\* A held call is on a row of its type that it may redeem as it read it.
LEMMA HeldCall ==
  ASSUME TypeOK, NoStaleRead, NEW s \in Busy, call[s].pc = "holding"
  PROVE  LET c == call[s]  row == locks[c.lock] IN
         /\ c \in Held /\ c.lock \in DOMAIN locks
         /\ row \in Lock /\ row.remaining % Scale = 0
         /\ c.read = row.remaining /\ row.owner = c.user
         /\ row.status # "redeemed" /\ c.asked <= row.remaining
         /\ c.asked \in Nat \ {0} /\ c.read - c.asked \in Nat
<1>1. call[s] \in Held
  BY DEF TypeOK, Busy, Waiting, Held, Idle
<1>2. MayRedeem(call[s]) /\ call[s].read = locks[call[s].lock].remaining
  BY DEF NoStaleRead
<1>3. call[s].lock \in DOMAIN locks
  BY <1>2 DEF MayRedeem, Selected
<1>4. locks[call[s].lock] \in Lock /\ locks[call[s].lock].remaining % Scale = 0
  BY <1>3 DEF TypeOK, IsMap
<1>5. call[s].asked \in Nat \ {0} /\ call[s].read \in Nat
  BY <1>1, VolumeAssumption DEF Held
<1>6. QED
  BY <1>1, <1>2, <1>3, <1>4, <1>5 DEF MayRedeem, Selected, Redeemable

-----------------------------------------------------------------------------
(* The inductive invariant is the type invariant and the property itself.  *)

IInv == TypeOK /\ NoStaleRead

LEMMA InitInv == Init => IInv
<1> SUFFICES ASSUME Init PROVE IInv
  OBVIOUS
<1>1. TypeOK
  BY EmptyIsMap DEF Init, TypeOK
<1>2. NoStaleRead
  BY DEF Init, NoStaleRead, Busy
<1>3. QED
  BY <1>1, <1>2 DEF IInv

LEMMA CreateInv ==
  ASSUME IInv, NEW user \in User, NEW id \in LockId, NEW volume \in Volume,
         CreateLock(user, id, volume)
  PROVE  IInv'
<1> DEFINE new == [owner |-> user, volume |-> Stored(volume), remaining |-> Stored(volume),
                   status |-> "active"]
<1>1. /\ id \notin DOMAIN locks /\ locks' = Put(locks, id, new)
      /\ UNCHANGED <<transactions, call>>
  BY DEF CreateLock
<1>2. Stored(volume) \in Nat /\ Stored(volume) % Scale = 0
  BY StoredWhole, VolumeAssumption
<1>3. new \in Lock /\ new.volume % Scale = 0 /\ new.remaining % Scale = 0
  BY <1>2 DEF Lock, Status
<1> HIDE DEF new
<1>4. /\ DOMAIN locks' = DOMAIN locks \cup {id} /\ locks'[id] = new
      /\ \A x \in DOMAIN locks : locks'[x] = locks[x]
  BY <1>1 DEF Put
<1>5. TypeOK'
  <2>1. IsMap(locks, LockId, Lock)'
    BY <1>1, <1>3, PutIsMap DEF IInv, TypeOK
  <2>2. \A x \in DOMAIN locks' :
          locks'[x].volume % Scale = 0 /\ locks'[x].remaining % Scale = 0
    BY <1>3, <1>4 DEF IInv, TypeOK
  <2>3. QED
    BY <1>1, <2>1, <2>2 DEF IInv, TypeOK
<1>6. NoStaleRead'
  <2>1. ASSUME NEW s \in Busy, call[s].pc = "holding"
        PROVE  /\ MayRedeem(call[s])' /\ call[s].read = locks'[call[s].lock].remaining
    BY <2>1, <1>1, <1>4 DEF IInv, NoStaleRead, MayRedeem, Selected
  <2>2. QED
    BY <1>1, <2>1 DEF IInv, NoStaleRead, Busy, Holding
<1>7. QED
  BY <1>5, <1>6 DEF IInv

LEMMA BeginInv ==
  ASSUME IInv, NEW s \in Session, NEW user \in User, NEW id \in LockId, NEW asked \in Volume,
         BeginRedeem(s, user, id, asked)
  PROVE  IInv'
<1> DEFINE new == [pc |-> "waiting", user |-> user, lock |-> id, asked |-> asked]
<1>1. /\ call[s] = Idle /\ call' = [call EXCEPT ![s] = new]
      /\ UNCHANGED <<locks, transactions>>
  BY DEF BeginRedeem
<1>2. new \in Waiting /\ new.pc = "waiting"
  BY VolumeAssumption DEF BeginRedeem, Waiting
<1> HIDE DEF new
<1>3. call'[s] = new /\ \A t \in Session : t # s => call'[t] = call[t]
  BY <1>1 DEF IInv, TypeOK
<1>4. TypeOK'
  BY <1>1, <1>2 DEF IInv, TypeOK
<1>5. NoStaleRead'
  <2>1. \A t \in Busy' : call'[t].pc = "holding" =>
          t # s /\ t \in Busy /\ call[t].pc = "holding" /\ call'[t] = call[t]
    BY <1>2, <1>3 DEF Busy
  <2>2. \A x : \A t \in Session : t \in Holding(x)' <=> t \in Holding(x)
    BY <1>1, <1>2, <1>3 DEF Holding, Busy, Idle
  <2>3. \A x : Holding(x)' = Holding(x)
    BY <2>2 DEF Holding, Busy
  <2>4. QED
    BY <1>1, <2>1, <2>3 DEF IInv, NoStaleRead, MayRedeem, Selected
<1>6. QED
  BY <1>4, <1>5 DEF IInv

\* A call that ends without a change to its row leaves the others as they are.
LEMMA EndInv ==
  ASSUME IInv, NEW s \in Session, call' = [call EXCEPT ![s] = Idle],
         UNCHANGED <<locks, transactions>>
  PROVE  IInv'
<1>1. call'[s] = Idle /\ \A t \in Session : t # s => call'[t] = call[t]
  BY DEF IInv, TypeOK
<1>2. TypeOK'
  BY DEF IInv, TypeOK
<1>3. NoStaleRead'
  <2>1. \A t \in Busy' : t # s /\ t \in Busy /\ call'[t] = call[t]
    BY <1>1 DEF Busy
  <2>2. \A x : \A t \in Busy : t # s => (t \in Holding(x)' <=> t \in Holding(x))
    BY <1>1 DEF Holding, Busy
  <2>3. \A x : Holding(x)' = Holding(x) \ {s}
    BY <1>1, <2>1, <2>2 DEF Holding, Busy
  <2>4. QED
    BY <2>1, <2>3 DEF IInv, NoStaleRead, MayRedeem, Selected
<1>4. QED
  BY <1>2, <1>3 DEF IInv

LEMMA SelectInv ==
  ASSUME IInv, NEW s \in Session, SelectForUpdate(s)
  PROVE  IInv'
<1>1. CASE ~MayRedeem(call[s])
  BY <1>1, EndInv DEF SelectForUpdate
<1>2. CASE MayRedeem(call[s])
  <2> DEFINE c == call[s]
             new == [pc |-> "holding", user |-> c.user, lock |-> c.lock,
                     asked |-> c.asked, read |-> locks[c.lock].remaining]
  <2>1. /\ s \in Busy /\ c.pc = "waiting" /\ Holding(c.lock) = {}
        /\ call' = [call EXCEPT ![s] = new]
        /\ UNCHANGED <<locks, transactions>>
    BY <1>2 DEF SelectForUpdate, MayRedeem, RowFree
  <2>2. c \in Waiting
    BY <2>1 DEF IInv, TypeOK, Busy, Held
  <2>3. locks[c.lock].remaining \in Nat
    BY <1>2 DEF MayRedeem, Selected, IInv, TypeOK, IsMap, Lock
  <2>4. /\ new \in Held /\ new.pc = "holding" /\ new.lock = c.lock /\ new # Idle
        /\ new.read = locks[c.lock].remaining /\ MayRedeem(new)
    BY <1>2, <2>2, <2>3 DEF Held, Waiting, Idle, MayRedeem, Selected
  <2> HIDE DEF new
  <2>5. call'[s] = new /\ \A t \in Session : t # s => call'[t] = call[t]
    BY <2>1 DEF IInv, TypeOK
  <2>6. TypeOK'
    BY <2>1, <2>4 DEF IInv, TypeOK
  <2>7. \A x : x = c.lock => Holding(x)' = {s}
    <3>1. ASSUME NEW x, x = c.lock, NEW t \in Session
          PROVE  t \in Holding(x)' <=> t = s
      BY <3>1, <2>1, <2>4, <2>5 DEF Holding, Busy
    <3>2. QED
      BY <3>1 DEF Holding, Busy
  <2>8. \A x : x # c.lock => Holding(x)' = Holding(x)
    <3>1. ASSUME NEW x, x # c.lock, NEW t \in Session
          PROVE  t \in Holding(x)' <=> t \in Holding(x)
      BY <3>1, <2>1, <2>4, <2>5 DEF Holding, Busy
    <3>2. QED
      BY <3>1 DEF Holding, Busy
  <2>9. NoStaleRead'
    <3>1. SUFFICES ASSUME NEW t \in Busy', call'[t].pc = "holding"
                   PROVE  /\ \A x : x = call'[t].lock => Holding(x)' = {t}
                          /\ MayRedeem(call[t])'
                          /\ call'[t].read = locks'[call'[t].lock].remaining
      BY DEF NoStaleRead
    <3>2. CASE t = s
      BY <3>2, <2>1, <2>4, <2>5, <2>7 DEF MayRedeem, Selected
    <3>3. CASE t # s
      <4>1. t \in Busy /\ call'[t] = call[t] /\ call[t].pc = "holding"
        BY <3>1, <3>3, <2>5 DEF Busy
      <4>2. Holding(call[t].lock) = {t} /\ MayRedeem(call[t])
            /\ call[t].read = locks[call[t].lock].remaining
        BY <4>1 DEF IInv, NoStaleRead
      <4>3. call[t].lock # c.lock
        BY <2>1, <4>2
      <4>4. QED
        BY <2>1, <2>8, <4>1, <4>2, <4>3 DEF MayRedeem, Selected
    <3>4. QED
      BY <3>2, <3>3
  <2>10. QED
    BY <2>6, <2>9 DEF IInv
<1>3. QED
  BY <1>1, <1>2

LEMMA RedeemInv ==
  ASSUME IInv, NEW s \in Session, Redeem(s)
  PROVE  IInv' /\ Shrinks
<1>1. PICK c, row, id, new :
        /\ c = call[s] /\ id = c.lock /\ row = locks[id]
        /\ new = [row EXCEPT
             !.remaining = Stored(c.read - c.asked),
             !.status = IF c.read - c.asked = 0 THEN "redeemed" ELSE "partially_redeemed"]
  OBVIOUS
<1>2. s \in Busy /\ c.pc = "holding" /\ call' = [call EXCEPT ![s] = Idle]
  BY <1>1 DEF Redeem
<1>3. /\ c \in Held /\ id \in DOMAIN locks
      /\ row \in Lock /\ row.remaining % Scale = 0
      /\ c.read = row.remaining /\ row.owner = c.user
      /\ row.status # "redeemed" /\ c.asked <= row.remaining
      /\ c.asked \in Nat \ {0} /\ c.read - c.asked \in Nat
  BY <1>1, <1>2, HeldCall DEF IInv
<1>4. locks' = [locks EXCEPT ![id] = new]
  BY <1>1, <1>3 DEF Redeem, StatusAfter, IInv, TypeOK, IsMap, Lock
<1>5. transactions' = Append(transactions, [user |-> c.user, lock |-> c.lock,
                                            asked |-> c.asked, volume |-> Stored(c.asked)])
  BY <1>1 DEF Redeem
<1>6. /\ Stored(c.read - c.asked) \in Nat /\ Stored(c.read - c.asked) % Scale = 0
      /\ Stored(c.asked) \in Nat
  BY <1>3, StoredWhole
<1>7. Stored(c.read - c.asked) <= row.remaining
  <2>1. row.remaining \in Nat /\ c.read - c.asked <= row.remaining
    BY <1>3 DEF Lock
  <2>2. QED
    BY <1>3, <2>1, StoredBelow
<1>8. /\ new \in Lock /\ new.owner = row.owner /\ new.volume = row.volume
      /\ new.remaining = Stored(c.read - c.asked)
      /\ new.remaining % Scale = 0
  <2>1. new \in Lock
    BY <1>1, <1>3, <1>6 DEF Lock, Status
  <2>2. /\ new.owner = row.owner /\ new.volume = row.volume
        /\ new.remaining = Stored(c.read - c.asked)
    BY <1>1, <1>3 DEF Lock
  <2>3. QED
    BY <1>6, <2>1, <2>2
<1>9. /\ IsMap(locks', LockId, Lock) /\ DOMAIN locks' = DOMAIN locks
      /\ locks'[id] = new
      /\ \A x \in DOMAIN locks : x # id => locks'[x] = locks[x]
  BY <1>3, <1>4, <1>8, ExceptIsMap DEF IInv, TypeOK
<1>10. [user |-> c.user, lock |-> c.lock, asked |-> c.asked, volume |-> Stored(c.asked)] \in Row
  BY <1>3, <1>6 DEF Held, Row
<1>11. call'[s] = Idle /\ \A t \in Session : t # s => call'[t] = call[t]
  BY <1>2 DEF IInv, TypeOK
<1>12. TypeOK'
  <2>1. transactions' \in Seq(Row)
    BY <1>5, <1>10 DEF IInv, TypeOK
  <2>2. \A x \in DOMAIN locks' :
          locks'[x].volume % Scale = 0 /\ locks'[x].remaining % Scale = 0
    <3>1. \A x \in DOMAIN locks :
            locks[x].volume % Scale = 0 /\ locks[x].remaining % Scale = 0
      BY DEF IInv, TypeOK
    <3>2. new.volume = row.volume /\ row.volume % Scale = 0
      BY <1>1, <1>3, <1>8, <3>1
    <3>3. new.volume % Scale = 0
      BY <3>2
    <3>4. ASSUME NEW x \in DOMAIN locks'
          PROVE  locks'[x].volume % Scale = 0 /\ locks'[x].remaining % Scale = 0
      <4>1. CASE x = id
        BY <4>1, <1>8, <1>9, <3>3
      <4>2. CASE x # id
        BY <4>2, <1>9, <3>1
      <4>3. QED
        BY <4>1, <4>2
    <3>5. QED
      BY <3>4
  <2>3. call' \in [Session -> {Idle} \cup Waiting \cup Held]
    BY <1>2 DEF IInv, TypeOK
  <2>4. QED
    BY <1>9, <2>1, <2>2, <2>3 DEF TypeOK
<1>13. NoStaleRead'
  <2>1. \A x : Holding(x)' = Holding(x) \ {s}
    <3>1. \A x : \A t \in Session : t \in Holding(x)' <=> t \in Holding(x) /\ t # s
      BY <1>11 DEF Holding, Busy
    <3>2. QED
      BY <3>1 DEF Holding, Busy
  <2>2. SUFFICES ASSUME NEW t \in Busy', call'[t].pc = "holding"
                 PROVE  /\ \A x : x = call'[t].lock => Holding(x)' = {t}
                        /\ MayRedeem(call[t])'
                        /\ call'[t].read = locks'[call'[t].lock].remaining
    BY DEF NoStaleRead
  <2>3. t # s /\ t \in Busy /\ call'[t] = call[t] /\ call[t].pc = "holding"
    BY <1>11, <2>2 DEF Busy
  <2>4. /\ Holding(call[t].lock) = {t} /\ MayRedeem(call[t])
        /\ call[t].read = locks[call[t].lock].remaining
    BY <2>3 DEF IInv, NoStaleRead
  <2>5. Holding(id) = {s}
    BY <1>1, <1>2 DEF IInv, NoStaleRead
  <2>6. call[t].lock # id
    BY <2>3, <2>4, <2>5
  <2>7. call[t].lock \in DOMAIN locks
    BY <2>4 DEF MayRedeem, Selected
  <2>8. locks'[call[t].lock] = locks[call[t].lock]
    BY <1>9, <2>6, <2>7
  <2>9. QED
    BY <1>9, <2>1, <2>3, <2>4, <2>7, <2>8 DEF MayRedeem, Selected
<1>14. Shrinks
  <2> DEFINE n == Len(transactions) + 1
  <2>1. /\ n \in DOMAIN transactions' \ DOMAIN transactions
        /\ transactions'[n].lock = id /\ transactions'[n].user = row.owner
    BY <1>1, <1>3, <1>5, <1>10, <1>12 DEF IInv, TypeOK
  <2>2. \A x \in DOMAIN locks : locks[x] \in Lock /\ locks[x].remaining \in Nat
    BY DEF IInv, TypeOK, IsMap, Lock
  <2> HIDE DEF n
  <2>3. \E k \in DOMAIN transactions' \ DOMAIN transactions :
          transactions'[k].lock = id /\ transactions'[k].user = row.owner
    BY <2>1
  <2>4. SUFFICES ASSUME NEW x \in DOMAIN locks
                 PROVE  /\ x \in DOMAIN locks'
                        /\ locks'[x].owner = locks[x].owner
                        /\ locks'[x].volume = locks[x].volume
                        /\ locks'[x].remaining <= locks[x].remaining
                        /\ locks[x].status = "redeemed" => locks'[x] = locks[x]
                        /\ locks'[x] # locks[x] =>
                             \E k \in DOMAIN transactions' \ DOMAIN transactions :
                               /\ transactions'[k].lock = x
                               /\ transactions'[k].user = locks[x].owner
    BY DEF Shrinks
  <2>5. CASE x = id
    BY <2>5, <1>1, <1>3, <1>7, <1>8, <1>9, <2>3
  <2>6. CASE x # id
    BY <2>6, <1>9, <2>2
  <2>7. QED
    BY <2>5, <2>6
<1>15. QED
  BY <1>12, <1>13, <1>14 DEF IInv

-----------------------------------------------------------------------------
(* Every step                                                              *)

\* Steps other than Redeem only add locks.
LEMMA LocksKept ==
  ASSUME IInv, \A id \in DOMAIN locks : id \in DOMAIN locks' /\ locks'[id] = locks[id]
  PROVE  Shrinks
<1>1. \A id \in DOMAIN locks : locks[id].remaining \in Nat
  BY DEF IInv, TypeOK, IsMap, Lock
<1>2. QED
  BY <1>1 DEF Shrinks

LEMMA StepInv == IInv /\ [Next]_vars => IInv' /\ [Shrinks]_vars
<1> SUFFICES ASSUME IInv, [Next]_vars PROVE IInv' /\ [Shrinks]_vars
  OBVIOUS
<1>1. ASSUME NEW user \in User, NEW id \in LockId, NEW volume \in Volume,
             CreateLock(user, id, volume)
      PROVE  IInv' /\ Shrinks
  <2>1. \A x \in DOMAIN locks : x \in DOMAIN locks' /\ locks'[x] = locks[x]
    BY <1>1 DEF CreateLock, Put
  <2>2. QED
    BY <1>1, <2>1, CreateInv, LocksKept
<1>2. ASSUME NEW s \in Session, NEW user \in User, NEW id \in LockId, NEW asked \in Volume,
             BeginRedeem(s, user, id, asked)
      PROVE  IInv' /\ Shrinks
  <2>1. locks' = locks
    BY <1>2 DEF BeginRedeem
  <2>2. QED
    BY <1>2, <2>1, BeginInv, LocksKept
<1>3. ASSUME NEW s \in Session, SelectForUpdate(s)
      PROVE  IInv' /\ Shrinks
  <2>1. locks' = locks
    BY <1>3 DEF SelectForUpdate
  <2>2. QED
    BY <1>3, <2>1, SelectInv, LocksKept
<1>4. ASSUME NEW s \in Session, Redeem(s)
      PROVE  IInv' /\ Shrinks
  BY <1>4, RedeemInv
<1>5. ASSUME NEW s \in Session, Abort(s)
      PROVE  IInv' /\ Shrinks
  <2>1. locks' = locks
    BY <1>5 DEF Abort
  <2>2. IInv'
    BY <1>5, EndInv DEF Abort
  <2>3. QED
    BY <2>1, <2>2, LocksKept
<1>6. CASE UNCHANGED vars
  <2>1. \A x : Holding(x)' = Holding(x)
    BY <1>6 DEF vars, Holding, Busy
  <2>2. QED
    BY <1>6, <2>1 DEF IInv, TypeOK, NoStaleRead, Busy, MayRedeem, Selected, vars
<1>7. QED
  BY <1>1, <1>2, <1>3, <1>4, <1>5, <1>6 DEF Next

LEMMA Invariance == Spec => []IInv
  BY InitInv, StepInv, PTL DEF Spec

-----------------------------------------------------------------------------
(* The books                                                               *)

Asked(id) == [n \in Redemptions(id) |-> transactions[n].asked]
Written(id) == [n \in Redemptions(id) |-> transactions[n].volume]

\* A transaction row is about a lock there is, and keeps what was asked for as stored.
RowsAgree ==
  \A n \in DOMAIN transactions :
    /\ transactions[n].lock \in DOMAIN locks
    /\ transactions[n].volume = Stored(transactions[n].asked)

Books == RowsAgree /\ RedemptionsAddUp

\* The balance of one lock: volume, remaining and status of its row against the number
\* and the sums of its redemptions, up to rounding and in whole stored units.
Near(volume, remaining, count, asked) ==
  /\ 2 * (volume - remaining) <= 2 * asked + count * Scale
  /\ 2 * asked <= 2 * (volume - remaining) + count * Scale

Exact(volume, remaining, status, count, written) ==
  /\ remaining + written = volume
  /\ status = "redeemed" <=> remaining = 0
  /\ status = "active" <=> count = 0

AllWhole(id) == \A n \in Redemptions(id) : transactions[n].asked % Scale = 0

Balanced(id) ==
  LET row == locks[id]  count == Cardinality(Redemptions(id)) IN
  /\ Near(row.volume, row.remaining, count, Total(Asked(id)))
  /\ AllWhole(id) => Exact(row.volume, row.remaining, row.status, count, Total(Written(id)))

LEMMA RedemptionsFinite ==
  ASSUME IInv, NEW id
  PROVE  /\ IsFiniteSet(Redemptions(id)) /\ Redemptions(id) \subseteq DOMAIN transactions
         /\ Cardinality(Redemptions(id)) \in Nat
         /\ Cardinality(Redemptions(id)) = 0 <=> Redemptions(id) = {}
         /\ DOMAIN Asked(id) = Redemptions(id) /\ DOMAIN Written(id) = Redemptions(id)
         /\ \A n \in Redemptions(id) : Asked(id)[n] \in Int /\ Written(id)[n] \in Int
         /\ Total(Asked(id)) \in Int /\ Total(Written(id)) \in Int
<1>1. DOMAIN transactions = 1 .. Len(transactions) /\ Len(transactions) \in Nat
  BY DEF IInv, TypeOK
<1>2. IsFiniteSet(DOMAIN transactions)
  BY <1>1, FS_Interval
<1>3. Redemptions(id) \subseteq DOMAIN transactions
  BY DEF Redemptions
<1>4. IsFiniteSet(Redemptions(id))
  BY <1>2, <1>3, FS_Subset
<1>5. Cardinality(Redemptions(id)) \in Nat /\ (Cardinality(Redemptions(id)) = 0 <=> Redemptions(id) = {})
  BY <1>4, FS_CardinalityType, FS_EmptySet
<1>6. \A n \in DOMAIN transactions : transactions[n].asked \in Int /\ transactions[n].volume \in Int
  <2>1. \A n \in DOMAIN transactions : transactions[n] \in Row
    BY DEF IInv, TypeOK
  <2>2. \A v \in Volume : v \in Int
    BY VolumeAssumption
  <2>3. QED
    BY <2>1, <2>2 DEF Row
<1>7. /\ DOMAIN Asked(id) = Redemptions(id) /\ DOMAIN Written(id) = Redemptions(id)
      /\ \A n \in Redemptions(id) : Asked(id)[n] \in Int /\ Written(id)[n] \in Int
  BY <1>3, <1>6 DEF Asked, Written
<1>8. Total(Asked(id)) \in Int /\ Total(Written(id)) \in Int
  BY <1>4, <1>7, TotalTakes
<1>9. QED
  BY <1>3, <1>4, <1>5, <1>7, <1>8

\* RedemptionsAddUp says of each lock that it is balanced.
AllBalanced == \A id \in DOMAIN locks : Balanced(id)

LEMMA AddUpIsBalance == IInv => (RedemptionsAddUp <=> AllBalanced)
<1>1. IInv => \A id : Cardinality(Redemptions(id)) = 0 <=> Redemptions(id) = {}
  BY RedemptionsFinite
<1>2. QED
  BY <1>1 DEF RedemptionsAddUp, AllBalanced, Balanced, Near, Exact, AllWhole, Asked, Written

\* One more redemption, of a lock that holds what is asked for, keeps it balanced.
LEMMA RedemptionBalances ==
  ASSUME NEW volume \in Nat, NEW remaining \in Nat, NEW status, NEW count \in Nat, NEW asked \in Int,
         NEW written \in Int, NEW more \in Nat, remaining - more \in Nat, remaining % Scale = 0
  PROVE  /\ Near(volume, remaining, count, asked) =>
              Near(volume, Stored(remaining - more), count + 1, asked + more)
         /\ Exact(volume, remaining, status, count, written) /\ more % Scale = 0 =>
              Exact(volume, Stored(remaining - more), StatusAfter(remaining - more), count + 1,
                    written + Stored(more))
<1> DEFINE left == remaining - more
           stored == Stored(left)
           slack == count * Scale
<1>1. stored \in Nat /\ 2 * stored <= 2 * left + Scale /\ 2 * left <= 2 * stored + Scale
  BY StoredWhole, StoredNear
<1>2. slack \in Int /\ Scale \in Int /\ (count + 1) * Scale = slack + Scale
  BY ScaleAssumption
<1> HIDE DEF stored, slack
<1>3. ASSUME Near(volume, remaining, count, asked)
      PROVE  Near(volume, stored, count + 1, asked + more)
  <2>1. /\ 2 * (volume - remaining) <= 2 * asked + slack
        /\ 2 * asked <= 2 * (volume - remaining) + slack
    BY <1>3 DEF Near, slack
  <2>2. /\ 2 * (volume - stored) <= 2 * (asked + more) + (slack + Scale)
        /\ 2 * (asked + more) <= 2 * (volume - stored) + (slack + Scale)
    BY <1>1, <1>2, <2>1
  <2>3. QED
    BY <1>2, <2>2 DEF Near
<1>4. ASSUME Exact(volume, remaining, status, count, written), more % Scale = 0
      PROVE  Exact(volume, stored, StatusAfter(left), count + 1, written + Stored(more))
  <2>1. Stored(more) = more
    BY <1>4, StoredNear
  <2>2. left % Scale = 0
    BY <1>4, WholeLeft
  <2>3. stored = left
    BY <2>2, StoredNear DEF stored
  <2>4. remaining + written = volume
    BY <1>4 DEF Exact
  <2>5. stored + (written + Stored(more)) = volume
    BY <2>1, <2>3, <2>4
  <2>6. QED
    BY <2>3, <2>5 DEF StatusAfter, Exact
<1>5. QED
  BY <1>3, <1>4 DEF stored

\* A step that neither draws a lock nor writes a row keeps the books.
LEMMA BooksKept ==
  ASSUME IInv, IInv', Books, UNCHANGED <<locks, transactions>>
  PROVE  Books'
  BY DEF Books, RowsAgree, RedemptionsAddUp, Redemptions

LEMMA CreateBooks ==
  ASSUME IInv, IInv', Books, NEW user \in User, NEW id \in LockId, NEW volume \in Volume,
         CreateLock(user, id, volume)
  PROVE  Books'
<1> DEFINE new == [owner |-> user, volume |-> Stored(volume), remaining |-> Stored(volume),
                   status |-> "active"]
<1>1. /\ id \notin DOMAIN locks /\ locks' = Put(locks, id, new) /\ Stored(volume) > 0
      /\ transactions' = transactions
  BY DEF CreateLock
<1>2. new.volume = Stored(volume) /\ new.remaining = Stored(volume) /\ new.status = "active"
  OBVIOUS
<1> HIDE DEF new
<1>3. /\ DOMAIN locks' = DOMAIN locks \cup {id} /\ locks'[id] = new
      /\ \A x \in DOMAIN locks : locks'[x] = locks[x]
  BY <1>1 DEF Put
<1>4. \A x : Redemptions(x)' = Redemptions(x) /\ Asked(x)' = Asked(x) /\ Written(x)' = Written(x)
  BY <1>1 DEF Redemptions, Asked, Written
<1>5. RowsAgree'
  BY <1>1, <1>3 DEF Books, RowsAgree
<1>6. Redemptions(id) = {}
  BY <1>1 DEF Books, RowsAgree, Redemptions
<1>7. Total(Asked(id)) = 0 /\ Total(Written(id)) = 0 /\ Cardinality(Redemptions(id)) = 0
  BY <1>6, RedemptionsFinite, TotalEmpty
<1>8. Stored(volume) \in Nat /\ Scale \in Nat
  BY StoredWhole, VolumeAssumption, ScaleAssumption
<1>9. ASSUME NEW x \in DOMAIN locks'
      PROVE  Balanced(x)'
  <2>1. CASE x = id
    <3>1. Near(new.volume, new.remaining, 0, 0) /\ Exact(new.volume, new.remaining, new.status, 0, 0)
      BY <1>1, <1>2, <1>8 DEF Near, Exact
    <3>2. QED
      BY <1>3, <1>4, <1>7, <2>1, <3>1 DEF Balanced
  <2>2. CASE x # id
    <3>1. x \in DOMAIN locks /\ locks'[x] = locks[x] /\ (AllWhole(x)' <=> AllWhole(x))
      BY <1>1, <1>3, <1>4, <1>9, <2>2 DEF AllWhole
    <3>2. Balanced(x)
      BY <3>1, AddUpIsBalance DEF Books, AllBalanced
    <3>3. QED
      BY <1>4, <3>1, <3>2 DEF Balanced
  <2>3. QED
    BY <2>1, <2>2
<1>10. (IInv => (RedemptionsAddUp <=> AllBalanced))'
  BY AddUpIsBalance, PTL
<1>11. QED
  BY <1>5, <1>9, <1>10 DEF Books, AllBalanced

LEMMA RedeemBooks ==
  ASSUME IInv, IInv', Books, NEW s \in Session, Redeem(s)
  PROVE  Books'
<1>1. PICK c, id, row, left, n, written :
        /\ c = call[s] /\ id = c.lock /\ row = locks[id] /\ left = c.read - c.asked
        /\ n = Len(transactions) + 1
        /\ written = [user |-> c.user, lock |-> c.lock, asked |-> c.asked, volume |-> Stored(c.asked)]
  OBVIOUS
<1>2. s \in Busy /\ c.pc = "holding"
  BY <1>1 DEF Redeem
<1>3. /\ id \in DOMAIN locks /\ row \in Lock /\ row.remaining % Scale = 0 /\ c.read = row.remaining
      /\ c.asked \in Nat \ {0} /\ left \in Nat
  BY <1>1, <1>2, HeldCall DEF IInv
<1>4. /\ locks' = [locks EXCEPT ![id].remaining = Stored(left), ![id].status = StatusAfter(left)]
      /\ transactions' = Append(transactions, written)
  BY <1>1 DEF Redeem
<1>5. /\ DOMAIN locks' = DOMAIN locks
      /\ locks'[id].volume = row.volume /\ locks'[id].remaining = Stored(left)
      /\ locks'[id].status = StatusAfter(left)
      /\ \A x \in DOMAIN locks : x # id => locks'[x] = locks[x]
  BY <1>1, <1>3, <1>4 DEF IInv, TypeOK, IsMap, Lock
<1>6. /\ n \notin DOMAIN transactions /\ DOMAIN transactions' = DOMAIN transactions \cup {n}
      /\ transactions'[n] = written
      /\ \A k \in DOMAIN transactions : transactions'[k] = transactions[k]
  BY <1>1, <1>4 DEF IInv, TypeOK
<1>7. written.lock = id /\ written.asked = c.asked /\ written.volume = Stored(c.asked)
  BY <1>1
<1>8. RowsAgree'
  BY <1>3, <1>5, <1>6, <1>7 DEF Books, RowsAgree
<1>9. \A x \in DOMAIN locks : Balanced(x)
  BY AddUpIsBalance DEF Books, AllBalanced
<1>10. ASSUME NEW x \in DOMAIN locks
       PROVE  Balanced(x)'
  <2>1. CASE x # id
    <3>1. Redemptions(x)' = Redemptions(x) /\ Redemptions(x) \subseteq DOMAIN transactions
      BY <1>6, <1>7, <2>1 DEF Redemptions
    <3>2. Asked(x)' = Asked(x) /\ Written(x)' = Written(x) /\ (AllWhole(x)' <=> AllWhole(x))
      BY <1>6, <3>1 DEF Asked, Written, AllWhole
    <3>3. QED
      BY <1>5, <1>9, <1>10, <2>1, <3>1, <3>2 DEF Balanced
  <2>2. CASE x = id
    <3>1. /\ IsFiniteSet(Redemptions(id)) /\ Redemptions(id) \subseteq DOMAIN transactions
          /\ Cardinality(Redemptions(id)) \in Nat
          /\ DOMAIN Asked(id) = Redemptions(id) /\ DOMAIN Written(id) = Redemptions(id)
          /\ \A k \in Redemptions(id) : Asked(id)[k] \in Int /\ Written(id)[k] \in Int
          /\ Total(Asked(id)) \in Int /\ Total(Written(id)) \in Int
      BY RedemptionsFinite
    <3>2. Redemptions(id)' = Redemptions(id) \cup {n} /\ n \notin Redemptions(id)
      BY <1>6, <1>7, <3>1 DEF Redemptions
    <3>3. Cardinality(Redemptions(id)') = Cardinality(Redemptions(id)) + 1
      BY <3>1, <3>2, FS_AddElement
    <3>4. /\ DOMAIN Asked(id)' = Redemptions(id) \cup {n} /\ Asked(id)'[n] = c.asked
          /\ \A k \in Redemptions(id) : Asked(id)'[k] = Asked(id)[k]
      BY <1>6, <1>7, <3>1, <3>2 DEF Asked
    <3>5. /\ DOMAIN Written(id)' = Redemptions(id) \cup {n} /\ Written(id)'[n] = Stored(c.asked)
          /\ \A k \in Redemptions(id) : Written(id)'[k] = Written(id)[k]
      BY <1>6, <1>7, <3>1, <3>2 DEF Written
    <3>6. c.asked \in Int /\ Stored(c.asked) \in Int
      BY <1>3, StoredWhole
    <3>7. Total(Asked(id)') = Total(Asked(id)) + c.asked
      <4>1. IsFiniteSet(DOMAIN Asked(id)) /\ n \notin DOMAIN Asked(id)
        BY <3>1, <3>2
      <4>2. \A k \in DOMAIN Asked(id) : Asked(id)[k] \in Int
        BY <3>1
      <4>3. DOMAIN Asked(id)' = DOMAIN Asked(id) \cup {n} /\ Asked(id)'[n] = c.asked
        BY <3>1, <3>4
      <4>4. \A k \in DOMAIN Asked(id) : Asked(id)'[k] = Asked(id)[k]
        BY <3>1, <3>4
      <4>5. QED
        BY <3>6, <4>1, <4>2, <4>3, <4>4, TotalPut
    <3>8. Total(Written(id)') = Total(Written(id)) + Stored(c.asked)
      <4>1. IsFiniteSet(DOMAIN Written(id)) /\ n \notin DOMAIN Written(id)
        BY <3>1, <3>2
      <4>2. \A k \in DOMAIN Written(id) : Written(id)[k] \in Int
        BY <3>1
      <4>3. DOMAIN Written(id)' = DOMAIN Written(id) \cup {n} /\ Written(id)'[n] = Stored(c.asked)
        BY <3>1, <3>5
      <4>4. \A k \in DOMAIN Written(id) : Written(id)'[k] = Written(id)[k]
        BY <3>1, <3>5
      <4>5. QED
        BY <3>6, <4>1, <4>2, <4>3, <4>4, TotalPut
    <3>9. AllWhole(id)' <=> AllWhole(id) /\ c.asked % Scale = 0
      BY <1>6, <1>7, <3>1, <3>2 DEF AllWhole
    <3>10. /\ Near(row.volume, row.remaining, Cardinality(Redemptions(id)), Total(Asked(id)))
           /\ AllWhole(id) => Exact(row.volume, row.remaining, row.status,
                                   Cardinality(Redemptions(id)), Total(Written(id)))
      BY <1>1, <1>3, <1>9 DEF Balanced
    <3>11. /\ row.volume \in Nat /\ row.remaining \in Nat /\ row.remaining - c.asked = left
           /\ c.asked \in Nat
      BY <1>1, <1>3 DEF Lock
    <3>12. /\ Near(row.volume, Stored(left), Cardinality(Redemptions(id)) + 1, Total(Asked(id)) + c.asked)
           /\ AllWhole(id) /\ c.asked % Scale = 0 =>
                Exact(row.volume, Stored(left), StatusAfter(left), Cardinality(Redemptions(id)) + 1,
                      Total(Written(id)) + Stored(c.asked))
      BY <1>3, <3>1, <3>10, <3>11, RedemptionBalances
    <3>13. QED
      BY <1>5, <2>2, <3>3, <3>7, <3>8, <3>9, <3>12 DEF Balanced
  <2>3. QED
    BY <2>1, <2>2
<1>11. (IInv => (RedemptionsAddUp <=> AllBalanced))'
  BY AddUpIsBalance, PTL
<1>12. RedemptionsAddUp'
  BY <1>5, <1>10, <1>11 DEF AllBalanced
<1>13. QED
  BY <1>8, <1>12 DEF Books

LEMMA StepBooks == IInv /\ IInv' /\ Books /\ [Next]_vars => Books'
<1> SUFFICES ASSUME IInv, IInv', Books, [Next]_vars PROVE Books'
  OBVIOUS
<1>1. ASSUME NEW user \in User, NEW id \in LockId, NEW volume \in Volume,
             CreateLock(user, id, volume)
      PROVE  Books'
  BY <1>1, CreateBooks
<1>2. ASSUME NEW s \in Session, Redeem(s)
      PROVE  Books'
  BY <1>2, RedeemBooks
<1>3. CASE UNCHANGED <<locks, transactions>>
  BY <1>3, BooksKept
<1>4. QED
  BY <1>1, <1>2, <1>3 DEF Next, BeginRedeem, SelectForUpdate, Abort, vars

LEMMA InitBooks == Init => Books
<1> SUFFICES ASSUME Init PROVE Books
  OBVIOUS
<1>1. DOMAIN transactions = {} /\ DOMAIN locks = {}
  BY EmptyIsMap DEF Init
<1>2. QED
  BY <1>1 DEF Books, RowsAgree, RedemptionsAddUp

-----------------------------------------------------------------------------
(* Theorems                                                                *)

\* Rows, transaction rows and calls keep their types, and columns hold whole units.
THEOREM TypeCorrect == Spec => []TypeOK
<1>1. IInv => TypeOK
  BY DEF IInv
<1>2. QED
  BY <1>1, Invariance, PTL

\* For any number of concurrent sessions, a redemption is computed from the row it
\* writes: SELECT ... FOR UPDATE rules out the lost update.
THEOREM RedemptionsSerialized == Spec => []NoStaleRead
<1>1. IInv => NoStaleRead
  BY DEF IInv
<1>2. QED
  BY <1>1, Invariance, PTL

\* However sessions interleave, wait and fail, and whatever the columns round, the row of
\* a lock has lost what its recorded redemptions asked for, up to half a stored unit for
\* each; in whole stored units the books are exact (redeem_demo_fuel).
THEOREM BooksBalance == Spec => []RedemptionsAddUp
<1>1. Books => RedemptionsAddUp
  BY DEF Books
<1>2. Init => Books
  BY InitBooks
<1>3. IInv /\ IInv' /\ Books /\ [Next]_vars => Books'
  BY StepBooks
<1>4. QED
  BY <1>1, <1>2, <1>3, Invariance, PTL DEF Spec

\* No step refills, resizes or hands over a lock, nor draws it without a transaction
\* row of its owner; rounding to the column never refills it either.
THEOREM LocksShrink == Spec => LocksOnlyShrink
  BY Invariance, StepInv, PTL DEF Spec, LocksOnlyShrink
=============================================================================
