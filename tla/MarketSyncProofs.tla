-------------------------- MODULE MarketSyncProofs --------------------------
(***************************************************************************)
(* Theorems about MarketSync, for every set of markets, sessions,          *)
(* processes and books.                                                    *)
(***************************************************************************)
EXTENDS MarketSync, SequenceTheorems, TLAPS

USE DEF Sessions

(***************************************************************************)
(* The queue of the lock.                                                  *)
(***************************************************************************)

\* A queue without one of its sessions is a queue, and if another one is at its head, it stays there.
LEMMA WithoutProperties ==
    ASSUME NEW S, NEW queue \in Seq(S), NEW s
    PROVE  /\ Without(queue, s) \in Seq(S)
           /\ queue # <<>> /\ Head(queue) # s =>
                 /\ Without(queue, s) # <<>>
                 /\ Head(Without(queue, s)) = Head(queue)
<1> DEFINE i == CHOOSE i \in DOMAIN queue : queue[i] = s
           left == SubSeq(queue, 1, i - 1)
           right == SubSeq(queue, i + 1, Len(queue))
<1>1. CASE ~ \E k \in DOMAIN queue : queue[k] = s
  BY <1>1 DEF Without
<1>2. CASE \E k \in DOMAIN queue : queue[k] = s
  <2>1. i \in DOMAIN queue /\ queue[i] = s
    BY <1>2
  <2>2. /\ i \in 1 .. Len(queue) /\ Len(queue) \in Nat
        /\ \A k \in 1 .. Len(queue) : queue[k] \in S
    BY <2>1, LenProperties, ElementOfSeq
  <2>3. Without(queue, s) = left \o right
    BY <1>2 DEF Without
  <2> HIDE DEF i
  <2>4. /\ left \in Seq(S) /\ Len(left) = i - 1
        /\ \A k \in 1 .. i - 1 : left[k] = queue[k]
    <3>1. 1 \in Int /\ i - 1 \in Int /\ \A k \in 1 .. i - 1 : queue[k] \in S
      BY <2>2
    <3>2. /\ left \in Seq(S) /\ Len(left) = IF 1 <= i - 1 THEN (i - 1) - 1 + 1 ELSE 0
          /\ \A k \in 1 .. (i - 1) - 1 + 1 : left[k] = queue[1 + k - 1]
      BY <3>1, SubSeqProperties
    <3> QED BY <3>2, <2>2
  <2>5. right \in Seq(S)
    <3>1. i + 1 \in Int /\ Len(queue) \in Int /\ \A k \in i + 1 .. Len(queue) : queue[k] \in S
      BY <2>2
    <3> QED BY <3>1, SubSeqProperties
  <2>6. /\ left \o right \in Seq(S)
        /\ Len(left \o right) = Len(left) + Len(right)
        /\ \A k \in 1 .. Len(left) + Len(right) :
              (left \o right)[k] = IF k <= Len(left) THEN left[k] ELSE right[k - Len(left)]
    BY <2>4, <2>5, ConcatProperties
  <2>7. ASSUME queue # <<>>, Head(queue) # s
        PROVE  left \o right # <<>> /\ Head(left \o right) = Head(queue)
    <3>1. Head(queue) = queue[1]
      BY <2>7
    <3>2. i - 1 >= 1
      BY <3>1, <2>1, <2>2, <2>7
    <3>3. Len(right) \in Nat
      BY <2>5, LenProperties
    <3>4. Len(left \o right) >= 1 /\ (left \o right)[1] = queue[1]
      BY <3>2, <3>3, <2>4, <2>6, <2>2
    <3>5. left \o right # <<>>
      <4> HIDE DEF left, right
      <4> QED BY <3>4
    <3> QED BY <3>1, <3>4, <3>5, <2>6
  <2> QED BY <2>3, <2>6, <2>7
<1> QED BY <1>1, <1>2

(***************************************************************************)
(* Types.                                                                  *)
(***************************************************************************)

LEMMA RowTypes ==
    ASSUME NEW row \in Row, NEW book \in Book, NEW winner \in Winner
    PROVE  /\ Mid(book) \in Price
           /\ TakeBook(row, book) \in Row
           /\ TakeSides(row, book) \in Row
           /\ TakeWinner(row, winner) \in Row
<1>1. /\ book.bid \in Price /\ book.ask \in Price
      /\ row.bid \in Price /\ row.ask \in Price /\ row.last \in Price /\ row.winner \in Winner
      /\ row = [bid |-> row.bid, ask |-> row.ask, last |-> row.last, winner |-> row.winner]
  BY DEF Row, Book
<1>2. Mid(book) \in Price
  BY <1>1 DEF Mid, Price
<1>3. TakeBook(row, book) \in Row
  BY <1>1, <1>2 DEF TakeBook, Row
<1>4. \A x, y \in Price : Or(x, y) \in Price
  BY DEF Or
<1>5. TakeSides(row, book) \in Row
  BY <1>1, <1>2, <1>4 DEF TakeSides, Row
<1>6. TakeWinner(row, winner) \in Row
  BY <1>1 DEF TakeWinner, Row, Or
<1> QED BY <1>2, <1>3, <1>5, <1>6

LEMMA ShotTypes ==
    ASSUME NEW m \in Markets, NEW book \in Book
    PROVE  Shots(m, book) \subseteq Snapshot
BY DEF Book, Price, Shots, Snapshot, Quoted

LEMMA WorkType ==
    ASSUME TypeOK, NEW m \in Markets, NEW new \in Row
    PROVE  Work(m, new) \in Update
BY DEF TypeOK, Work, Update

LEMMA MergedType ==
    ASSUME NEW row \in Row, NEW u \in Update
    PROVE  Merged(row, u) \in Row
BY DEF Row, Update, Merged, Column

\* What a session does next to its own record keeps the type of all records.
LEMMA SessionType ==
    ASSUME TypeOK, NEW s \in Sessions, NEW e \in Session,
           sess' = [sess EXCEPT ![s] = e]
    PROVE  sess' \in [Sessions -> Session]
BY DEF TypeOK

LEMMA IdleType == Idle \in Session
BY EmptySeq DEF Idle, Session

LEMMA ReleaseType ==
    ASSUME TypeOK, NEW s \in Sessions, Release(s)
    PROVE  lock' \in [Processes -> Seq(Sessions)]
<1>1. ProcessOf[s] \in Processes
  BY SessionsAssumption
<1>2. Without(lock[ProcessOf[s]], s) \in Seq(Sessions)
  BY <1>1, WithoutProperties DEF TypeOK
<1> QED BY <1>2 DEF Release, TypeOK

LEMMA TypeInit == Init => TypeOK
BY IdleType, EmptySeq, MarketsAssumption
   DEF Init, TypeOK, Row, BlankRow, Price, Winner

\* What the disjuncts of Next have in common: a session drops what it had, or it works on.
LEMMA DropType ==
    ASSUME TypeOK, NEW s \in Sessions, Drop(s), aborts' \in 0 .. MaxAborts
    PROVE  TypeOK'
<1>1. sess' \in [Sessions -> Session]
  BY SessionType, IdleType DEF Drop
<1>2. lock' \in [Processes -> Seq(Sessions)]
  BY ReleaseType DEF Drop
<1> QED BY <1>1, <1>2 DEF Drop, TypeOK

\* Every step of the specification leaves a state of the right types.
LEMMA TypeStep == TypeOK /\ [Next]_vars => TypeOK'
<1> SUFFICES ASSUME TypeOK, [Next]_vars PROVE TypeOK'
  OBVIOUS
<1>0. CASE UNCHANGED vars
  BY <1>0 DEF vars, TypeOK
<1> SUFFICES ASSUME NEW s \in Sessions,
                    Request(s) \/ StartWatch(s) \/ Step(s) \/ Flush(s) \/ Abort(s)
             PROVE  TypeOK'
  BY <1>0 DEF Next
<1> DEFINE e == sess[s]
<1>a. /\ e \in Session /\ ProcessOf[s] \in Processes
      /\ e.phase \in {"idle", "queued", "running"} /\ e.todo \in Seq(Markets) /\ e.spent \in Nat
      /\ e.dirty \subseteq Update /\ e.written \subseteq Update /\ e.shots \subseteq Snapshot
  BY SessionsAssumption DEF TypeOK, Session
<1>b. ASSUME e.todo # <<>> PROVE Head(e.todo) \in Markets /\ Tail(e.todo) \in Seq(Markets)
  BY <1>a, <1>b, HeadTailProperties
<1>c. /\ MaxStarts \in Nat /\ started \in 0 .. MaxStarts
      /\ MaxAborts \in Nat /\ aborts \in 0 .. MaxAborts
      /\ Watched \subseteq Markets /\ Tokens \subseteq Markets
      /\ Listings \subseteq Seq(Markets) /\ Lineups \subseteq Seq(Watched)
      /\ Books \subseteq Book /\ NoBook \in Book
      /\ \A m \in Markets : Winners[m] \subseteq Winner
  BY MarketsAssumption DEF TypeOK
<1>1. CASE Request(s)
  <2>1. [e EXCEPT !.phase = "queued"] \in Session
    BY <1>a DEF Session
  <2>2. sess' \in [Sessions -> Session]
    BY <1>1, <2>1, SessionType DEF Request
  <2>3. Append(lock[ProcessOf[s]], s) \in Seq(Sessions)
    BY <1>a, AppendProperties DEF TypeOK
  <2>4. lock' \in [Processes -> Seq(Sessions)]
    BY <1>1, <1>a, <2>3 DEF Request, TypeOK
  <2>5. started' \in 0 .. MaxStarts
    <3>1. started < MaxStarts /\ started' = started + 1
      BY <1>1, Zenon DEF Request
    <3> QED BY <3>1, <1>c
  <2> QED BY <1>1, <2>2, <2>4, <2>5 DEF Request, TypeOK
<1>2. CASE StartWatch(s)
  <2>1. PICK list \in Lineups : sess' = [sess EXCEPT ![s] = [sess[s] EXCEPT !.phase = "running", !.todo = list]]
    BY <1>2 DEF StartWatch
  <2>2. list \in Seq(Markets)
    BY <1>c, SeqMonotonic
  <2>3. [e EXCEPT !.phase = "running", !.todo = list] \in Session
    BY <1>a, <2>2 DEF Session
  <2>4. sess' \in [Sessions -> Session]
    BY <2>1, <2>3, SessionType
  <2>5. started' \in 0 .. MaxStarts
    <3>1. started < MaxStarts /\ started' = started + 1
      BY <1>2, Zenon DEF StartWatch
    <3> QED BY <3>1, <1>c
  <2> QED BY <1>2, <2>4, <2>5 DEF StartWatch, TypeOK
<1>3. CASE Fetch(s)
  <2>1. PICK list \in Listings :
          sess' = [sess EXCEPT ![s] = [sess[s] EXCEPT !.phase = "running", !.todo = list]]
    BY <1>3 DEF Fetch
  <2>2. [e EXCEPT !.phase = "running", !.todo = list] \in Session
    BY <1>a, <1>c DEF Session
  <2>3. sess' \in [Sessions -> Session]
    BY <2>1, <2>2, SessionType
  <2> QED BY <1>3, <2>3 DEF Fetch, TypeOK
<1>4. CASE SyncMarket(s)
  <2> DEFINE m == Head(e.todo)
             asks == m \in Tokens /\ e.spent < ClobLimit
  <2>1. PICK book \in (IF asks THEN Books ELSE {NoBook}), winner \in Winners[m] :
          sess' = [sess EXCEPT ![s] = [sess[s] EXCEPT
            !.todo = Tail(@),
            !.spent = IF asks THEN @ + 1 ELSE @,
            !.dirty = {Work(m, TakeWinner(TakeBook(rows[m], book), winner))},
            !.shots = @ \cup Shots(m, book)]]
    BY <1>4 DEF SyncMarket
  <2>2. m \in Markets /\ Tail(e.todo) \in Seq(Markets) /\ book \in Book
    BY <1>4, <1>b, <1>c DEF SyncMarket
  <2>3. rows[m] \in Row /\ winner \in Winner
    BY <2>2, <1>c DEF TypeOK
  <2>4. Work(m, TakeWinner(TakeBook(rows[m], book), winner)) \in Update
    BY <2>2, <2>3, RowTypes, WorkType
  <2>5. Shots(m, book) \subseteq Snapshot
    BY <2>2, ShotTypes
  <2> HIDE DEF m
  <2> DEFINE left == IF asks THEN e.spent + 1 ELSE e.spent
             work == Work(m, TakeWinner(TakeBook(rows[m], book), winner))
             f == [e EXCEPT !.todo = Tail(@), !.spent = left, !.dirty = {work},
                            !.shots = @ \cup Shots(m, book)]
  <2>6. left \in Nat
    BY <1>a
  <2>7. sess' = [sess EXCEPT ![s] = f]
    BY <2>1
  <2>8. f \in Session
    <3> DEFINE shots == e.shots \cup Shots(m, book)
    <3>1. {work} \subseteq Update /\ shots \subseteq Snapshot
      BY <2>4, <2>5, <1>a
    <3> HIDE DEF left, work, shots
    <3>2. [e EXCEPT !.todo = Tail(e.todo), !.spent = left, !.dirty = {work}, !.shots = shots]
            \in Session
      BY <2>2, <2>6, <3>1, <1>a DEF Session
    <3> QED BY <3>2 DEF shots
  <2>9. sess' \in [Sessions -> Session]
    <3> HIDE DEF f
    <3> QED BY <2>7, <2>8, SessionType
  <2> QED BY <1>4, <2>9 DEF SyncMarket, TypeOK
<1>5. CASE RefreshMarkets(s)
  <2>0. PICK held \in SUBSET (stored \cap Tokens) : \E book \in [held -> Books] :
          sess' = [sess EXCEPT ![s] = [sess[s] EXCEPT
            !.phase = "running",
            !.dirty = {Work(m, TakeBook(rows[m], book[m])) : m \in held},
            !.shots = UNION {Shots(m, book[m]) : m \in held}]]
    BY <1>5 DEF RefreshMarkets
  <2>1. PICK book \in [held -> Books] :
          sess' = [sess EXCEPT ![s] = [sess[s] EXCEPT
            !.phase = "running",
            !.dirty = {Work(m, TakeBook(rows[m], book[m])) : m \in held},
            !.shots = UNION {Shots(m, book[m]) : m \in held}]]
    BY <2>0
  <2>2. \A m \in held : m \in Markets /\ rows[m] \in Row /\ book[m] \in Book
    BY <1>c DEF TypeOK
  <2>3. {Work(m, TakeBook(rows[m], book[m])) : m \in held} \subseteq Update
    <3>1. ASSUME NEW m \in held PROVE Work(m, TakeBook(rows[m], book[m])) \in Update
      <4>1. "YES" \in Winner
        BY DEF Winner
      <4>2. TakeBook(rows[m], book[m]) \in Row
        BY <2>2, <4>1, RowTypes
      <4> QED BY <2>2, <4>2, WorkType
    <3> QED BY <3>1
  <2>4. UNION {Shots(m, book[m]) : m \in held} \subseteq Snapshot
    BY <2>2, ShotTypes
  <2>5. [e EXCEPT !.phase = "running",
                 !.dirty = {Work(m, TakeBook(rows[m], book[m])) : m \in held},
                 !.shots = UNION {Shots(m, book[m]) : m \in held}] \in Session
    BY <2>3, <2>4, <1>a DEF Session
  <2>6. sess' \in [Sessions -> Session]
    BY <2>1, <2>5, SessionType
  <2> QED BY <1>5, <2>6 DEF RefreshMarkets, TypeOK
<1>6. CASE WatchMarket(s)
  <2> DEFINE m == Head(e.todo)
  <2>1. PICK book \in Books :
          sess' = [sess EXCEPT ![s] = [sess[s] EXCEPT
            !.todo = Tail(@),
            !.dirty = {Work(m, TakeSides(rows[m], book))},
            !.shots = @ \cup Shots(m, book)]]
    BY <1>6 DEF WatchMarket
  <2>2. m \in Markets /\ Tail(e.todo) \in Seq(Markets) /\ book \in Book
    BY <1>6, <1>b, <1>c DEF WatchMarket
  <2>3. Work(m, TakeSides(rows[m], book)) \in Update
    <3>1. "YES" \in Winner /\ rows[m] \in Row
      BY <2>2 DEF Winner, TypeOK
    <3>2. TakeSides(rows[m], book) \in Row
      BY <2>2, <3>1, RowTypes
    <3> QED BY <2>2, <3>2, WorkType
  <2>4. Shots(m, book) \subseteq Snapshot
    BY <2>2, ShotTypes
  <2> HIDE DEF m
  <2> DEFINE work == Work(m, TakeSides(rows[m], book))
             f == [e EXCEPT !.todo = Tail(@), !.dirty = {work}, !.shots = @ \cup Shots(m, book)]
  <2>5. sess' = [sess EXCEPT ![s] = f]
    BY <2>1
  <2>6. f \in Session
    <3> DEFINE shots == e.shots \cup Shots(m, book)
    <3>1. {work} \subseteq Update /\ shots \subseteq Snapshot
      BY <2>3, <2>4, <1>a
    <3> HIDE DEF work, shots
    <3>2. [e EXCEPT !.todo = Tail(e.todo), !.dirty = {work}, !.shots = shots] \in Session
      BY <2>2, <3>1, <1>a DEF Session
    <3> QED BY <3>2 DEF shots
  <2>7. sess' \in [Sessions -> Session]
    <3> HIDE DEF f
    <3> QED BY <2>5, <2>6, SessionType
  <2> QED BY <1>6, <2>7 DEF WatchMarket, TypeOK
<1>7. CASE Flush(s)
  <2>1. PICK u \in e.dirty :
          sess' = [sess EXCEPT ![s] = [sess[s] EXCEPT !.dirty = @ \ {u}, !.written = @ \cup {u}]]
    BY <1>7 DEF Flush, Front
  <2> DEFINE f == [e EXCEPT !.dirty = @ \ {u}, !.written = @ \cup {u}]
  <2>2. f \in Session /\ sess' = [sess EXCEPT ![s] = f]
    BY <2>1, <1>a DEF Session
  <2>3. sess' \in [Sessions -> Session]
    <3> HIDE DEF f
    <3> QED BY <2>2, SessionType
  <2> QED BY <1>7, <2>3 DEF Flush, TypeOK
<1>8. CASE InsertConflict(s)
  BY <1>8, DropType DEF InsertConflict, TypeOK
<1>9. CASE BreakDeadlock(s)
  BY <1>9, DropType DEF BreakDeadlock, TypeOK
<1>10. CASE Commit(s)
  <2>1. rows' \in [Markets -> Row]
    <3> DEFINE W == e.written
    <3>1. ASSUME NEW m \in Markets, \E u \in W : u.market = m
          PROVE  Merged(rows[m], CHOOSE u \in W : u.market = m) \in Row
      <4>1. (CHOOSE u \in W : u.market = m) \in Update
        BY <1>a, <3>1
      <4> QED BY <4>1, MergedType DEF TypeOK
    <3> QED BY <1>10, <3>1 DEF Commit, TypeOK
  <2>2. stored' \subseteq Markets
    BY <1>10, <1>a DEF Commit, TypeOK, Update
  <2>3. sess' \in [Sessions -> Session]
    BY <1>10, SessionType, IdleType DEF Commit
  <2>4. lock' \in [Processes -> Seq(Sessions)]
    BY <1>10, ReleaseType DEF Commit
  <2> QED BY <1>10, <1>a, <2>1, <2>2, <2>3, <2>4 DEF Commit, TypeOK
<1>11. CASE Abort(s)
  <2>1. aborts' \in 0 .. MaxAborts
    BY <1>11, <1>c DEF Abort
  <2> QED BY <1>11, <2>1, DropType DEF Abort
<1> QED BY <1>1, <1>2, <1>3, <1>4, <1>5, <1>6, <1>7, <1>8, <1>9, <1>10, <1>11 DEF Step

\* The variables keep their types, whatever the markets, sessions and processes.
THEOREM TypeCorrect == Spec => []TypeOK
BY TypeInit, TypeStep, PTL DEF Spec

(***************************************************************************)
(* What a session means to write, whoever else writes.                     *)
(***************************************************************************)

\* Each value that a session changes is None or stands in a snapshot it takes along, and it
\* never takes a winner away.
Sound(u, S) ==
    /\ u.new.winner = u.old.winner \/ u.new.winner # None
    /\ u.new.bid = u.old.bid \/ u.new.bid = None
          \/ \E x \in S : x.market = u.market /\ x.bid = u.new.bid
    /\ u.new.ask = u.old.ask \/ u.new.ask = None
          \/ \E x \in S : x.market = u.market /\ x.ask = u.new.ask
    /\ u.new.last = u.old.last \/ u.new.last = None
          \/ \E x \in S : x.market = u.market /\ Mid(x) = u.new.last

UpdateInv ==
    \A s \in Sessions :
        /\ \A u \in sess[s].dirty \cup sess[s].written : Sound(u, sess[s].shots)
        /\ ~Running(s) => sess[s].dirty = {} /\ sess[s].written = {}

LEMMA SoundGrows ==
    ASSUME NEW u, NEW S, NEW T, S \subseteq T, Sound(u, S)
    PROVE  Sound(u, T)
BY DEF Sound

\* The work of a sync, of a refresh and of a watchlist on a market.
LEMMA WorkSound ==
    ASSUME TypeOK, NEW m \in Markets, NEW book \in Book, NEW winner \in Winner
    PROVE  /\ Sound(Work(m, TakeWinner(TakeBook(rows[m], book), winner)), Shots(m, book))
           /\ Sound(Work(m, TakeBook(rows[m], book)), Shots(m, book))
           /\ Sound(Work(m, TakeSides(rows[m], book)), Shots(m, book))
<1> DEFINE row == rows[m]
           x == [market |-> m, bid |-> book.bid, ask |-> book.ask]
<1>1. /\ row = [bid |-> row.bid, ask |-> row.ask, last |-> row.last, winner |-> row.winner]
      /\ book = [bid |-> book.bid, ask |-> book.ask]
  BY DEF TypeOK, Row, Book
<1>2. Quoted(book) => Shots(m, book) = {x}
  BY DEF Shots
<1>3. ~Quoted(book) => book.bid = None /\ book.ask = None /\ Mid(book) = None
  BY DEF Quoted, Mid
<1>4. Mid(x) = Mid(book) /\ x.bid = book.bid /\ x.ask = book.ask /\ x.market = m
  BY DEF Mid
<1> HIDE DEF x
<1>5. ASSUME NEW new,
             new.winner = row.winner \/ new.winner # None,
             new.bid = book.bid \/ new.bid = row.bid,
             new.ask = book.ask \/ new.ask = row.ask,
             new.last = Mid(book) \/ new.last = row.last
      PROVE  Sound(Work(m, new), Shots(m, book))
  <2>1. Work(m, new).market = m /\ Work(m, new).old = row /\ Work(m, new).new = new
    BY DEF Work
  <2>2. CASE Quoted(book)
    BY <2>1, <2>2, <1>2, <1>4, <1>5 DEF Sound
  <2>3. CASE ~Quoted(book)
    BY <2>1, <2>3, <1>3, <1>5 DEF Sound
  <2> QED BY <2>2, <2>3
<1> DEFINE taken == TakeBook(row, book)
           sides == TakeSides(row, book)
           won == TakeWinner(taken, winner)
<1>6. /\ taken.winner = row.winner /\ taken.bid = book.bid /\ taken.ask = book.ask
      /\ taken.last = Mid(book) /\ taken \in Row
  <2>1. /\ taken.winner = row.winner /\ taken.bid = book.bid /\ taken.ask = book.ask
        /\ taken.last = Mid(book)
    BY <1>1 DEF TakeBook
  <2> QED BY <2>1, RowTypes DEF TypeOK
<1>7. /\ sides.winner = row.winner
      /\ sides.bid = book.bid \/ sides.bid = row.bid
      /\ sides.ask = book.ask \/ sides.ask = row.ask
      /\ sides.last = Mid(book) \/ sides.last = row.last
  BY <1>1 DEF TakeSides, Or
<1> HIDE DEF taken, sides
<1>8. /\ won.winner = row.winner \/ won.winner # None
      /\ won.bid = book.bid /\ won.ask = book.ask /\ won.last = Mid(book)
  BY <1>6 DEF TakeWinner, Or, Row
<1> HIDE DEF won
<1>9. Sound(Work(m, taken), Shots(m, book))
  BY <1>5, <1>6
<1>10. Sound(Work(m, sides), Shots(m, book))
  BY <1>5, <1>7
<1>11. Sound(Work(m, won), Shots(m, book))
  BY <1>5, <1>8
<1> QED BY <1>9, <1>10, <1>11 DEF taken, sides, won

LEMMA UpdateInit == Init => UpdateInv
BY DEF Init, UpdateInv, Idle, Running

\* A session that works on keeps what it has and adds work that is sound.
LEMMA SessionSound ==
    ASSUME UpdateInv, TypeOK, NEW s \in Sessions, NEW f, sess' = [sess EXCEPT ![s] = f],
           \A u \in f.dirty \cup f.written : Sound(u, f.shots),
           f.phase # "running" => f.dirty = {} /\ f.written = {}
    PROVE  UpdateInv'
<1>1. sess'[s] = f /\ \A t \in Sessions : t # s => sess'[t] = sess[t]
  BY DEF TypeOK
<1> QED BY <1>1 DEF UpdateInv, Running

LEMMA UpdateStep == TypeOK /\ UpdateInv /\ [Next]_vars => UpdateInv'
<1> SUFFICES ASSUME TypeOK, UpdateInv, [Next]_vars PROVE UpdateInv'
  OBVIOUS
<1>0. CASE UNCHANGED vars
  BY <1>0 DEF vars, UpdateInv, Running
<1> SUFFICES ASSUME NEW s \in Sessions,
                    Request(s) \/ StartWatch(s) \/ Step(s) \/ Flush(s) \/ Abort(s)
             PROVE  UpdateInv'
  BY <1>0 DEF Next
<1> DEFINE e == sess[s]
<1>a. /\ e \in Session /\ \A u \in e.dirty \cup e.written : Sound(u, e.shots)
      /\ e.todo \in Seq(Markets)
      /\ e.phase # "running" => e.dirty = {} /\ e.written = {}
  BY DEF UpdateInv, TypeOK, Session, Running
<1>b. /\ Books \subseteq Book /\ NoBook \in Book /\ \A m \in Markets : Winners[m] \subseteq Winner
  BY MarketsAssumption
\* Work on one market more: what is in hand has been flushed.
<1>c. ASSUME NEW f, sess' = [sess EXCEPT ![s] = f],
             NEW u, f.dirty = {u}, f.written = e.written,
             NEW S, f.shots = e.shots \cup S, Sound(u, S), f.phase = "running"
      PROVE  UpdateInv'
  <2>1. \A v \in f.dirty \cup f.written : Sound(v, f.shots)
    BY <1>a, <1>c, SoundGrows
  <2> QED BY <1>c, <2>1, SessionSound
\* No work, no writes.
<1>d. ASSUME NEW f, sess' = [sess EXCEPT ![s] = f],
             f.dirty \cup f.written = e.dirty \cup e.written, f.shots = e.shots,
             f.phase = "running" \/ e.phase # "running"
      PROVE  UpdateInv'
  BY <1>a, <1>d, SessionSound
<1>e. ASSUME sess' = [sess EXCEPT ![s] = Idle] PROVE UpdateInv'
  <2>1. Idle.dirty = {} /\ Idle.written = {}
    BY DEF Idle
  <2> QED BY <1>e, <2>1, SessionSound
<1>1. CASE Request(s)
  <2> DEFINE f == [e EXCEPT !.phase = "queued"]
  <2>1. sess' = [sess EXCEPT ![s] = f]
    BY <1>1 DEF Request
  <2>2. f.dirty = e.dirty /\ f.written = e.written /\ f.shots = e.shots
    BY <1>a DEF Session
  <2>3. e.phase # "running"
    BY <1>1 DEF Request
  <2> HIDE DEF f, e
  <2> QED BY <2>1, <2>2, <2>3, <1>d
<1>2. CASE StartWatch(s) \/ Fetch(s)
  <2>1. PICK list : sess' = [sess EXCEPT ![s] = [e EXCEPT !.phase = "running", !.todo = list]]
    BY <1>2 DEF StartWatch, Fetch
  <2> DEFINE f == [e EXCEPT !.phase = "running", !.todo = list]
  <2>2. f.dirty = e.dirty /\ f.written = e.written /\ f.shots = e.shots /\ f.phase = "running"
    BY <1>a DEF Session
  <2>3. sess' = [sess EXCEPT ![s] = f]
    BY <2>1
  <2> HIDE DEF f, e
  <2> QED BY <2>3, <2>2, <1>d
<1>3. CASE SyncMarket(s)
  <2> DEFINE m == Head(e.todo)
             asks == m \in Tokens /\ e.spent < ClobLimit
  <2>1. PICK book \in (IF asks THEN Books ELSE {NoBook}), winner \in Winners[m] :
          sess' = [sess EXCEPT ![s] = [e EXCEPT
            !.todo = Tail(e.todo),
            !.spent = IF asks THEN e.spent + 1 ELSE e.spent,
            !.dirty = {Work(m, TakeWinner(TakeBook(rows[m], book), winner))},
            !.shots = e.shots \cup Shots(m, book)]]
    BY <1>3 DEF SyncMarket
  <2> DEFINE u == Work(m, TakeWinner(TakeBook(rows[m], book), winner))
             left == IF asks THEN e.spent + 1 ELSE e.spent
             shots == e.shots \cup Shots(m, book)
             f == [e EXCEPT !.todo = Tail(e.todo), !.spent = left, !.dirty = {u}, !.shots = shots]
  <2>2. m \in Markets /\ book \in Book
    BY <1>3, <1>a, <1>b, HeadTailProperties DEF SyncMarket
  <2>3. Sound(u, Shots(m, book))
    BY <2>2, <1>b, WorkSound
  <2>4. sess' = [sess EXCEPT ![s] = f]
    BY <2>1
  <2>5. f.dirty = {u} /\ f.written = e.written /\ f.shots = shots /\ f.phase = e.phase
    <3> HIDE DEF u, left, shots
    <3> QED BY <1>a DEF Session
  <2>6. f.shots = e.shots \cup Shots(m, book) /\ e.phase = "running"
    BY <2>5, <1>3 DEF SyncMarket, Clean, Running
  <2> HIDE DEF f, e, u, m
  <2> QED BY <2>3, <2>4, <2>5, <2>6, <1>c
<1>4. CASE RefreshMarkets(s)
  <2>0. PICK held \in SUBSET (stored \cap Tokens) : \E book \in [held -> Books] :
          sess' = [sess EXCEPT ![s] = [e EXCEPT
            !.phase = "running",
            !.dirty = {Work(m, TakeBook(rows[m], book[m])) : m \in held},
            !.shots = UNION {Shots(m, book[m]) : m \in held}]]
    BY <1>4 DEF RefreshMarkets
  <2>1. PICK book \in [held -> Books] :
          sess' = [sess EXCEPT ![s] = [e EXCEPT
            !.phase = "running",
            !.dirty = {Work(m, TakeBook(rows[m], book[m])) : m \in held},
            !.shots = UNION {Shots(m, book[m]) : m \in held}]]
    BY <2>0
  <2> DEFINE D == {Work(m, TakeBook(rows[m], book[m])) : m \in held}
             S == UNION {Shots(m, book[m]) : m \in held}
             f == [e EXCEPT !.phase = "running", !.dirty = D, !.shots = S]
  <2>2. \A u \in D : Sound(u, S)
    <3> SUFFICES ASSUME NEW m \in held PROVE Sound(Work(m, TakeBook(rows[m], book[m])), S)
      OBVIOUS
    <3>1. m \in Markets /\ book[m] \in Book /\ "YES" \in Winner
      BY <1>b DEF TypeOK, Winner
    <3>2. Sound(Work(m, TakeBook(rows[m], book[m])), Shots(m, book[m]))
      BY <3>1, WorkSound
    <3>3. Shots(m, book[m]) \subseteq S
      OBVIOUS
    <3> HIDE DEF S
    <3> QED BY <3>2, <3>3, SoundGrows
  <2>3. sess' = [sess EXCEPT ![s] = f]
    BY <2>1
  <2>4. e.written = {}
    BY <1>4, <1>a DEF RefreshMarkets, MayRun
  <2>5. f.dirty = D /\ f.written = e.written /\ f.shots = S /\ f.phase = "running"
    <3> HIDE DEF D, S
    <3> QED BY <1>a DEF Session
  <2> HIDE DEF f, D, S
  <2> QED BY <2>2, <2>3, <2>4, <2>5, SessionSound
<1>5. CASE WatchMarket(s)
  <2> DEFINE m == Head(e.todo)
  <2>1. PICK book \in Books :
          sess' = [sess EXCEPT ![s] = [e EXCEPT
            !.todo = Tail(e.todo),
            !.dirty = {Work(m, TakeSides(rows[m], book))},
            !.shots = e.shots \cup Shots(m, book)]]
    BY <1>5 DEF WatchMarket
  <2> DEFINE u == Work(m, TakeSides(rows[m], book))
             shots == e.shots \cup Shots(m, book)
             f == [e EXCEPT !.todo = Tail(e.todo), !.dirty = {u}, !.shots = shots]
  <2>2. m \in Markets /\ book \in Book /\ "YES" \in Winner
    BY <1>5, <1>a, <1>b, HeadTailProperties DEF WatchMarket, Winner
  <2>3. Sound(u, Shots(m, book))
    BY <2>2, WorkSound
  <2>4. sess' = [sess EXCEPT ![s] = f]
    BY <2>1
  <2>5. f.dirty = {u} /\ f.written = e.written /\ f.shots = shots /\ f.phase = e.phase
    <3> HIDE DEF u, shots
    <3> QED BY <1>a DEF Session
  <2>6. f.shots = e.shots \cup Shots(m, book) /\ e.phase = "running"
    BY <2>5, <1>5 DEF WatchMarket, Clean, Running
  <2> HIDE DEF f, e, u, m
  <2> QED BY <2>3, <2>4, <2>5, <2>6, <1>c
<1>6. CASE Flush(s)
  <2>1. PICK u \in e.dirty :
          sess' = [sess EXCEPT ![s] = [e EXCEPT !.dirty = e.dirty \ {u}, !.written = e.written \cup {u}]]
    BY <1>6 DEF Flush, Front
  <2> DEFINE f == [e EXCEPT !.dirty = e.dirty \ {u}, !.written = e.written \cup {u}]
  <2>2. sess' = [sess EXCEPT ![s] = f]
    BY <2>1
  <2>3. /\ f.dirty \cup f.written = e.dirty \cup e.written
        /\ f.shots = e.shots /\ f.phase = "running"
    BY <1>a, <2>1, <1>6 DEF Session, Flush, Running
  <2> HIDE DEF f, e
  <2> QED BY <2>2, <2>3, <1>d
<1>7. CASE InsertConflict(s) \/ BreakDeadlock(s) \/ Commit(s) \/ Abort(s)
  BY <1>7, <1>e DEF InsertConflict, BreakDeadlock, Commit, Abort, Drop
<1> QED BY <1>1, <1>2, <1>3, <1>4, <1>5, <1>6, <1>7 DEF Step

(***************************************************************************)
(* What the tables hold after it is written, column by column.             *)
(***************************************************************************)

\* Rows and snapshots change at commits only.
LEMMA OnlyCommits ==
    [Next]_vars => UNCHANGED <<rows, snaps>> \/ \E s \in Sessions : Commit(s)
BY DEF Next, vars, Request, StartWatch, Step, Flush, Abort, Fetch, SyncMarket, RefreshMarkets,
       WatchMarket, InsertConflict, BreakDeadlock, Drop

\* What is in a row is in a snapshot.
LEMMA EvidenceStep == TypeOK /\ UpdateInv /\ QuotesEvidenced /\ [Next]_vars => QuotesEvidenced'
<1> SUFFICES ASSUME TypeOK, UpdateInv, QuotesEvidenced, [Next]_vars PROVE QuotesEvidenced'
  OBVIOUS
<1>1. CASE UNCHANGED <<rows, snaps>>
  BY <1>1 DEF QuotesEvidenced
<1>2. ASSUME NEW s \in Sessions, Commit(s) PROVE QuotesEvidenced'
  <2> DEFINE W == sess[s].written
             S == sess[s].shots
  <2>1. /\ rows' = [m \in Markets |->
              IF \E u \in W : u.market = m
              THEN Merged(rows[m], CHOOSE u \in W : u.market = m) ELSE rows[m]]
        /\ snaps' = snaps \cup S
    BY <1>2 DEF Commit
  <2>2. SUFFICES ASSUME NEW m \in Markets
        PROVE  /\ rows'[m].bid # None => \E x \in snaps' : x.market = m /\ x.bid = rows'[m].bid
               /\ rows'[m].ask # None => \E x \in snaps' : x.market = m /\ x.ask = rows'[m].ask
               /\ rows'[m].last # None => \E x \in snaps' : x.market = m /\ Mid(x) = rows'[m].last
    BY DEF QuotesEvidenced
  <2>3. /\ rows[m].bid # None => \E x \in snaps : x.market = m /\ x.bid = rows[m].bid
        /\ rows[m].ask # None => \E x \in snaps : x.market = m /\ x.ask = rows[m].ask
        /\ rows[m].last # None => \E x \in snaps : x.market = m /\ Mid(x) = rows[m].last
    BY DEF QuotesEvidenced
  <2>4. CASE ~ \E u \in W : u.market = m
    BY <2>1, <2>3, <2>4
  <2>5. CASE \E u \in W : u.market = m
    <3> DEFINE u == CHOOSE u \in W : u.market = m
    <3>1. u \in W /\ u.market = m
      BY <2>5
    <3>2. Sound(u, S)
      BY <3>1 DEF UpdateInv
    <3>3. rows'[m] = Merged(rows[m], u)
      BY <2>1, <2>5
    <3> HIDE DEF u
    <3>4. /\ rows'[m].bid = rows[m].bid \/ rows'[m].bid = None
             \/ \E x \in S : x.market = m /\ x.bid = rows'[m].bid
          /\ rows'[m].ask = rows[m].ask \/ rows'[m].ask = None
             \/ \E x \in S : x.market = m /\ x.ask = rows'[m].ask
          /\ rows'[m].last = rows[m].last \/ rows'[m].last = None
             \/ \E x \in S : x.market = m /\ Mid(x) = rows'[m].last
      BY <3>1, <3>2, <3>3 DEF Sound, Merged, Column
    <3> QED BY <3>4, <2>1, <2>3
  <2> QED BY <2>4, <2>5
<1> QED BY <1>1, <1>2, OnlyCommits

LEMMA EvidenceInit == Init => QuotesEvidenced
BY DEF Init, QuotesEvidenced, BlankRow

\* A winner that is known is not forgotten by a write that did not know it.
LEMMA WinnerStep ==
    TypeOK /\ UpdateInv /\ [Next]_vars
        => \A m \in Markets : rows[m].winner # None => rows'[m].winner # None
<1> SUFFICES ASSUME TypeOK, UpdateInv, [Next]_vars, NEW m \in Markets, rows[m].winner # None
             PROVE  rows'[m].winner # None
  OBVIOUS
<1>1. ASSUME NEW s \in Sessions, Commit(s) PROVE rows'[m].winner # None
  <2> DEFINE W == sess[s].written
  <2>1. rows'[m] = IF \E u \in W : u.market = m
                   THEN Merged(rows[m], CHOOSE u \in W : u.market = m) ELSE rows[m]
    BY <1>1 DEF Commit
  <2>2. CASE \E u \in W : u.market = m
    <3> DEFINE u == CHOOSE u \in W : u.market = m
    <3>1. u \in W
      BY <2>2
    <3>2. Sound(u, sess[s].shots) /\ rows'[m] = Merged(rows[m], u)
      BY <2>1, <2>2, <3>1 DEF UpdateInv
    <3> HIDE DEF u
    <3> QED BY <3>2 DEF Sound, Merged, Column
  <2> QED BY <2>1, <2>2
<1> QED BY <1>1, OnlyCommits

\* Every price in a row stands in a snapshot, for any number of processes and sessions.
THEOREM QuotesAreEvidenced == Spec => []QuotesEvidenced
BY TypeInit, TypeStep, UpdateInit, UpdateStep, EvidenceInit, EvidenceStep, PTL DEF Spec

\* No session, however long ago it read a market, takes away its winner.
THEOREM WinnersAreKept == Spec => WinnerKept
<1>1. TypeOK /\ UpdateInv /\ [Next]_vars
        => [\A m \in Markets : rows[m].winner # None => rows'[m].winner # None]_vars
  BY WinnerStep
<1> QED BY TypeInit, TypeStep, UpdateInit, UpdateStep, <1>1, PTL DEF Spec, WinnerKept

(***************************************************************************)
(* Syncs of one process take turns.                                        *)
(***************************************************************************)

Agrees(m, row, S) ==
    LET book == [bid |-> row.bid, ask |-> row.ask] IN
    row.last = Mid(book) /\ Shots(m, book) \subseteq S

\* Who syncs or refreshes has the lock of its process.
LockInv ==
    \A s \in Syncs \cup Refreshers :
        Running(s) => lock[ProcessOf[s]] # <<>> /\ Head(lock[ProcessOf[s]]) = s

\* A watchlist keeps to the markets it names.
LineupInv == \A s \in Watchers : sess[s].todo \in Seq(Watched)

\* What is about to be written to a market outside the watchlists is one book, and the row
\* is still as it was read.
TurnInv ==
    \A s \in Sessions : \A u \in sess[s].dirty \cup sess[s].written :
        u.market \notin Watched =>
            /\ s \notin Watchers
            /\ u.old = rows[u.market]
            /\ Agrees(u.market, u.new, sess[s].shots)

LEMMA LockInit == Init => LockInv /\ LineupInv /\ TurnInv /\ QuotesAgree
<1> SUFFICES ASSUME Init PROVE LockInv /\ LineupInv /\ TurnInv /\ QuotesAgree
  OBVIOUS
<1>1. \A s \in Sessions : sess[s] = Idle
  BY DEF Init
<1>2. LockInv
  BY <1>1 DEF LockInv, Running, Idle
<1>3. LineupInv
  <2>1. Idle.todo = <<>> /\ <<>> \in Seq(Watched)
    BY EmptySeq DEF Idle
  <2> QED BY <1>1, <2>1 DEF LineupInv
<1>4. TurnInv
  BY <1>1 DEF TurnInv, Idle
<1>5. QuotesAgree
  BY DEF Init, QuotesAgree, BlankRow, Mid, Shots, Quoted
<1> QED BY <1>2, <1>3, <1>4, <1>5

\* The session that steps, and the others.
LEMMA Others ==
    ASSUME TypeOK, NEW s \in Sessions,
           Request(s) \/ StartWatch(s) \/ Step(s) \/ Flush(s) \/ Abort(s)
    PROVE  \A t \in Sessions : t # s => sess'[t] = sess[t]
<1>1. \E f : sess' = [sess EXCEPT ![s] = f]
  <2>1. CASE Request(s)
    BY <2>1 DEF Request
  <2>2. CASE StartWatch(s)
    BY <2>2 DEF StartWatch
  <2>3. CASE Fetch(s)
    BY <2>3 DEF Fetch
  <2>4. CASE SyncMarket(s)
    BY <2>4 DEF SyncMarket
  <2>5. CASE RefreshMarkets(s)
    BY <2>5 DEF RefreshMarkets
  <2>6. CASE WatchMarket(s)
    BY <2>6 DEF WatchMarket
  <2>7. CASE Flush(s)
    BY <2>7 DEF Flush
  <2>8. CASE InsertConflict(s) \/ BreakDeadlock(s) \/ Commit(s) \/ Abort(s)
    BY <2>8 DEF InsertConflict, BreakDeadlock, Commit, Abort, Drop
  <2> QED BY <2>1, <2>2, <2>3, <2>4, <2>5, <2>6, <2>7, <2>8 DEF Step
<1> QED BY <1>1 DEF TypeOK

LEMMA LockStep == TypeOK /\ LockInv /\ [Next]_vars => LockInv'
<1> SUFFICES ASSUME TypeOK, LockInv, [Next]_vars PROVE LockInv'
  OBVIOUS
<1>0. CASE UNCHANGED vars
  BY <1>0 DEF vars, LockInv, Running
<1> SUFFICES ASSUME NEW s \in Sessions,
                    Request(s) \/ StartWatch(s) \/ Step(s) \/ Flush(s) \/ Abort(s),
                    NEW t \in Syncs \cup Refreshers, Running(t)'
             PROVE  lock'[ProcessOf[t]] # <<>> /\ Head(lock'[ProcessOf[t]]) = t
  BY <1>0 DEF Next, LockInv
<1>a. /\ \A v \in Sessions : v # s => sess'[v] = sess[v]
      /\ sess[s] \in Session /\ sess \in [Sessions -> Session] /\ t \in Sessions
      /\ ProcessOf[s] \in Processes /\ ProcessOf[t] \in Processes
      /\ lock[ProcessOf[s]] \in Seq(Sessions) /\ lock \in [Processes -> Seq(Sessions)]
  <2>1. \A v \in Sessions : v # s => sess'[v] = sess[v]
    BY Others
  <2> QED BY <2>1, SessionsAssumption DEF TypeOK
\* A session that was running already and keeps its lock.
<1>b. ASSUME Running(t), lock'[ProcessOf[t]] = lock[ProcessOf[t]]
      PROVE  lock'[ProcessOf[t]] # <<>> /\ Head(lock'[ProcessOf[t]]) = t
  BY <1>b DEF LockInv
<1>c. t # s => Running(t)
  BY <1>a DEF Running
<1>1. CASE Request(s)
  <2>1. t # s
    BY <1>1, <1>a DEF Request, Running, Session
  <2>2. lock[ProcessOf[t]] # <<>> /\ Head(lock[ProcessOf[t]]) = t
    BY <2>1, <1>c DEF LockInv
  <2>3. CASE ProcessOf[t] # ProcessOf[s]
    BY <1>1, <1>a, <1>b, <1>c, <2>1, <2>3 DEF Request
  <2>4. CASE ProcessOf[t] = ProcessOf[s]
    <3> DEFINE queue == lock[ProcessOf[t]]
    <3>1. lock'[ProcessOf[t]] = Append(queue, s) /\ queue \in Seq(Sessions)
      BY <1>1, <1>a, <2>4 DEF Request
    <3>2. Append(queue, s) # <<>> /\ Head(Append(queue, s)) = Head(queue)
      <4> HIDE DEF queue
      <4>1. queue # <<>>
        BY <2>2 DEF queue
      <4> QED BY <3>1, <4>1, HeadTailAppend, AppendProperties
    <3> QED BY <3>1, <3>2, <2>2
  <2> QED BY <2>3, <2>4
<1>2. CASE StartWatch(s)
  <2>1. t # s
    BY <1>2, SessionsAssumption DEF StartWatch
  <2> QED BY <1>2, <2>1, <1>b, <1>c DEF StartWatch
<1>3. CASE Fetch(s) \/ RefreshMarkets(s)
  <2>1. lock' = lock /\ MayRun(s)
    BY <1>3 DEF Fetch, RefreshMarkets
  <2> QED BY <2>1, <1>b, <1>c DEF MayRun
<1>4. CASE SyncMarket(s) \/ WatchMarket(s) \/ Flush(s)
  <2>1. lock' = lock /\ Running(s)
    BY <1>4 DEF SyncMarket, WatchMarket, Flush, Clean
  <2> QED BY <2>1, <1>b, <1>c
<1>5. CASE InsertConflict(s) \/ BreakDeadlock(s) \/ Commit(s) \/ Abort(s)
  <2>1. Release(s) /\ sess' = [sess EXCEPT ![s] = Idle]
    BY <1>5 DEF InsertConflict, BreakDeadlock, Commit, Abort, Drop
  <2>2. t # s
    BY <2>1, <1>a DEF Running, Idle
  <2>3. lock[ProcessOf[t]] # <<>> /\ Head(lock[ProcessOf[t]]) = t
    BY <2>2, <1>c DEF LockInv
  <2>4. CASE ProcessOf[t] # ProcessOf[s]
    BY <2>1, <2>2, <2>4, <1>a, <1>b, <1>c DEF Release
  <2>5. CASE ProcessOf[t] = ProcessOf[s]
    <3> DEFINE queue == lock[ProcessOf[t]]
    <3>1. lock'[ProcessOf[t]] = Without(queue, s) /\ queue \in Seq(Sessions)
      BY <2>1, <1>a, <2>5 DEF Release
    <3>2. queue # <<>> /\ Head(queue) = t /\ Head(queue) # s
      BY <2>2, <2>3
    <3> HIDE DEF queue
    <3>3. Without(queue, s) # <<>> /\ Head(Without(queue, s)) = Head(queue)
      BY <3>1, <3>2, WithoutProperties
    <3> QED BY <3>1, <3>2, <3>3
  <2> QED BY <2>4, <2>5
<1> QED BY <1>1, <1>2, <1>3, <1>4, <1>5 DEF Step

LEMMA LineupStep == TypeOK /\ LineupInv /\ [Next]_vars => LineupInv'
<1> SUFFICES ASSUME TypeOK, LineupInv, [Next]_vars, NEW t \in Watchers
             PROVE  sess'[t].todo \in Seq(Watched)
  BY DEF LineupInv
<1>0. CASE UNCHANGED vars
  BY <1>0 DEF vars, LineupInv
<1> SUFFICES ASSUME NEW s \in Sessions,
                    Request(s) \/ StartWatch(s) \/ Step(s) \/ Flush(s) \/ Abort(s)
             PROVE  sess'[t].todo \in Seq(Watched)
  BY <1>0 DEF Next
<1> DEFINE e == sess[s]
<1>1. CASE t # s
  BY <1>1, Others DEF LineupInv
<1>2. CASE t = s
  <2>1. e.todo \in Seq(Watched) /\ e \in Session /\ sess \in [Sessions -> Session]
    BY <1>2 DEF LineupInv, TypeOK
  <2>2. CASE StartWatch(s)
    <3>1. PICK list \in Lineups :
            sess' = [sess EXCEPT ![s] = [e EXCEPT !.phase = "running", !.todo = list]]
      BY <2>2 DEF StartWatch
    <3>2. list \in Seq(Watched)
      BY MarketsAssumption
    <3>3. sess'[s].todo = list
      BY <3>1, <2>1 DEF Session
    <3> QED BY <1>2, <3>2, <3>3
  <2>3. CASE WatchMarket(s)
    <3> DEFINE m == Head(e.todo)
    <3>1. e.todo # <<>> /\ \E D, S :
            sess' = [sess EXCEPT ![s] =
                      [e EXCEPT !.todo = Tail(e.todo), !.dirty = D, !.shots = S]]
      BY <2>3 DEF WatchMarket
    <3>2. sess'[s].todo = Tail(e.todo)
      BY <3>1, <2>1 DEF Session
    <3> QED BY <1>2, <2>1, <3>1, <3>2, HeadTailProperties
  <2>4. CASE Flush(s)
    <3>1. \E D, W : sess' = [sess EXCEPT ![s] = [e EXCEPT !.dirty = D, !.written = W]]
      BY <2>4 DEF Flush
    <3>2. sess'[s].todo = e.todo
      BY <3>1, <2>1 DEF Session
    <3> QED BY <1>2, <2>1, <3>2
  <2>5. CASE InsertConflict(s) \/ BreakDeadlock(s) \/ Commit(s) \/ Abort(s)
    <3>1. sess' = [sess EXCEPT ![s] = Idle]
      BY <2>5 DEF InsertConflict, BreakDeadlock, Commit, Abort, Drop
    <3>2. sess'[s].todo = <<>>
      BY <3>1, <2>1 DEF Idle
    <3>3. <<>> \in Seq(Watched)
      BY EmptySeq
    <3> QED BY <1>2, <3>2, <3>3
  <2>6. ~Request(s) /\ ~Fetch(s) /\ ~SyncMarket(s) /\ ~RefreshMarkets(s)
    BY <1>2, SessionsAssumption DEF Request, Fetch, SyncMarket, RefreshMarkets
  <2> QED BY <2>2, <2>3, <2>4, <2>5, <2>6 DEF Step
<1> QED BY <1>1, <1>2

\* What a sync or a refresh makes of a book agrees with it.
LEMMA WorkAgrees ==
    ASSUME TypeOK, NEW m \in Markets, NEW book \in Book, NEW winner \in Winner
    PROVE  /\ Agrees(m, TakeWinner(TakeBook(rows[m], book), winner), Shots(m, book))
           /\ Agrees(m, TakeBook(rows[m], book), Shots(m, book))
<1> DEFINE taken == TakeBook(rows[m], book)
           won == TakeWinner(taken, winner)
<1>1. book = [bid |-> book.bid, ask |-> book.ask]
  BY DEF Book
<1>2. taken.bid = book.bid /\ taken.ask = book.ask /\ taken.last = Mid(book)
  BY DEF TakeBook, TypeOK, Row
<1>3. taken \in Row
  BY RowTypes DEF TypeOK
<1> HIDE DEF taken
<1>4. won.bid = book.bid /\ won.ask = book.ask /\ won.last = Mid(book)
  BY <1>2, <1>3 DEF TakeWinner, Row
<1> HIDE DEF won
<1>5. Agrees(m, taken, Shots(m, book)) /\ Agrees(m, won, Shots(m, book))
  BY <1>1, <1>2, <1>4 DEF Agrees
<1> QED BY <1>5 DEF taken, won

\* Rows under way of a session that did not step stay as they were, unless their row changed.
LEMMA TurnOthers ==
    ASSUME TurnInv, NEW t \in Sessions, sess'[t] = sess[t],
           \A u \in sess[t].dirty \cup sess[t].written :
              u.market \notin Watched => rows'[u.market] = rows[u.market]
    PROVE  \A u \in sess'[t].dirty \cup sess'[t].written :
              u.market \notin Watched =>
                  /\ t \notin Watchers
                  /\ u.old = rows'[u.market]
                  /\ Agrees(u.market, u.new, sess'[t].shots)
BY DEF TurnInv

\* While a session has rows under way that are on no watchlist, no other one commits to them.
LEMMA CommitAlone ==
    ASSUME OneProcess, TypeOK, UpdateInv, LockInv, TurnInv,
           NEW s \in Sessions, Commit(s), NEW t \in Sessions, t # s,
           NEW v \in sess[t].dirty \cup sess[t].written, v.market \notin Watched
    PROVE  rows'[v.market] = rows[v.market]
<1> DEFINE W == sess[s].written
           m == v.market
<1>1. v \in Update /\ m \in Markets
  BY DEF TypeOK, Session, Update
<1>2. t \in Syncs \cup Refreshers /\ Running(t)
  BY DEF TurnInv, UpdateInv
<1>3. lock[ProcessOf[t]] # <<>> /\ Head(lock[ProcessOf[t]]) = t
  BY <1>2 DEF LockInv
<1>4. s \in Watchers
  <2>1. CASE s \in Syncs \cup Refreshers
    <3>1. Running(s)
      BY DEF Commit, Clean
    <3>2. Head(lock[ProcessOf[s]]) = s /\ ProcessOf[s] = ProcessOf[t]
      BY <2>1, <3>1, <1>2 DEF LockInv, OneProcess
    <3> QED BY <1>3, <3>2
  <2> QED BY <2>1
<1>5. ~ \E u \in W : u.market = m
  BY <1>4 DEF TurnInv
<1> QED BY <1>1, <1>5 DEF Commit

LEMMA TurnStep ==
    ASSUME OneProcess
    PROVE  TypeOK /\ UpdateInv /\ LockInv /\ LineupInv /\ TurnInv /\ [Next]_vars => TurnInv'
<1> SUFFICES ASSUME TypeOK, UpdateInv, LockInv, LineupInv, TurnInv, [Next]_vars PROVE TurnInv'
  OBVIOUS
<1>0. CASE UNCHANGED vars
  BY <1>0 DEF vars, TurnInv
<1> SUFFICES ASSUME NEW s \in Sessions,
                    Request(s) \/ StartWatch(s) \/ Step(s) \/ Flush(s) \/ Abort(s),
                    NEW t \in Sessions
             PROVE  \A u \in sess'[t].dirty \cup sess'[t].written :
                        u.market \notin Watched =>
                            /\ t \notin Watchers
                            /\ u.old = rows'[u.market]
                            /\ Agrees(u.market, u.new, sess'[t].shots)
  BY <1>0 DEF Next, TurnInv
<1> DEFINE e == sess[s]
<1>a. Commit(s) \/ rows' = rows
  BY DEF Step, Request, StartWatch, Flush, Abort, Fetch, SyncMarket, RefreshMarkets, WatchMarket,
         InsertConflict, BreakDeadlock, Drop
<1>1. CASE t # s
  <2>1. sess'[t] = sess[t]
    BY <1>1, Others
  <2>2. \A u \in sess[t].dirty \cup sess[t].written :
            u.market \notin Watched => rows'[u.market] = rows[u.market]
    BY <1>1, <1>a, CommitAlone
  <2> QED BY <2>1, <2>2, TurnOthers
<1>2. CASE t = s
  <2>a. /\ e \in Session /\ sess \in [Sessions -> Session] /\ e.todo \in Seq(Markets)
        /\ \A u \in e.dirty \cup e.written :
              u.market \notin Watched =>
                  s \notin Watchers /\ u.old = rows[u.market] /\ Agrees(u.market, u.new, e.shots)
    BY DEF TypeOK, TurnInv, Session
  <2>b. /\ Books \subseteq Book /\ NoBook \in Book /\ "YES" \in Winner
        /\ \A m \in Markets : Winners[m] \subseteq Winner
    BY MarketsAssumption DEF Winner
  \* The same rows under way, and a table that has not changed.
  <2>c. ASSUME sess'[s].dirty \cup sess'[s].written = e.dirty \cup e.written,
               sess'[s].shots = e.shots, rows' = rows
        PROVE  \A u \in sess'[s].dirty \cup sess'[s].written :
                  u.market \notin Watched =>
                      /\ s \notin Watchers
                      /\ u.old = rows'[u.market]
                      /\ Agrees(u.market, u.new, sess'[s].shots)
    BY <2>a, <2>c
  <2>1. CASE Request(s) \/ StartWatch(s) \/ Fetch(s)
    <3>1. rows' = rows
      BY <2>1 DEF Request, StartWatch, Fetch
    <3>2. \E p, q : sess' = [sess EXCEPT ![s] = [e EXCEPT !.phase = p, !.todo = q]]
                    \/ sess' = [sess EXCEPT ![s] = [e EXCEPT !.phase = p]]
      BY <2>1 DEF Request, StartWatch, Fetch
    <3>3. sess'[s].dirty = e.dirty /\ sess'[s].written = e.written /\ sess'[s].shots = e.shots
      <4>1. PICK p, q : \/ sess' = [sess EXCEPT ![s] = [e EXCEPT !.phase = p, !.todo = q]]
                       \/ sess' = [sess EXCEPT ![s] = [e EXCEPT !.phase = p]]
        BY <3>2
      <4>2. \/ sess'[s] = [e EXCEPT !.phase = p, !.todo = q]
            \/ sess'[s] = [e EXCEPT !.phase = p]
        BY <4>1, <2>a
      <4>3. ASSUME sess'[s] = [e EXCEPT !.phase = p, !.todo = q]
            PROVE  sess'[s].dirty = e.dirty /\ sess'[s].written = e.written /\ sess'[s].shots = e.shots
        BY <4>3, <2>a DEF Session
      <4>4. ASSUME sess'[s] = [e EXCEPT !.phase = p]
            PROVE  sess'[s].dirty = e.dirty /\ sess'[s].written = e.written /\ sess'[s].shots = e.shots
        BY <4>4, <2>a DEF Session
      <4> QED BY <4>2, <4>3, <4>4
    <3> QED BY <1>2, <3>1, <3>3, <2>c
  <2>2. CASE SyncMarket(s)
    <3> DEFINE m == Head(e.todo)
               asks == m \in Tokens /\ e.spent < ClobLimit
    <3>1. PICK book \in (IF asks THEN Books ELSE {NoBook}), winner \in Winners[m] :
            sess' = [sess EXCEPT ![s] = [e EXCEPT
              !.todo = Tail(e.todo),
              !.spent = IF asks THEN e.spent + 1 ELSE e.spent,
              !.dirty = {Work(m, TakeWinner(TakeBook(rows[m], book), winner))},
              !.shots = e.shots \cup Shots(m, book)]]
      BY <2>2 DEF SyncMarket
    <3> DEFINE new == TakeWinner(TakeBook(rows[m], book), winner)
               w == Work(m, new)
               left == IF asks THEN e.spent + 1 ELSE e.spent
               shots == e.shots \cup Shots(m, book)
    <3>2. m \in Markets /\ book \in Book
      BY <2>2, <2>a, <2>b, HeadTailProperties DEF SyncMarket
    <3>3. Agrees(m, new, Shots(m, book))
      BY <3>2, <2>b, WorkAgrees
    <3>4. w.market = m /\ w.old = rows[m] /\ w.new = new
      BY DEF Work
    <3>5. sess'[s].dirty = {w} /\ sess'[s].written = e.written /\ sess'[s].shots = shots
      <4>1. sess' = [sess EXCEPT ![s] =
                      [e EXCEPT !.todo = Tail(e.todo), !.spent = left, !.dirty = {w}, !.shots = shots]]
        BY <3>1
      <4> HIDE DEF left, w, shots
      <4> QED BY <4>1, <2>a DEF Session
    <3>6. s \notin Watchers /\ rows' = rows
      BY <2>2, SessionsAssumption DEF SyncMarket
    <3>7. shots = e.shots \cup Shots(m, book)
      OBVIOUS
    <3> HIDE DEF w, new, m, shots
    <3> QED BY <1>2, <2>a, <3>3, <3>4, <3>5, <3>6, <3>7 DEF Agrees
  <2>3. CASE RefreshMarkets(s)
    <3>0. PICK held \in SUBSET (stored \cap Tokens) : \E book \in [held -> Books] :
            sess' = [sess EXCEPT ![s] = [e EXCEPT
              !.phase = "running",
              !.dirty = {Work(m, TakeBook(rows[m], book[m])) : m \in held},
              !.shots = UNION {Shots(m, book[m]) : m \in held}]]
      BY <2>3 DEF RefreshMarkets
    <3>1. PICK book \in [held -> Books] :
            sess' = [sess EXCEPT ![s] = [e EXCEPT
              !.phase = "running",
              !.dirty = {Work(m, TakeBook(rows[m], book[m])) : m \in held},
              !.shots = UNION {Shots(m, book[m]) : m \in held}]]
      BY <3>0
    <3> DEFINE D == {Work(m, TakeBook(rows[m], book[m])) : m \in held}
               S == UNION {Shots(m, book[m]) : m \in held}
    <3>2. sess'[s].dirty = D /\ sess'[s].written = e.written /\ sess'[s].shots = S
      <4>1. sess' = [sess EXCEPT ![s] = [e EXCEPT !.phase = "running", !.dirty = D, !.shots = S]]
        BY <3>1
      <4> HIDE DEF D, S
      <4> QED BY <4>1, <2>a DEF Session
    <3>3. e.written = {} /\ s \notin Watchers /\ rows' = rows
      BY <2>3, SessionsAssumption DEF UpdateInv, RefreshMarkets, MayRun, Running
    <3>4. ASSUME NEW m \in held
          PROVE  LET w == Work(m, TakeBook(rows[m], book[m])) IN
                 w.old = rows[w.market] /\ Agrees(w.market, w.new, S)
      <4> DEFINE new == TakeBook(rows[m], book[m])
      <4>1. m \in Markets /\ book[m] \in Book
        BY <2>b DEF TypeOK
      <4>2. Agrees(m, new, Shots(m, book[m]))
        BY <4>1, <2>b, WorkAgrees
      <4>3. Shots(m, book[m]) \subseteq S
        OBVIOUS
      <4> HIDE DEF S, new
      <4>4. Agrees(m, new, S)
        BY <4>2, <4>3 DEF Agrees
      <4>5. LET w == Work(m, new) IN w.old = rows[w.market] /\ Agrees(w.market, w.new, S)
        BY <4>4 DEF Work
      <4> QED BY <4>5 DEF new
    <3>5. \A u \in D : u.old = rows[u.market] /\ Agrees(u.market, u.new, S)
      <4> HIDE DEF S
      <4> QED BY <3>4
    <3> HIDE DEF D, S
    <3> QED BY <1>2, <3>2, <3>3, <3>5
  <2>4. CASE WatchMarket(s)
    <3> DEFINE m == Head(e.todo)
    <3>1. PICK book \in Books :
            sess' = [sess EXCEPT ![s] = [e EXCEPT
              !.todo = Tail(e.todo),
              !.dirty = {Work(m, TakeSides(rows[m], book))},
              !.shots = e.shots \cup Shots(m, book)]]
      BY <2>4 DEF WatchMarket
    <3> DEFINE w == Work(m, TakeSides(rows[m], book))
               shots == e.shots \cup Shots(m, book)
    <3>2. sess'[s].dirty = {w} /\ sess'[s].written = e.written /\ sess'[s].shots = shots
      <4>1. sess' = [sess EXCEPT ![s] =
                      [e EXCEPT !.todo = Tail(e.todo), !.dirty = {w}, !.shots = shots]]
        BY <3>1
      <4> HIDE DEF w, shots
      <4> QED BY <4>1, <2>a DEF Session
    <3>3. w.market \in Watched
      <4>1. w.market = m
        BY DEF Work
      <4>2. s \in Watchers /\ e.todo # <<>>
        BY <2>4 DEF WatchMarket
      <4>3. e.todo \in Seq(Watched)
        BY <4>2 DEF LineupInv
      <4> HIDE DEF e
      <4> QED BY <4>1, <4>2, <4>3, HeadTailProperties
    <3>4. s \in Watchers
      BY <2>4 DEF WatchMarket
    <3> HIDE DEF w, shots
    <3> QED BY <1>2, <2>a, <3>2, <3>3, <3>4
  <2>5. CASE Flush(s)
    <3>1. PICK u \in e.dirty :
            sess' = [sess EXCEPT ![s] =
                      [e EXCEPT !.dirty = e.dirty \ {u}, !.written = e.written \cup {u}]]
      BY <2>5 DEF Flush, Front
    <3>2. /\ sess'[s].dirty \cup sess'[s].written = e.dirty \cup e.written
          /\ sess'[s].shots = e.shots
      BY <3>1, <2>a DEF Session
    <3>3. rows' = rows
      BY <2>5 DEF Flush
    <3> QED BY <1>2, <2>c, <3>2, <3>3
  <2>6. CASE InsertConflict(s) \/ BreakDeadlock(s) \/ Commit(s) \/ Abort(s)
    <3>1. sess' = [sess EXCEPT ![s] = Idle]
      BY <2>6 DEF InsertConflict, BreakDeadlock, Commit, Abort, Drop
    <3>2. sess'[s].dirty = {} /\ sess'[s].written = {}
      BY <3>1, <2>a DEF Idle
    <3> QED BY <1>2, <3>2
  <2> QED BY <2>1, <2>2, <2>3, <2>4, <2>5, <2>6 DEF Step
<1> QED BY <1>1, <1>2

LEMMA AgreeStep == TypeOK /\ TurnInv /\ QuotesAgree /\ [Next]_vars => QuotesAgree'
<1> SUFFICES ASSUME TypeOK, TurnInv, QuotesAgree, [Next]_vars PROVE QuotesAgree'
  OBVIOUS
<1>0. QuotesAgree <=> \A m \in Markets \ Watched : Agrees(m, rows[m], snaps)
  BY DEF QuotesAgree, Agrees
<1>1. CASE UNCHANGED <<rows, snaps>>
  BY <1>1 DEF QuotesAgree
<1>2. ASSUME NEW s \in Sessions, Commit(s) PROVE QuotesAgree'
  <2> SUFFICES ASSUME NEW m \in Markets \ Watched PROVE Agrees(m, rows'[m], snaps')
    BY DEF QuotesAgree, Agrees
  <2> DEFINE W == sess[s].written
             S == sess[s].shots
  <2>1. /\ rows'[m] = IF \E u \in W : u.market = m
                      THEN Merged(rows[m], CHOOSE u \in W : u.market = m) ELSE rows[m]
        /\ snaps' = snaps \cup S
    BY <1>2 DEF Commit
  <2>2. CASE ~ \E u \in W : u.market = m
    BY <1>0, <2>1, <2>2 DEF Agrees
  <2>3. CASE \E u \in W : u.market = m
    <3> DEFINE u == CHOOSE u \in W : u.market = m
    <3>1. u \in W /\ u.market = m /\ u \in Update
      BY <2>3 DEF TypeOK, Session
    <3>2. u.old = rows[m] /\ Agrees(m, u.new, S)
      BY <3>1 DEF TurnInv
    <3>3. rows'[m] = Merged(rows[m], u)
      BY <2>1, <2>3
    <3> HIDE DEF u
    <3>4. Merged(rows[m], u) = u.new
      BY <3>1, <3>2 DEF Merged, Column, Update, Row
    <3> QED BY <2>1, <3>2, <3>3, <3>4 DEF Agrees
  <2> QED BY <2>2, <2>3
<1> QED BY <1>1, <1>2, OnlyCommits

\* Where one process does all syncs, the quotes of a market are those of one book, whatever
\* watchlists do meanwhile to the markets they name.
THEOREM QuotesAgreeAlone == ASSUME OneProcess PROVE Spec => []QuotesAgree
<1> DEFINE IInv == TypeOK /\ UpdateInv /\ LockInv /\ LineupInv /\ TurnInv /\ QuotesAgree
<1>1. Init => IInv
  BY TypeInit, UpdateInit, LockInit
<1>2. IInv /\ [Next]_vars => IInv'
  BY TypeStep, UpdateStep, LockStep, LineupStep, TurnStep, AgreeStep
<1>3. IInv => QuotesAgree
  OBVIOUS
<1> HIDE DEF IInv
<1> QED BY <1>1, <1>2, <1>3, PTL DEF Spec
=============================================================================
