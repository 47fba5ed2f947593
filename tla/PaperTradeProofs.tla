---------------------------- MODULE PaperTradeProofs ---------------------------
(***************************************************************************)
(* What holds of a paper trade for every book, quote, size and fee.        *)
(***************************************************************************)
EXTENDS PaperTrade, FiniteSetTheorems, WellFoundedInduction, TLAPS

LEMMA ProductIsNat ==
  ASSUME NEW a \in Nat, NEW b \in Nat PROVE a * b \in Nat
OBVIOUS

LEMMA ProductGrows ==
  ASSUME NEW a \in Nat, NEW b \in Nat, NEW c \in Nat, a <= b PROVE c * a <= c * b
OBVIOUS

LEMMA OneMore ==
  ASSUME NEW a \in Nat \ {0}, NEW b \in Nat PROVE a * b = (a - 1) * b + b
OBVIOUS

LEMMA Distributes ==
  ASSUME NEW c \in Int, NEW a \in Int, NEW b \in Int PROVE c * (a + b) = c * a + c * b
OBVIOUS

\* Induction, as the provers can use it: a set of naturals that has a member has a least one.
LEMMA LeastNatural ==
  ASSUME NEW T, T \subseteq Nat, T # {}
  PROVE  \E n \in T : \A m \in T : n <= m
<1>. DEFINE R == OpToRel(<, Nat)
<1>1. IsWellFoundedOn(R, Nat)
  BY NatLessThanWellFounded
<1>. HIDE DEF R
<1>2. PICK n \in T : \A m \in T : ~(<<m, n>> \in R)
  BY <1>1, WFMin
<1>3. ASSUME NEW m \in T PROVE n <= m
  <2>1. <<m, n>> \notin R
    BY <1>2
  <2>2. <<m, n>> \in Nat \X Nat
    OBVIOUS
  <2>3. ~(m < n)
    BY <2>1, <2>2 DEF R, OpToRel
  <2>. QED  BY <2>3
<1>. QED  BY <1>3

\* Induction over a range: a set that has its first number and every next one has them all.
LEMMA UpTo ==
  ASSUME NEW n \in Nat, NEW good, 0 \in good, \A i \in 1..n : i - 1 \in good => i \in good
  PROVE  \A i \in 0..n : i \in good
<1>. DEFINE bad == {i \in 0..n : i \notin good}
<1>1. ASSUME bad # {} PROVE FALSE
  <2>1. bad \subseteq Nat
    OBVIOUS
  <2>. HIDE DEF bad
  <2>2. PICK i \in bad : \A m \in bad : i <= m
    BY <1>1, <2>1, LeastNatural
  <2>3. i \in 0..n /\ i \notin good
    BY <2>2 DEF bad
  <2>4. i \in 1..n /\ i - 1 \in 0..n /\ ~(i <= i - 1)
    BY <2>3
  <2>5. i - 1 \notin bad
    BY <2>1, <2>2, <2>4
  <2>. QED  BY <2>3, <2>4, <2>5 DEF bad
<1>. QED  BY <1>1

\* The first n numbers of a sequence have a sum, and Total is that of all of them.
LEMMA Sums ==
  ASSUME NEW s \in Seq(Int)
  PROVE  \E f \in [0..Len(s) -> Int] :
           f[0] = 0 /\ f[Len(s)] = Total(s) /\ \A n \in 1..Len(s) : f[n] = f[n - 1] + s[n]
<1>. DEFINE len == Len(s)
            Sum(f, k) == f[0] = 0 /\ \A n \in 1..k : f[n] = f[n - 1] + s[n]
            has == {k \in 0..len : \E f \in [0..k -> Int] : Sum(f, k)}
            sum[n \in 0..len] == IF n = 0 THEN 0 ELSE sum[n - 1] + s[n]
<1>0. Total(s) = sum[len]
  BY DEF Total
<1>1. len \in Nat /\ \A n \in 1..len : s[n] \in Int
  OBVIOUS
<1>. HIDE DEF len
<1>2. 0 \in has
  <2>. DEFINE f == [n \in 0..0 |-> 0]
  <2>1. f \in [0..0 -> Int] /\ Sum(f, 0)
    OBVIOUS
  <2>. HIDE DEF f
  <2>. QED  BY <1>1, <2>1
<1>3. ASSUME NEW k \in 1..len, k - 1 \in has PROVE k \in has
  <2>1. PICK g \in [0..(k - 1) -> Int] : Sum(g, k - 1)
    BY <1>3
  <2>2. k \in Nat \ {0} /\ k - 1 \in 0..(k - 1) /\ 0 \in 0..(k - 1) /\ s[k] \in Int
    BY <1>1
  <2>. DEFINE f == [n \in 0..k |-> IF n = k THEN g[k - 1] + s[k] ELSE g[n]]
  <2>3. f \in [0..k -> Int]
    <3>1. g[k - 1] + s[k] \in Int
      BY <2>1, <2>2
    <3>2. \A n \in 0..k : n # k => n \in 0..(k - 1)
      BY <2>2
    <3>. QED  BY <2>1, <3>1, <3>2
  <2>4. f[0] = 0
    BY <2>1, <2>2
  <2>5. ASSUME NEW n \in 1..k PROVE f[n] = f[n - 1] + s[n]
    <3>0. n \in 0..k /\ n - 1 \in 0..k /\ n - 1 # k
      BY <2>2
    <3>1. CASE n = k
      BY <3>0, <3>1
    <3>2. CASE n # k
      <4>1. n \in 1..(k - 1)
        BY <2>2, <3>2
      <4>. QED  BY <2>1, <3>0, <3>2, <4>1
    <3>. QED  BY <3>1, <3>2
  <2>. HIDE DEF f
  <2>6. k \in 0..len
    BY <1>1
  <2>. QED  BY <2>3, <2>4, <2>5, <2>6
<1>4. PICK f \in [0..len -> Int] : Sum(f, len)
  <2>1. len \in 0..len
    BY <1>1
  <2>. HIDE DEF has
  <2>2. len \in has
    BY <1>1, <1>2, <1>3, <2>1, UpTo
  <2>. QED  BY <2>2 DEF has
<1>5. f = [n \in 0..len |-> IF n = 0 THEN 0 ELSE f[n - 1] + s[n]]
  <2>1. \A n \in 0..len : f[n] = IF n = 0 THEN 0 ELSE f[n - 1] + s[n]
    BY <1>1, <1>4
  <2>. QED  BY <2>1
<1>6. sum = [n \in 0..len |-> IF n = 0 THEN 0 ELSE sum[n - 1] + s[n]]
  BY <1>5
<1>. HIDE DEF sum
<1>7. ASSUME NEW n \in 1..len PROVE n - 1 \in 0..len /\ n \in 0..len /\ n # 0
  BY <1>1
<1>8. 0 \in 0..len /\ len \in 0..len
  BY <1>1
<1>9. sum[0] = 0 /\ \A n \in 1..len : sum[n] = sum[n - 1] + s[n]
  BY <1>6, <1>7, <1>8
<1>. DEFINE same == {n \in 0..len : sum[n] = f[n]}
<1>10. 0 \in same
  BY <1>4, <1>8, <1>9
<1>11. ASSUME NEW k \in 1..len, k - 1 \in same PROVE k \in same
  BY <1>4, <1>7, <1>9, <1>11
<1>12. len \in same
  <2>. HIDE DEF same
  <2>. QED  BY <1>1, <1>8, <1>10, <1>11, UpTo
<1>13. Total(s) = f[len]
  BY <1>0, <1>12
<1>. QED  BY <1>4, <1>13 DEF len

LEMMA OneExchange ==
  ASSUME NEW p \in Int, NEW fa \in Int, NEW fb \in Int, NEW fv \in Int, NEW fw \in Int,
         NEW a \in Int, NEW b \in Int, NEW v \in Int, NEW w \in Int,
         fa - fb >= p * (fv - fw), a - b >= p * (v - w)
  PROVE  (fa + a) - (fb + b) >= p * ((fv + v) - (fw + w))
<1>. DEFINE x == fv - fw
            y == v - w
<1>1. x \in Int /\ y \in Int /\ (fv + v) - (fw + w) = x + y
  OBVIOUS
<1>2. fa - fb >= p * x /\ a - b >= p * y
  OBVIOUS
<1>. HIDE DEF x, y
<1>3. p * (x + y) = p * x + p * y /\ p * x \in Int /\ p * y \in Int
  BY <1>1, Distributes
<1>4. (fa + a) - (fb + b) >= p * (x + y)
  BY <1>2, <1>3
<1>. QED  BY <1>1, <1>4

\* An exchange: what is bought at another price than p, in place of the same number at p.
LEMMA Weighed ==
  ASSUME NEW p \in Int, NEW a \in Seq(Int), NEW b \in Seq(Int), NEW v \in Seq(Int), NEW w \in Seq(Int),
         Len(b) = Len(a), Len(v) = Len(a), Len(w) = Len(a),
         \A i \in 1..Len(a) : a[i] - b[i] >= p * (v[i] - w[i])
  PROVE  Total(a) - Total(b) >= p * (Total(v) - Total(w))
<1>. DEFINE n == Len(a)
<1>1. n \in Nat /\ \A i \in 1..n : a[i] \in Int /\ b[i] \in Int /\ v[i] \in Int /\ w[i] \in Int
  OBVIOUS
<1>2. PICK fa \in [0..n -> Int] :
        fa[0] = 0 /\ fa[n] = Total(a) /\ \A i \in 1..n : fa[i] = fa[i - 1] + a[i]
  BY Sums
<1>3. PICK fb \in [0..n -> Int] :
        fb[0] = 0 /\ fb[n] = Total(b) /\ \A i \in 1..n : fb[i] = fb[i - 1] + b[i]
  BY Sums
<1>4. PICK fv \in [0..n -> Int] :
        fv[0] = 0 /\ fv[n] = Total(v) /\ \A i \in 1..n : fv[i] = fv[i - 1] + v[i]
  BY Sums
<1>5. PICK fw \in [0..n -> Int] :
        fw[0] = 0 /\ fw[n] = Total(w) /\ \A i \in 1..n : fw[i] = fw[i - 1] + w[i]
  BY Sums
<1>6. \A i \in 1..n : a[i] - b[i] >= p * (v[i] - w[i])
  OBVIOUS
<1>. HIDE DEF n
<1>. DEFINE good == {i \in 0..n : fa[i] - fb[i] >= p * (fv[i] - fw[i])}
<1>7. 0 \in good
  BY <1>1, <1>2, <1>3, <1>4, <1>5
<1>8. ASSUME NEW i \in 1..n, i - 1 \in good PROVE i \in good
  <2>1. i \in 0..n /\ i - 1 \in 0..n
    BY <1>1
  <2>2. fa[i - 1] - fb[i - 1] >= p * (fv[i - 1] - fw[i - 1])
    BY <1>8
  <2>3. a[i] - b[i] >= p * (v[i] - w[i])
    BY <1>6
  <2>4. /\ v[i] \in Int /\ w[i] \in Int /\ a[i] \in Int /\ b[i] \in Int
        /\ fv[i - 1] \in Int /\ fw[i - 1] \in Int /\ fa[i - 1] \in Int /\ fb[i - 1] \in Int
    BY <1>1, <1>2, <1>3, <1>4, <1>5, <2>1
  <2>5. /\ fv[i] = fv[i - 1] + v[i] /\ fw[i] = fw[i - 1] + w[i]
        /\ fa[i] = fa[i - 1] + a[i] /\ fb[i] = fb[i - 1] + b[i]
    BY <1>2, <1>3, <1>4, <1>5
  <2>6. (fa[i - 1] + a[i]) - (fb[i - 1] + b[i]) >= p * ((fv[i - 1] + v[i]) - (fw[i - 1] + w[i]))
    BY <2>2, <2>3, <2>4, OneExchange
  <2>. QED  BY <2>1, <2>5, <2>6
<1>9. n \in 0..n
  BY <1>1
<1>10. n \in good
  <2>. HIDE DEF good
  <2>. QED  BY <1>1, <1>7, <1>8, <1>9, UpTo
<1>. QED  BY <1>2, <1>3, <1>4, <1>5, <1>10

LEMMA LessOfTheCheaper ==
  ASSUME NEW p \in Int, NEW q \in Int, NEW v \in Int, NEW w \in Int, q <= p, v - w \in Nat
  PROVE  q * (w - v) >= p * (w - v)
<1>. DEFINE x == v - w
            y == p - q
<1>1. x \in Nat /\ y \in Nat /\ w - v = 0 - x /\ p = q + y
  OBVIOUS
<1>. HIDE DEF x, y
<1>2. (q + y) * (0 - x) = q * (0 - x) - y * x /\ y * x \in Nat /\ q * (0 - x) \in Int
  BY <1>1
<1>. QED  BY <1>1, <1>2

LEMMA MoreOfTheDearer ==
  ASSUME NEW p \in Int, NEW q \in Int, NEW v \in Int, NEW w \in Int, p <= q, w - v \in Nat
  PROVE  q * (w - v) >= p * (w - v)
<1>. DEFINE x == w - v
            y == q - p
<1>1. x \in Nat /\ y \in Nat /\ w - v = x /\ q = p + y
  OBVIOUS
<1>. HIDE DEF x, y
<1>2. (p + y) * x = p * x + y * x /\ y * x \in Nat /\ p * x \in Int
  BY <1>1
<1>. QED  BY <1>1, <1>2

LEMMA TotalType ==
  ASSUME NEW s \in Seq(Int) PROVE Total(s) \in Int
<1>1. Len(s) \in 0..Len(s)
  OBVIOUS
<1>. QED  BY <1>1, Sums

\* What one more number makes of the sum.
LEMMA TotalChanged ==
  ASSUME NEW s \in Seq(Int), NEW k \in 1..Len(s), NEW x \in Int
  PROVE  Total([s EXCEPT ![k] = x]) = Total(s) + (x - s[k])
<1>. DEFINE n == Len(s)
            t == [s EXCEPT ![k] = x]
<1>1. /\ t \in Seq(Int) /\ Len(t) = n /\ n \in Nat
      /\ \A i \in 1..n : s[i] \in Int /\ t[i] = IF i = k THEN x ELSE s[i]
  OBVIOUS
<1>2. PICK f \in [0..n -> Int] :
        f[0] = 0 /\ f[n] = Total(s) /\ \A i \in 1..n : f[i] = f[i - 1] + s[i]
  BY Sums
<1>. HIDE DEF t
<1>3. PICK g \in [0..n -> Int] :
        g[0] = 0 /\ g[n] = Total(t) /\ \A i \in 1..n : g[i] = g[i - 1] + t[i]
  BY <1>1, Sums
<1>. HIDE DEF n
<1>4. k \in 1..n
  BY DEF n
<1>. DEFINE good == {i \in 0..n : g[i] = IF i < k THEN f[i] ELSE f[i] + (x - s[k])}
<1>5. 0 \in good
  BY <1>1, <1>2, <1>3, <1>4
<1>6. ASSUME NEW i \in 1..n, i - 1 \in good PROVE i \in good
  <2>1. i \in 0..n /\ i - 1 \in 0..n /\ i \in Nat /\ k \in Nat
    BY <1>1, <1>4
  <2>2. /\ f[i] = f[i - 1] + s[i] /\ g[i] = g[i - 1] + t[i]
        /\ g[i - 1] = IF i - 1 < k THEN f[i - 1] ELSE f[i - 1] + (x - s[k])
        /\ t[i] = IF i = k THEN x ELSE s[i]
    BY <1>1, <1>2, <1>3, <1>6
  <2>3. f[i - 1] \in Int /\ s[i] \in Int /\ s[k] \in Int
    BY <1>1, <1>2, <1>4, <2>1
  <2>4. g[i] = IF i < k THEN f[i] ELSE f[i] + (x - s[k])
    <3>1. CASE i = k
      BY <2>1, <2>2, <2>3, <3>1
    <3>2. CASE i < k
      BY <2>1, <2>2, <2>3, <3>2
    <3>3. CASE i > k
      BY <2>1, <2>2, <2>3, <3>3
    <3>. QED  BY <2>1, <3>1, <3>2, <3>3
  <2>. QED  BY <2>1, <2>4
<1>7. n \in 0..n /\ ~(n < k)
  BY <1>1, <1>4
<1>8. n \in good
  <2>. HIDE DEF good
  <2>. QED  BY <1>1, <1>5, <1>6, <1>7, UpTo
<1>. QED  BY <1>2, <1>3, <1>7, <1>8 DEF t

\* Nothing sums up to nothing.
LEMMA TotalOfNothing ==
  ASSUME NEW s \in Seq(Int), \A i \in 1..Len(s) : s[i] = 0
  PROVE  Total(s) = 0
<1>. DEFINE n == Len(s)
<1>1. PICK f \in [0..n -> Int] :
        f[0] = 0 /\ f[n] = Total(s) /\ \A i \in 1..n : f[i] = f[i - 1] + s[i]
  BY Sums
<1>2. n \in Nat /\ \A i \in 1..n : s[i] = 0
  OBVIOUS
<1>. HIDE DEF n
<1>. DEFINE good == {i \in 0..n : f[i] = 0}
<1>3. 0 \in good /\ n \in 0..n
  BY <1>1, <1>2
<1>4. ASSUME NEW i \in 1..n, i - 1 \in good PROVE i \in good
  <2>1. i \in 0..n
    BY <1>2
  <2>2. f[i] = f[i - 1] + s[i] /\ s[i] = 0 /\ f[i - 1] = 0
    BY <1>1, <1>2, <1>4
  <2>. QED  BY <2>1, <2>2
<1>5. n \in good
  <2>. HIDE DEF good
  <2>. QED  BY <1>2, <1>3, <1>4, UpTo
<1>. QED  BY <1>1, <1>5

LEMMA QuotientIsNat ==
  ASSUME NEW a \in Nat, NEW b \in Nat \ {0} PROVE a \div b \in Nat
OBVIOUS

LEMMA SizedType ==
  ASSUME NEW mult \in Nat PROVE Sized(mult) \in Nat
<1>. DEFINE m == IF mult = 0 THEN 4 ELSE Greater(1, Lesser(12, mult))
<1>1. m \in Nat
  BY DEF Greater, Lesser
<1>2. BaseNotional * m \in Nat
  BY <1>1, ProductIsNat, PaperAssumption
<1>. QED  BY <1>2, QuotientIsNat DEF Sized

LEMMA ContractsType ==
  ASSUME NEW notional \in Nat, NEW price \in Int PROVE Contracts(notional, price) \in Nat
<1>1. CASE price \notin 1 .. (Dollar - 1)
  BY <1>1 DEF Contracts
<1>2. CASE price \in 1 .. (Dollar - 1)
  <2>1. notional \div price \in Nat
    BY <1>2, QuotientIsNat, PaperAssumption
  <2>2. Greater(1, notional \div price) \in Nat
    BY <2>1 DEF Greater
  <2>. QED  BY <1>2, <2>2, PaperAssumption DEF Contracts, Lesser
<1>. QED  BY <1>1, <1>2

\* Sorting keeps levels.
LEMMA SortedType ==
  ASSUME NEW raw \in Seq(Level), NEW side, NEW levels \in Sorted(raw, side)
  PROVE  levels \in Seq(Level)
<1>. DEFINE n == Cardinality(Kept(raw))
<1>1. IsFiniteSet(Kept(raw))
  <2>1. Kept(raw) \subseteq 1 .. Len(raw)
    BY DEF Kept
  <2>2. IsFiniteSet(1 .. Len(raw))
    BY FS_Interval
  <2>. QED  BY <2>1, <2>2, FS_Subset
<1>2. n \in Nat
  BY <1>1, FS_CardinalityType
<1>3. PICK f \in [1..n -> Kept(raw)] : levels = [i \in 1..n |-> raw[f[i]]]
  BY DEF Sorted
<1>4. \A i \in 1..n : raw[f[i]] \in Level
  BY <1>3 DEF Kept
<1>5. levels \in [1..n -> Level]
  BY <1>3, <1>4
<1>. QED  BY <1>2, <1>5

\* A price of YES is one of the other side too.
LEMMA OwnType ==
  ASSUME NEW side, NEW price \in 0..Dollar PROVE Own(side, price) \in 0..Dollar
BY PaperAssumption DEF Own

LEMMA TargetType ==
  ASSUME NEW o \in Orders, NEW levels \in Seq(Level) PROVE Target(o, levels) \in Nat
<1>. DEFINE quote == IF o.side = "YES" THEN o.ask ELSE o.bid
            best == IF levels # <<>> THEN levels[1].price
                    ELSE IF quote \in {None, 0} THEN Dollar \div 2 ELSE quote
<1>1. quote \in {None} \cup 0..Dollar
  BY DEF Orders
<1>2. best \in 0..Dollar
  <2>1. CASE levels # <<>>
    <3>1. levels[1] \in Level
      BY <2>1
    <3>. QED  BY <2>1, <3>1, PaperAssumption DEF Level, Price, Cap
  <2>2. CASE levels = <<>>
    BY <1>1, <2>2, PaperAssumption
  <2>. QED  BY <2>1, <2>2
<1>3. Own(o.side, best) \in Int
  BY <1>2, OwnType
<1>4. Contracts(o.notional, Own(o.side, best)) \in Nat
  BY <1>3, ContractsType DEF Orders
<1>. HIDE DEF best
<1>5. Target(o, levels) = IF o.side = "NO" /\ Own("NO", best) = 0 THEN MostContracts
                          ELSE Contracts(o.notional, Own(o.side, best))
  BY DEF Target, best
<1>. QED  BY <1>4, <1>5, PaperAssumption

--------------------------------------------------------------------------------
\* An order on its way buys a side, and has paid less than a dollar a contract.
OrderSound ==
  /\ order.phase = "walk" => order.side \in Sides
  /\ order.amount <= Dollar * order.filled

\* A trade costs something, and less than a dollar a contract.
TradeSound ==
  Opened => /\ trade.contracts > 0
            /\ trade.outlay > 0
            /\ trade.outlay <= Cap * trade.contracts

\* The figures of a settlement are those of its price.
SettledSound ==
  /\ trade.status = "SETTLED_RESOLVED" => trade.mid \in {0, Dollar}
  /\ trade.status \in {"SETTLED_RESOLVED", "SETTLED_T24H"} =>
       /\ trade.gross = Exit(trade.side, trade.mid) * trade.contracts - trade.outlay
       /\ trade.fee = WinFee(trade.gross)
       /\ trade.net = Net(trade.gross, trade.entryFee, trade.fee)

PaperInv == TypeOK /\ OrderSound /\ TradeSound /\ SettledSound

LEMMA PlaceKeeps == ASSUME PaperInv, Place PROVE PaperInv'
<1>1. PICK side \in Sides \cup {"UNKNOWN"}, mult \in Multipliers, book \in Books,
           row \in Quotes, snap \in Quotes :
        order' = [order EXCEPT !.phase = "size", !.side = side, !.notional = Sized(mult),
                               !.book = book, !.bid = Prefer(snap.bid, row.bid),
                               !.ask = Prefer(snap.ask, row.ask)]
  BY DEF Place
<1>2. Sized(mult) \in Nat
  BY SizedType, PaperAssumption
<1>3. /\ Prefer(snap.bid, row.bid) \in {None} \cup 0..Dollar
      /\ Prefer(snap.ask, row.ask) \in {None} \cup 0..Dollar
      /\ book \in Book
  BY PaperAssumption DEF Prefer, Quote
<1>4. trade' = trade
  BY DEF Place
<1>5. order' \in Orders
  BY <1>1, <1>2, <1>3 DEF PaperInv, TypeOK, Orders, Phases
<1>6. order'.phase = "size" /\ order'.amount = order.amount /\ order'.filled = order.filled
  BY <1>1 DEF PaperInv, TypeOK, Orders
<1>. QED  BY <1>4, <1>5, <1>6
  DEF PaperInv, TypeOK, OrderSound, TradeSound, SettledSound, Opened

LEMMA RefuseKeeps == ASSUME PaperInv, Refuse PROVE PaperInv'
<1>1. trade' = trade /\ order' = [order EXCEPT !.phase = "done"]
  BY DEF Refuse
<1>2. order' \in Orders
  BY <1>1 DEF PaperInv, TypeOK, Orders, Phases
<1>3. order'.phase = "done" /\ order'.amount = order.amount /\ order'.filled = order.filled
  BY <1>1 DEF PaperInv, TypeOK, Orders
<1>. QED  BY <1>1, <1>2, <1>3
  DEF PaperInv, TypeOK, OrderSound, TradeSound, SettledSound, Opened

LEMMA SizeKeeps == ASSUME PaperInv, Size PROVE PaperInv'
<1>. DEFINE raw == IF order.side = "YES" THEN order.book.asks ELSE order.book.bids
<1>1. raw \in Seq(Level)
  BY DEF PaperInv, TypeOK, Orders, Book
<1>2. PICK levels \in Sorted(raw, order.side) :
        IF Target(order, levels) = 0 THEN Refuse
        ELSE /\ order' = [order EXCEPT !.phase = "walk", !.levels = levels,
                            !.target = Target(order, levels), !.rem = Target(order, levels)]
             /\ UNCHANGED trade
  BY DEF Size
<1>3. levels \in Seq(Level)
  BY <1>1, SortedType
<1>4. Target(order, levels) \in Nat
  BY <1>3, TargetType DEF PaperInv, TypeOK
<1>5. CASE Target(order, levels) = 0
  BY <1>2, <1>5, RefuseKeeps
<1>6. CASE Target(order, levels) # 0
  <2>1. order' \in Orders
    BY <1>2, <1>3, <1>4, <1>6 DEF PaperInv, TypeOK, Orders, Phases
  <2>2. order'.amount = order.amount /\ order'.filled = order.filled /\ order'.side = order.side
    BY <1>2, <1>6 DEF PaperInv, TypeOK, Orders
  <2>3. order.side \in Sides /\ trade' = trade
    BY <1>2, <1>6 DEF Size
  <2>. QED  BY <2>1, <2>2, <2>3
    DEF PaperInv, TypeOK, OrderSound, TradeSound, SettledSound, Opened
<1>. QED  BY <1>5, <1>6

\* A level adds at most a dollar for each contract it fills.
LEMMA LiftKeeps == ASSUME PaperInv, Lift PROVE PaperInv'
<1>. DEFINE level == order.levels[order.next]
            take == Lesser(order.rem, level.size)
<1>1. level \in Level
  BY DEF Lift, Walking, PaperInv, TypeOK, Orders
<1>2. take \in Nat /\ order.rem - take \in Nat
  BY <1>1 DEF PaperInv, TypeOK, Orders, Lesser, Level
<1>3. level.price \in Nat /\ level.price <= Dollar
  BY <1>1, PaperAssumption DEF Level, Price, Cap
<1>4. take * level.price \in Nat /\ take * level.price <= take * Dollar
  BY <1>2, <1>3, ProductIsNat, ProductGrows, PaperAssumption
<1>5. /\ order' = [order EXCEPT !.rem = order.rem - take, !.filled = order.filled + take,
                                !.amount = order.amount + take * level.price,
                                !.next = order.next + 1]
      /\ trade' = trade
  BY DEF Lift
<1>. HIDE DEF take, level
<1>6. order' \in Orders
  <2>1. /\ order.amount + take * level.price \in Nat
        /\ order.filled + take \in Nat /\ order.next + 1 \in Nat \ {0}
    BY <1>2, <1>4 DEF PaperInv, TypeOK, Orders
  <2>. QED  BY <1>2, <1>5, <2>1 DEF PaperInv, TypeOK, Orders
<1>7. /\ order'.amount = order.amount + take * level.price
      /\ order'.filled = order.filled + take
      /\ order'.phase = order.phase /\ order'.side = order.side
  BY <1>5 DEF PaperInv, TypeOK, Orders
<1>8. order'.amount <= Dollar * order'.filled
  <2>1. order.amount \in Nat /\ order.filled \in Nat /\ order.amount <= Dollar * order.filled
    BY DEF PaperInv, TypeOK, Orders, OrderSound
  <2>2. Dollar * (order.filled + take) = Dollar * order.filled + take * Dollar
    BY <2>1, <1>2, PaperAssumption
  <2>3. Dollar * order.filled \in Nat /\ take * Dollar \in Nat
    BY <2>1, <1>2, ProductIsNat, PaperAssumption
  <2>. QED  BY <2>1, <2>2, <2>3, <1>4, <1>7
<1>. QED  BY <1>5, <1>6, <1>7, <1>8
  DEF PaperInv, TypeOK, OrderSound, TradeSound, SettledSound, Opened

\* What is opened with a cost and an outlay in range is sound.
LEMMA OpenKeeps ==
  ASSUME PaperInv, NEW mode \in {"depth", "top"}, NEW contracts \in Nat \ {0},
         NEW outlay \in Nat \ {0}, NEW cost \in Nat, outlay <= Cap * contracts,
         order.side \in Sides, Open(mode, contracts, outlay, cost)
  PROVE  PaperInv'
<1>1. order' \in Orders
  BY DEF Open, PaperInv, TypeOK, Orders, Phases
<1>2. order'.phase = "done" /\ order'.amount = order.amount /\ order'.filled = order.filled
  BY DEF Open, PaperInv, TypeOK, Orders
<1>3. EntryFee(order.notional) \in Nat
  BY ProductIsNat, PaperAssumption DEF PaperInv, TypeOK, Orders, EntryFee
<1>4. cost * Whole + EntryFee(order.notional) \in Nat
  BY <1>3, ProductIsNat, PaperAssumption
<1>5. trade' = [NoTrade EXCEPT
       !.status = "OPEN", !.mode = mode, !.side = order.side, !.contracts = contracts,
       !.outlay = outlay, !.entryFee = EntryFee(order.notional),
       !.cash = cost * Whole + EntryFee(order.notional)]
  BY DEF Open
<1>6. trade' \in Trades
  <2>1. NoTrade \in Trades
    BY PaperAssumption DEF NoTrade, Trades, Sides
  <2>. QED  BY <1>3, <1>4, <1>5, <2>1 DEF Trades
<1>7. trade'.status = "OPEN" /\ trade'.contracts = contracts /\ trade'.outlay = outlay
  BY <1>5 DEF NoTrade
<1>. QED  BY <1>1, <1>2, <1>6, <1>7
  DEF PaperInv, TypeOK, OrderSound, TradeSound, SettledSound, Opened

LEMMA FillKeeps == ASSUME PaperInv, Fill PROVE PaperInv'
<1>. DEFINE o == order
            sum == Spent(o) + Slip * o.filled
<1>1. o.filled \in Nat \ {0} /\ o.amount \in Nat /\ o.side \in Sides
  BY DEF Fill, Thin, PaperInv, TypeOK, Orders, OrderSound
<1>2. Spent(o) \in Nat
  <2>1. Dollar * o.filled \in Nat
    BY <1>1, ProductIsNat, PaperAssumption
  <2>. QED  BY <1>1, <2>1 DEF Spent, PaperInv, OrderSound
<1>3. Slip * o.filled \in Nat \ {0} /\ Cap * o.filled \in Nat \ {0}
  BY <1>1, PaperAssumption DEF Cap
<1>4. sum \in Nat \ {0}
  BY <1>2, <1>3
<1>5. Capped(sum, o.filled) \in Nat \ {0} /\ Capped(sum, o.filled) <= Cap * o.filled
  BY <1>3, <1>4 DEF Capped, Lesser
<1>6. Open("depth", o.filled, Capped(sum, o.filled), Spent(o))
  BY DEF Fill
<1>. QED  BY <1>1, <1>2, <1>5, <1>6, OpenKeeps

LEMMA TopKeeps == ASSUME PaperInv, TopOfBook PROVE PaperInv'
<1>. DEFINE o == order
            quote == IF o.side = "YES" THEN o.ask ELSE o.bid
            price == Capped(Own(o.side, quote) + Slip, 1)
            contracts == Contracts(o.notional, price)
<1>1. CASE quote = None \/ contracts = 0
  BY <1>1, RefuseKeeps DEF TopOfBook
<1>2. CASE ~(quote = None \/ contracts = 0)
  <2>1. quote \in 0..Dollar
    BY <1>2 DEF PaperInv, TypeOK, Orders
  <2>2. Own(o.side, quote) \in 0..Dollar
    BY <2>1, OwnType
  <2>3. price \in Nat \ {0} /\ price <= Cap
    BY <2>2, PaperAssumption DEF Capped, Lesser, Cap
  <2>4. contracts \in Nat \ {0}
    <3>1. contracts # 0
      BY <1>2
    <3>2. o.notional \in Nat
      BY DEF PaperInv, TypeOK, Orders
    <3>3. price \in Int
      BY <2>3
    <3>. HIDE DEF price
    <3>4. Contracts(o.notional, price) \in Nat
      BY <3>2, <3>3, ContractsType
    <3>. QED  BY <3>1, <3>4
  <2>5. Open("top", contracts, contracts * price, contracts * price)
    BY <1>2 DEF TopOfBook
  <2>6. o.side \in Sides
    BY DEF TopOfBook
  <2>. HIDE DEF price, contracts
  <2>7. contracts * price \in Nat \ {0}
    BY <2>3, <2>4
  <2>8. contracts * price <= contracts * Cap
    BY <2>3, <2>4, ProductGrows, PaperAssumption DEF Cap
  <2>9. contracts * price <= Cap * contracts
    BY <2>3, <2>4, <2>8, PaperAssumption DEF Cap
  <2>. QED  BY <2>4, <2>5, <2>6, <2>7, <2>9, OpenKeeps
<1>. QED  BY <1>1, <1>2

LEMMA SettleKeeps ==
  ASSUME PaperInv, NEW mid \in 0..Dollar, NEW status \in {"SETTLED_RESOLVED", "SETTLED_T24H"},
         status = "SETTLED_RESOLVED" => mid \in {0, Dollar}, Settle(mid, status)
  PROVE  PaperInv'
<1>. DEFINE t == trade
            gross == Exit(t.side, mid) * t.contracts - t.outlay
            fee == WinFee(gross)
<1>1. trade' = [t EXCEPT !.status = status, !.mid = mid, !.gross = gross, !.fee = fee,
                         !.net = Net(gross, t.entryFee, fee)]
  BY DEF Settle
<1>2. gross \in Int
  BY PaperAssumption DEF PaperInv, TypeOK, Trades, Exit
<1>3. fee \in Nat
  BY <1>2, ProductIsNat, PaperAssumption DEF WinFee, Greater
<1>. HIDE DEF fee
<1>4. Net(gross, t.entryFee, fee) \in Int
  BY <1>2, <1>3, PaperAssumption DEF Net, PaperInv, TypeOK, Trades
<1>. HIDE DEF gross
<1>5. trade' \in Trades
  BY <1>1, <1>2, <1>3, <1>4 DEF PaperInv, TypeOK, Trades
<1>6. /\ trade'.status = status /\ trade'.mid = mid /\ trade'.gross = gross /\ trade'.fee = fee
      /\ trade'.net = Net(gross, t.entryFee, fee) /\ trade'.side = t.side
      /\ trade'.contracts = t.contracts /\ trade'.outlay = t.outlay /\ trade'.entryFee = t.entryFee
  BY <1>1 DEF PaperInv, TypeOK, Trades
<1>7. order' = order /\ t.status = "OPEN"
  BY DEF Settle
<1>8. OrderSound' /\ order' \in Orders
  BY <1>7 DEF PaperInv, TypeOK, OrderSound
<1>9. TradeSound'
  BY <1>6, <1>7 DEF PaperInv, TradeSound, Opened
<1>10. SettledSound'
  BY <1>6 DEF SettledSound, gross, fee
<1>. QED  BY <1>5, <1>8, <1>9, <1>10 DEF PaperInv, TypeOK

\* The inductive invariant.
THEOREM Sound == Spec => []PaperInv
<1>1. Init => PaperInv
  BY PaperAssumption DEF Init, PaperInv, TypeOK, Orders, Trades, NoOrder, NoTrade, OrderSound,
     TradeSound, SettledSound, Opened, Phases, Sides, Book, None
<1>2. PaperInv /\ [Next]_vars => PaperInv'
  <2>. SUFFICES ASSUME PaperInv, [Next]_vars PROVE PaperInv'
    OBVIOUS
  <2>1. CASE UNCHANGED vars
    BY <2>1 DEF vars, PaperInv, TypeOK, OrderSound, TradeSound, SettledSound, Opened
  <2>2. CASE Place
    BY <2>2, PlaceKeeps
  <2>3. CASE NoOutcome
    BY <2>3, RefuseKeeps DEF NoOutcome
  <2>4. CASE Size
    BY <2>4, SizeKeeps
  <2>5. CASE Lift
    BY <2>5, LiftKeeps
  <2>6. CASE TooThin
    BY <2>6, RefuseKeeps DEF TooThin
  <2>7. CASE Fill
    BY <2>7, FillKeeps
  <2>8. CASE TopOfBook
    BY <2>8, TopKeeps
  <2>9. CASE SettleResolved
    BY <2>9, SettleKeeps, PaperAssumption DEF SettleResolved
  <2>10. CASE SettleAtMark
    BY <2>10, SettleKeeps DEF SettleAtMark
  <2>. QED  BY <2>1, <2>2, <2>3, <2>4, <2>5, <2>6, <2>7, <2>8, <2>9, <2>10 DEF Next
<1>. QED  BY <1>1, <1>2, PTL DEF Spec

\* Order and row keep their types.
THEOREM PaperTyping == Spec => []TypeOK
<1>1. PaperInv => TypeOK
  BY DEF PaperInv
<1>. QED  BY <1>1, Sound, PTL

\* Whoever is right gains, whatever the book, the size and the fees: it is the cap on the price of
\* a fill that makes it so.
THEOREM RightIsPaidHolds == Spec => []RightIsPaid
<1>1. PaperInv => RightIsPaid
  <2>. SUFFICES ASSUME PaperInv, trade.status = "SETTLED_RESOLVED" PROVE RightIsPaid
    BY DEF RightIsPaid
  <2>. DEFINE t == trade
  <2>1. /\ t.contracts \in Nat \ {0} /\ t.outlay \in Nat \ {0} /\ t.outlay <= Cap * t.contracts
        /\ t.side \in Sides /\ t.entryFee \in Nat /\ t.gross \in Int /\ t.mid \in {0, Dollar}
    BY DEF PaperInv, TypeOK, Trades, TradeSound, Opened, SettledSound
  <2>2. /\ t.gross = Exit(t.side, t.mid) * t.contracts - t.outlay
        /\ t.fee = WinFee(t.gross) /\ t.net = Net(t.gross, t.entryFee, t.fee)
    BY DEF PaperInv, SettledSound
  <2>3. CASE t.mid = Own(t.side, Dollar)
    <3>1. Exit(t.side, t.mid) = Dollar
      BY <2>1, <2>3, PaperAssumption DEF Exit, Own, Sides
    <3>2. Dollar * t.contracts = Cap * t.contracts + t.contracts
      <4>1. t.contracts \in Nat /\ Dollar \in Nat \ {0}
        BY <2>1, PaperAssumption
      <4>2. Dollar * t.contracts = (Dollar - 1) * t.contracts + t.contracts
        BY <4>1, OneMore
      <4>. QED  BY <4>2 DEF Cap
    <3>3. t.gross > 0
      <4>1. Cap * t.contracts \in Nat
        BY <2>1, ProductIsNat, PaperAssumption DEF Cap
      <4>. QED  BY <2>1, <2>2, <3>1, <3>2, <4>1
    <3>4. t.fee \in Nat
      BY <2>2, <3>3, <2>1, ProductIsNat, PaperAssumption DEF WinFee, Greater
    <3>5. t.gross * Whole \in Int
      BY <2>1, PaperAssumption
    <3>6. t.net <= t.gross * Whole - t.entryFee
      BY <2>1, <2>2, <3>4, <3>5 DEF Net
    <3>. QED  BY <2>3, <3>3, <3>6 DEF RightIsPaid
  <2>4. CASE t.mid # Own(t.side, Dollar)
    <3>1. Exit(t.side, t.mid) = 0
      BY <2>1, <2>4, PaperAssumption DEF Exit, Own, Sides
    <3>2. t.gross = 0 - t.outlay
      BY <2>1, <2>2, <3>1
    <3>3. t.fee = 0
      BY <2>1, <2>2, <3>2, PaperAssumption DEF WinFee, Greater
    <3>. QED  BY <2>1, <2>4, <3>2, <3>3 DEF RightIsPaid
  <2>. QED  BY <2>3, <2>4
<1>. QED  BY <1>1, Sound, PTL

\* The pages and the settlement compute the same figure.
THEOREM MarkAgreesHolds == Spec => []MarkAgrees
<1>1. PaperInv => MarkAgrees
  <2>. SUFFICES ASSUME PaperInv, trade.status \in {"SETTLED_RESOLVED", "SETTLED_T24H"}
                PROVE  trade.net = LiveMark(trade, trade.mid)
    BY DEF MarkAgrees
  <2>. DEFINE t == trade
              exit == Exit(t.side, t.mid)
  <2>1. t.contracts \in Int /\ exit \in Int /\ t.gross \in Int
    BY PaperAssumption DEF PaperInv, TypeOK, Trades, Exit
  <2>2. t.gross = exit * t.contracts - t.outlay
    BY DEF PaperInv, SettledSound
  <2>3. t.fee = WinFee(t.gross) /\ t.net = Net(t.gross, t.entryFee, t.fee)
    BY DEF PaperInv, SettledSound
  <2>4. Unrealized(t, t.mid) = t.contracts * exit - t.outlay
    BY DEF Unrealized, Exit
  <2>. HIDE DEF exit
  <2>5. t.contracts * exit = exit * t.contracts
    BY <2>1
  <2>6. Unrealized(t, t.mid) = t.gross
    BY <2>2, <2>4, <2>5
  <2>. QED  BY <2>3, <2>6 DEF LiveMark, Net, WinFee
<1>. QED  BY <1>1, Sound, PTL

--------------------------------------------------------------------------------
(* The walk of the book.                                                    *)

\* The levels stand from the best to the worst, and each has something to sell.
Arranged(o) ==
  /\ \A i, j \in DOMAIN o.levels : i <= j => Before(o.side, o.levels[i], o.levels[j])
  /\ \A i \in DOMAIN o.levels : o.levels[i].size > 0

Fresh(o) ==
  /\ o.levels = <<>> /\ o.next = 1
  /\ o.target = 0 /\ o.rem = 0 /\ o.filled = 0 /\ o.amount = 0

OnTrack(o) ==
  /\ o.target = o.filled + o.rem /\ o.next <= Len(o.levels) + 1
  /\ o.filled > 0 => o.next > 1

\* The price of a level to the one who buys.
At(o, i) == Own(o.side, o.levels[i].price)

\* What is bought costs no less than at the first price and no more than at the last one taken.
Between(o) ==
  o.next > 1 => /\ At(o, 1) * o.filled <= Spent(o)
                /\ Spent(o) <= At(o, o.next - 1) * o.filled

\* What has been taken from each level: all of it, but for the last one taken, and nothing beyond.
Taken(o, g) ==
  /\ Total(g) = o.filled /\ CostOf(o.side, o.levels, g) = Spent(o)
  /\ \A i \in DOMAIN o.levels :
       /\ g[i] <= o.levels[i].size
       /\ i < o.next - 1 \/ (i < o.next /\ o.rem > 0) => g[i] = o.levels[i].size
       /\ i >= o.next => g[i] = 0

WalkInv ==
  /\ order.phase \in {"new", "size"} => Fresh(order)
  /\ Arranged(order) /\ OnTrack(order) /\ Between(order)
  /\ \E g \in [DOMAIN order.levels -> Nat] : Taken(order, g)

\* A fill from the book: what the walk has taken, at its price.
FillInv ==
  Opened /\ trade.mode = "depth" =>
    /\ order.phase = "done" /\ trade.contracts = order.filled
    /\ order.filled > 0 /\ 2 * order.filled >= order.target
    /\ order.rem = 0 \/ order.next = Len(order.levels) + 1
    /\ trade.outlay = Capped(Spent(order) + Slip * order.filled, order.filled)

LEMMA OrderType ==
  ASSUME NEW o \in Orders
  PROVE  /\ o.levels \in Seq(Level) /\ Len(o.levels) \in Nat /\ DOMAIN o.levels = 1..Len(o.levels)
         /\ o.next \in Nat \ {0} /\ o.rem \in Nat /\ o.filled \in Nat /\ o.amount \in Nat
         /\ o.target \in Nat /\ o.phase \in Phases
         /\ \A i \in 1..Len(o.levels) :
              /\ o.levels[i] \in Level /\ o.levels[i].size \in Nat
              /\ o.levels[i].price \in 1..Cap /\ o.levels[i].price \in 0..Dollar
              /\ At(o, i) \in 0..Cap /\ At(o, i) \in Int
<1>1. /\ o.levels \in Seq(Level) /\ Len(o.levels) \in Nat /\ DOMAIN o.levels = 1..Len(o.levels)
      /\ o.next \in Nat \ {0} /\ o.rem \in Nat /\ o.filled \in Nat /\ o.amount \in Nat
      /\ o.target \in Nat /\ o.phase \in Phases
  BY DEF Orders
<1>2. ASSUME NEW i \in 1..Len(o.levels)
      PROVE  /\ o.levels[i] \in Level /\ o.levels[i].size \in Nat
             /\ o.levels[i].price \in 1..Cap /\ o.levels[i].price \in 0..Dollar
             /\ At(o, i) \in 0..Cap /\ At(o, i) \in Int
  <2>1. o.levels[i] \in Level
    BY <1>1
  <2>2. o.levels[i].size \in Nat /\ o.levels[i].price \in 1..Cap
    BY <2>1 DEF Level, Price
  <2>3. o.levels[i].price \in 0..Dollar /\ At(o, i) \in 0..Cap
    BY <2>2, PaperAssumption DEF Cap, At, Own
  <2>. QED  BY <2>1, <2>2, <2>3, PaperAssumption DEF Cap
<1>. QED  BY <1>1, <1>2

\* A better level is cheaper.
LEMMA BetterIsCheaper ==
  ASSUME NEW o \in Orders, Arranged(o), NEW i \in 1..Len(o.levels), NEW j \in 1..Len(o.levels), i <= j
  PROVE  At(o, i) <= At(o, j)
<1>1. Before(o.side, o.levels[i], o.levels[j])
  BY OrderType DEF Arranged
<1>2. o.levels[i].price \in Nat /\ o.levels[j].price \in Nat /\ Dollar \in Nat
  BY OrderType, PaperAssumption
<1>. QED  BY <1>1, <1>2 DEF Before, At, Own

\* The costs of what is taken are a sequence of numbers.
LEMMA CostsType ==
  ASSUME NEW o \in Orders, NEW g \in [DOMAIN o.levels -> Nat]
  PROVE  /\ g \in Seq(Int) /\ Len(g) = Len(o.levels)
         /\ [i \in DOMAIN o.levels |-> g[i] * At(o, i)] \in Seq(Int)
         /\ Len([i \in DOMAIN o.levels |-> g[i] * At(o, i)]) = Len(o.levels)
         /\ \A i \in 1..Len(o.levels) : g[i] \in Nat
         /\ CostOf(o.side, o.levels, g) = Total([i \in DOMAIN o.levels |-> g[i] * At(o, i)])
<1>. DEFINE n == Len(o.levels)
            c == [i \in DOMAIN o.levels |-> g[i] * At(o, i)]
<1>1. n \in Nat /\ DOMAIN o.levels = 1..n /\ \A i \in 1..n : At(o, i) \in Int
  BY OrderType
<1>2. \A i \in 1..n : g[i] * At(o, i) \in Int
  BY <1>1
<1>3. CostOf(o.side, o.levels, g) = Total(c)
  BY DEF CostOf, At
<1>. HIDE DEF n
<1>4. g \in [1..n -> Int] /\ c \in [1..n -> Int]
  BY <1>1, <1>2
<1>5. g \in Seq(Int) /\ Len(g) = n /\ c \in Seq(Int) /\ Len(c) = n
  <2>. HIDE DEF c
  <2>. QED  BY <1>1, <1>4
<1>. QED  BY <1>1, <1>3, <1>5 DEF n

\* An order that has nothing yet has taken nothing.
LEMMA NothingTaken ==
  ASSUME NEW o \in Orders, o.filled = 0, o.amount = 0, o.next = 1
  PROVE  \E g \in [DOMAIN o.levels -> Nat] : Taken(o, g)
<1>. DEFINE g == [i \in DOMAIN o.levels |-> 0]
            c == [i \in DOMAIN o.levels |-> g[i] * At(o, i)]
<1>1. g \in [DOMAIN o.levels -> Nat] /\ \A i \in 1..Len(o.levels) : g[i] = 0 /\ c[i] = 0
  BY OrderType
<1>. HIDE DEF g
<1>2. Total(g) = 0
  BY <1>1, CostsType, TotalOfNothing
<1>3. Total(c) = 0
  <2>1. c \in Seq(Int) /\ Len(c) = Len(o.levels)
    BY <1>1, CostsType
  <2>. HIDE DEF c
  <2>. QED  BY <1>1, <2>1, TotalOfNothing
<1>4. CostOf(o.side, o.levels, g) = 0
  BY <1>1, <1>3, CostsType
<1>5. Spent(o) = 0
  BY PaperAssumption DEF Spent
<1>6. ASSUME NEW i \in DOMAIN o.levels
      PROVE  /\ g[i] <= o.levels[i].size /\ ~(i < o.next - 1) /\ ~(i < o.next) /\ g[i] = 0
  <2>1. i \in 1..Len(o.levels) /\ Len(o.levels) \in Nat /\ o.levels[i].size \in Nat
    BY OrderType
  <2>2. ~(i < o.next - 1) /\ ~(i < o.next)
    BY <2>1
  <2>3. g[i] = 0
    BY <1>1, <2>1
  <2>4. g[i] <= o.levels[i].size
    BY <2>1, <2>3
  <2>. QED  BY <2>2, <2>3, <2>4
<1>. QED  BY <1>1, <1>2, <1>4, <1>5, <1>6 DEF Taken

\* The book is sorted, and has lost its empty levels.
LEMMA SortedArranges ==
  ASSUME NEW o \in Orders, NEW raw \in Seq(Level), o.levels \in Sorted(raw, o.side)
  PROVE  Arranged(o)
<1>. DEFINE n == Cardinality(Kept(raw))
<1>1. PICK f \in [1..n -> Kept(raw)] : o.levels = [i \in 1..n |-> raw[f[i]]]
  BY DEF Sorted
<1>2. \A i, j \in 1..n : i <= j => Before(o.side, o.levels[i], o.levels[j])
  BY DEF Sorted
<1>. HIDE DEF n
<1>3. DOMAIN o.levels = 1..n
  BY <1>1
<1>4. \A i \in 1..n : o.levels[i].size > 0
  BY <1>1 DEF Kept
<1>. QED  BY <1>2, <1>3, <1>4 DEF Arranged

LEMMA WalkStays ==
  ASSUME PaperInv, WalkInv, order' = [order EXCEPT !.phase = "done"]
  PROVE  WalkInv'
<1>1. /\ order'.phase = "done" /\ order'.levels = order.levels /\ order'.side = order.side
      /\ order'.next = order.next /\ order'.target = order.target /\ order'.rem = order.rem
      /\ order'.filled = order.filled /\ order'.amount = order.amount
  BY DEF PaperInv, TypeOK, Orders
<1>. QED  BY <1>1 DEF WalkInv, Arranged, OnTrack, Between, Taken, Spent, At

LEMMA PlaceWalks == ASSUME PaperInv, WalkInv, Place PROVE WalkInv'
<1>1. PICK side \in Sides \cup {"UNKNOWN"}, mult \in Multipliers, book \in Books,
           row \in Quotes, snap \in Quotes :
        order' = [order EXCEPT !.phase = "size", !.side = side, !.notional = Sized(mult),
                               !.book = book, !.bid = Prefer(snap.bid, row.bid),
                               !.ask = Prefer(snap.ask, row.ask)]
  BY DEF Place
<1>2. order' \in Orders
  BY PlaceKeeps DEF PaperInv, TypeOK
<1>3. Fresh(order)
  BY DEF WalkInv, Place
<1>4. Fresh(order')
  BY <1>1, <1>3 DEF Fresh, PaperInv, TypeOK, Orders
<1>5. \E g \in [DOMAIN order'.levels -> Nat] : Taken(order', g)
  BY <1>2, <1>4, NothingTaken DEF Fresh
<1>6. Arranged(order') /\ OnTrack(order') /\ Between(order')
  BY <1>4 DEF Fresh, Arranged, OnTrack, Between
<1>. QED  BY <1>4, <1>5, <1>6 DEF WalkInv

LEMMA SizeWalks == ASSUME PaperInv, WalkInv, Size PROVE WalkInv'
<1>. DEFINE raw == IF order.side = "YES" THEN order.book.asks ELSE order.book.bids
<1>1. raw \in Seq(Level)
  BY DEF PaperInv, TypeOK, Orders, Book
<1>2. PICK levels \in Sorted(raw, order.side) :
        IF Target(order, levels) = 0 THEN Refuse
        ELSE /\ order' = [order EXCEPT !.phase = "walk", !.levels = levels,
                            !.target = Target(order, levels), !.rem = Target(order, levels)]
             /\ UNCHANGED trade
  BY DEF Size
<1>3. CASE Target(order, levels) = 0
  BY <1>2, <1>3, WalkStays DEF Refuse
<1>4. CASE Target(order, levels) # 0
  <2>1. order' \in Orders
    BY SizeKeeps DEF PaperInv, TypeOK
  <2>2. Fresh(order)
    BY DEF WalkInv, Size
  <2>3. /\ order'.phase = "walk" /\ order'.levels = levels /\ order'.side = order.side
        /\ order'.next = 1 /\ order'.filled = 0 /\ order'.amount = 0
        /\ order'.target = order'.rem
    <3>. DEFINE t == Target(order, levels)
    <3>1. order' = [order EXCEPT !.phase = "walk", !.levels = levels, !.target = t, !.rem = t]
      BY <1>2, <1>4
    <3>. HIDE DEF t
    <3>. QED  BY <2>2, <3>1 DEF Fresh, PaperInv, TypeOK, Orders
  <2>4. Arranged(order')
    BY <1>1, <2>1, <2>3, SortedArranges
  <2>5. OnTrack(order')
    BY <2>1, <2>3, OrderType DEF OnTrack
  <2>6. \E g \in [DOMAIN order'.levels -> Nat] : Taken(order', g)
    BY <2>1, <2>3, NothingTaken
  <2>7. Between(order') /\ ~(order'.phase \in {"new", "size"})
    BY <2>3 DEF Between
  <2>. QED  BY <2>4, <2>5, <2>6, <2>7 DEF WalkInv
<1>. QED  BY <1>3, <1>4

\* What one more level adds to the sum spent.
LEMMA SpentGrows ==
  ASSUME NEW side, NEW amount \in Nat, NEW filled \in Nat, NEW price \in Nat, NEW take \in Nat
  PROVE  Spent([side |-> side, amount |-> amount + take * price, filled |-> filled + take])
           = Spent([side |-> side, amount |-> amount, filled |-> filled]) + take * Own(side, price)
<1>1. take * price \in Nat /\ Dollar * filled \in Nat /\ take * Dollar \in Nat
  BY ProductIsNat, PaperAssumption
<1>2. CASE side = "YES"
  BY <1>1, <1>2 DEF Spent, Own
<1>3. CASE side # "YES"
  <2>1. Dollar * (filled + take) = Dollar * filled + take * Dollar
    BY PaperAssumption
  <2>2. take * (Dollar - price) = take * Dollar - take * price
    BY PaperAssumption
  <2>. QED  BY <1>1, <1>3, <2>1, <2>2 DEF Spent, Own
<1>. QED  BY <1>2, <1>3

LEMMA LiftWalks == ASSUME PaperInv, WalkInv, Lift PROVE WalkInv'
<1>. DEFINE n == order.next
            len == Len(order.levels)
            level == order.levels[n]
            take == Lesser(order.rem, level.size)
            price == At(order, n)
<1>1. order \in Orders /\ order' \in Orders
  BY LiftKeeps DEF PaperInv, TypeOK
<1>2. /\ len \in Nat /\ n \in 1..len /\ DOMAIN order.levels = 1..len /\ order.rem > 0
      /\ order.phase = "walk"
  BY <1>1, OrderType DEF Lift, Walking
<1>3. /\ level.size \in Nat /\ level.size > 0 /\ price \in 0..Cap /\ level.price \in Nat
      /\ order.rem \in Nat /\ order.filled \in Nat /\ order.amount \in Nat
  BY <1>1, <1>2, OrderType DEF WalkInv, Arranged
<1>4. /\ take \in Nat /\ take > 0 /\ take <= level.size /\ order.rem - take \in Nat
      /\ order.rem - take > 0 => take = level.size
  BY <1>2, <1>3 DEF Lesser
<1>5. order' = [order EXCEPT !.rem = order.rem - take, !.filled = order.filled + take,
                             !.amount = order.amount + take * level.price, !.next = n + 1]
  BY DEF Lift
<1>6. /\ order'.rem = order.rem - take /\ order'.filled = order.filled + take
      /\ order'.amount = order.amount + take * level.price /\ order'.next = n + 1
      /\ order'.phase = order.phase /\ order'.side = order.side /\ order'.levels = order.levels
      /\ order'.target = order.target
  <2>. HIDE DEF take, n, level
  <2>. QED  BY <1>1, <1>5 DEF Orders
<1>7. Spent(order') = Spent(order) + take * price
  <2>. DEFINE one == [side |-> order.side, amount |-> order.amount + take * level.price,
                      filled |-> order.filled + take]
              old == [side |-> order.side, amount |-> order.amount, filled |-> order.filled]
  <2>. HIDE DEF take, level
  <2>1. Spent(one) = Spent(old) + take * Own(order.side, level.price)
    BY <1>3, <1>4, SpentGrows
  <2>2. Spent(order') = Spent(one) /\ Spent(order) = Spent(old)
    BY <1>6 DEF Spent
  <2>. QED  BY <2>1, <2>2 DEF At, level
<1>8. Arranged(order')
  BY <1>6 DEF WalkInv, Arranged
<1>9. OnTrack(order')
  <2>. HIDE DEF take, n, len, level, price
  <2>1. order.target = order.filled + order.rem
    BY DEF WalkInv, OnTrack
  <2>2. order'.target = order'.filled + order'.rem
    BY <1>3, <1>4, <1>6, <2>1
  <2>3. order'.next <= len + 1 /\ order'.next > 1
    BY <1>2, <1>6
  <2>. QED  BY <1>6, <2>2, <2>3 DEF OnTrack, len
<1>10. Spent(order) \in Int
  BY <1>3, PaperAssumption DEF Spent
<1>11. Between(order')
  <2>. DEFINE first == At(order, 1)
              last == At(order, n - 1)
  <2>1. first \in 0..Cap /\ first <= price
    BY <1>1, <1>2, OrderType, BetterIsCheaper DEF WalkInv
  <2>2. first * order.filled <= Spent(order) /\ Spent(order) <= price * order.filled
    <3>1. CASE n > 1
      <4>1. n - 1 \in 1..len /\ n - 1 <= n
        BY <1>2, <3>1
      <4>2. last \in 0..Cap /\ last <= price
        BY <1>1, <1>2, <4>1, OrderType, BetterIsCheaper DEF WalkInv
      <4>3. first * order.filled <= Spent(order) /\ Spent(order) <= last * order.filled
        BY <3>1 DEF WalkInv, Between
      <4>. HIDE DEF last, price, first
      <4>4. order.filled * last <= order.filled * price
        BY <1>3, <4>2, ProductGrows, PaperAssumption DEF Cap
      <4>5. last * order.filled = order.filled * last /\ price * order.filled = order.filled * price
        BY <1>3, <4>2
      <4>6. order.filled * last \in Int /\ order.filled * price \in Int
        BY <1>3, <4>2
      <4>. QED  BY <1>10, <4>3, <4>4, <4>5, <4>6
    <3>2. CASE ~(n > 1)
      <4>1. order.filled = 0
        BY <1>2, <1>3, <3>2 DEF WalkInv, OnTrack
      <4>2. n = 1
        BY <1>2, <3>2
      <4>3. \E g \in [DOMAIN order.levels -> Nat] : Taken(order, g)
        BY DEF WalkInv
      <4>4. PICK g \in [DOMAIN order.levels -> Nat] : Taken(order, g)
        BY <4>3
      <4>5. Spent(order) = 0
        <5>. DEFINE c == [i \in DOMAIN order.levels |-> g[i] * At(order, i)]
        <5>1. c \in Seq(Int) /\ Len(c) = len /\ CostOf(order.side, order.levels, g) = Total(c)
          BY <1>1, CostsType
        <5>2. \A i \in 1..len : c[i] = 0
          <6>1. ASSUME NEW i \in 1..len PROVE c[i] = 0
            <7>1. g[i] = 0
              BY <1>2, <4>2, <4>4 DEF Taken
            <7>2. At(order, i) \in Int
              BY <1>1, OrderType
            <7>. QED  BY <1>2, <7>1, <7>2
          <6>. QED  BY <6>1
        <5>. HIDE DEF c
        <5>. QED  BY <4>4, <5>1, <5>2, TotalOfNothing DEF Taken
      <4>. QED  BY <1>3, <2>1, <4>1, <4>5
    <3>. QED  BY <3>1, <3>2
  <2>3. first * (order.filled + take) <= Spent(order) + take * price
    <3>. HIDE DEF first, price, take
    <3>1. take * first <= take * price
      BY <1>3, <1>4, <2>1, ProductGrows, PaperAssumption DEF Cap
    <3>2. first * (order.filled + take) = first * order.filled + first * take
      BY <1>3, <1>4, <2>1, Distributes
    <3>3. first * take = take * first /\ first * order.filled \in Int /\ take * first \in Int
            /\ take * price \in Int
      BY <1>3, <1>4, <2>1
    <3>. QED  BY <1>10, <2>2, <3>1, <3>2, <3>3
  <2>4. Spent(order) + take * price <= price * (order.filled + take)
    <3>. HIDE DEF first, price, take
    <3>1. price * (order.filled + take) = price * order.filled + price * take
      BY <1>3, <1>4, Distributes
    <3>2. price * take = take * price /\ price * order.filled \in Int /\ take * price \in Int
      BY <1>3, <1>4
    <3>. QED  BY <1>10, <2>2, <3>1, <3>2
  <2>5. At(order', 1) = first /\ At(order', n) = price /\ order'.next - 1 = n
    BY <1>2, <1>6 DEF At
  <2>. HIDE DEF first, price, take
  <2>. QED  BY <1>6, <1>7, <2>3, <2>4, <2>5 DEF Between
<1>12. \E g \in [DOMAIN order'.levels -> Nat] : Taken(order', g)
  <2>1. PICK g \in [DOMAIN order.levels -> Nat] : Taken(order, g)
    BY DEF WalkInv
  <2>. DEFINE h == [g EXCEPT ![n] = take]
              c == [i \in DOMAIN order.levels |-> g[i] * At(order, i)]
              d == [i \in DOMAIN order.levels |-> h[i] * At(order, i)]
  <2>2. /\ g[n] = 0
        /\ \A i \in 1..len :
             /\ g[i] \in Nat /\ g[i] <= order.levels[i].size
             /\ i < n => g[i] = order.levels[i].size
             /\ i >= n => g[i] = 0
    BY <1>2, <2>1 DEF Taken
  <2>3. h \in [DOMAIN order.levels -> Nat]
    BY <1>4, <2>1
  <2>4. /\ g \in Seq(Int) /\ Len(g) = len /\ c \in Seq(Int) /\ Len(c) = len
        /\ CostOf(order.side, order.levels, g) = Total(c)
    BY <1>1, <2>1, CostsType
  <2>5. CostOf(order.side, order.levels, h) = Total(d)
    <3>. HIDE DEF h
    <3>. QED  BY <1>1, <2>3, CostsType
  <2>6. Total(h) = order.filled + take
    <3>. HIDE DEF take, n, len
    <3>1. Total([g EXCEPT ![n] = take]) = Total(g) + (take - g[n])
      <4>1. n \in 1..Len(g) /\ take \in Int /\ g \in Seq(Int)
        BY <1>2, <1>4, <2>4
      <4>. QED  BY <4>1, TotalChanged
    <3>. QED  BY <1>3, <1>4, <2>1, <2>2, <3>1 DEF Taken
  <2>7. d = [c EXCEPT ![n] = take * price]
    BY <1>2, <2>1
  <2>8. c[n] = 0
    BY <1>2, <1>3, <2>2
  <2>9. Total(d) = Spent(order) + take * price
    <3>. HIDE DEF c, d
    <3>1. take * price \in Int
      BY <1>3, <1>4
    <3>. HIDE DEF take, n, len, price
    <3>2. Total([c EXCEPT ![n] = take * price]) = Total(c) + (take * price - c[n])
      BY <1>2, <2>4, <3>1, TotalChanged
    <3>3. Total(c) = Spent(order)
      BY <2>1, <2>4 DEF Taken
    <3>. QED  BY <1>10, <2>7, <2>8, <3>1, <3>2, <3>3
  <2>10. ASSUME NEW i \in 1..len
         PROVE  /\ h[i] <= order.levels[i].size
                /\ i < n \/ (i < n + 1 /\ order'.rem > 0) => h[i] = order.levels[i].size
                /\ i >= n + 1 => h[i] = 0
    <3>1. CASE i = n
      <4>1. h[i] = take
        BY <1>2, <2>1, <3>1
      <4>. HIDE DEF h, take
      <4>. QED  BY <1>2, <1>3, <1>4, <1>6, <3>1, <4>1
    <3>2. CASE i # n
      <4>1. h[i] = g[i]
        BY <3>2
      <4>2. i \in Int /\ n \in Int /\ (i < n + 1 => i < n) /\ (i >= n + 1 => i >= n)
        BY <1>2, <3>2
      <4>. HIDE DEF h, n, len
      <4>3. /\ g[i] <= order.levels[i].size
            /\ i < n => g[i] = order.levels[i].size
            /\ i >= n => g[i] = 0
        BY <2>2
      <4>. QED  BY <4>1, <4>2, <4>3
    <3>. QED  BY <3>1, <3>2
  <2>11. Taken(order', h)
    <3>1. order'.next - 1 = n /\ order'.next = n + 1
      BY <1>2, <1>6
    <3>. HIDE DEF h, d, c, take, price, n
    <3>. QED  BY <1>2, <1>6, <1>7, <2>5, <2>6, <2>9, <2>10, <3>1 DEF Taken
  <2>. HIDE DEF h
  <2>. QED  BY <1>6, <2>3, <2>11
<1>. QED  BY <1>2, <1>6, <1>8, <1>9, <1>11, <1>12 DEF WalkInv

\* Once there is a trade, the order is done; it is filled by what the walk has taken.
LEMMA FillStep ==
  ASSUME PaperInv, WalkInv, FillInv, [Next]_vars
  PROVE  FillInv'
<1>1. ASSUME trade' = trade, order' = order PROVE FillInv'
  BY <1>1 DEF FillInv, Opened, Spent
<1>2. ASSUME trade' = trade, order.phase # "done" PROVE FillInv'
  BY <1>2 DEF FillInv, Opened
<1>3. ASSUME NEW mode, NEW contracts, NEW outlay, NEW cost, Open(mode, contracts, outlay, cost)
      PROVE  /\ trade'.mode = mode /\ trade'.contracts = contracts /\ trade'.outlay = outlay
             /\ order'.phase = "done" /\ order'.filled = order.filled /\ order'.rem = order.rem
             /\ order'.target = order.target /\ order'.next = order.next
             /\ order'.levels = order.levels /\ Spent(order') = Spent(order)
  BY <1>3 DEF Open, NoTrade, PaperInv, TypeOK, Orders, Spent
<1>4. CASE Fill
  <2>1. Open("depth", order.filled, Capped(Spent(order) + Slip * order.filled, order.filled),
             Spent(order))
    BY <1>4 DEF Fill
  <2>2. /\ order.phase = "walk" /\ ~Walking /\ order.filled # 0 /\ ~(2 * order.filled < order.target)
    BY <1>4 DEF Fill, Thin
  <2>3. /\ order.rem \in Nat /\ order.filled \in Nat /\ order.target \in Nat /\ order.next \in Nat
        /\ Len(order.levels) \in Nat /\ order.next <= Len(order.levels) + 1
    BY OrderType DEF PaperInv, TypeOK, WalkInv, OnTrack
  <2>4. order.rem = 0 \/ order.next = Len(order.levels) + 1
    BY <2>2, <2>3 DEF Walking
  <2>5. order.filled > 0 /\ 2 * order.filled >= order.target
    BY <2>2, <2>3
  <2>6. /\ trade'.contracts = order.filled
        /\ trade'.outlay = Capped(Spent(order) + Slip * order.filled, order.filled)
        /\ order'.phase = "done" /\ order'.filled = order.filled /\ order'.rem = order.rem
        /\ order'.target = order.target /\ order'.next = order.next
        /\ order'.levels = order.levels /\ Spent(order') = Spent(order)
    BY <1>3, <2>1
  <2>. QED  BY <2>4, <2>5, <2>6 DEF FillInv
<1>5. CASE TopOfBook
  <2>1. CASE Refuse
    BY <1>2, <1>5, <2>1 DEF Refuse, TopOfBook
  <2>2. CASE ~Refuse
    <3>1. PICK contracts, outlay : Open("top", contracts, outlay, outlay)
      BY <1>5, <2>2 DEF TopOfBook
    <3>2. trade'.mode = "top"
      BY <1>3, <3>1
    <3>. QED  BY <3>2 DEF FillInv
  <2>. QED  BY <2>1, <2>2
<1>6. ASSUME NEW mid, NEW status, Settle(mid, status) PROVE FillInv'
  <2>1. /\ order' = order /\ trade'.mode = trade.mode /\ trade'.contracts = trade.contracts
        /\ trade'.outlay = trade.outlay /\ Opened
    BY <1>6 DEF Settle, PaperInv, TypeOK, Trades, Opened
  <2>. QED  BY <2>1 DEF FillInv, Spent
<1>7. CASE Size
  BY <1>2, <1>7 DEF Size, Refuse
<1>. QED
  BY <1>1, <1>2, <1>4, <1>5, <1>6, <1>7
     DEF Next, Place, NoOutcome, Refuse, Lift, Walking, TooThin, SettleResolved, SettleAtMark, vars

\* What the walk takes is what it has paid for, level by level, from the first to the last it touches.
THEOREM Walks == Spec => [](PaperInv /\ WalkInv /\ FillInv)
<1>1. Init => WalkInv /\ FillInv
  <2>. SUFFICES ASSUME Init PROVE WalkInv /\ FillInv
    OBVIOUS
  <2>1. NoOrder \in Orders
    BY PaperAssumption DEF NoOrder, Orders, Phases, Sides, Book, None
  <2>2. Fresh(order) /\ order \in Orders
    BY <2>1 DEF Init, NoOrder, Fresh
  <2>3. Arranged(order) /\ OnTrack(order) /\ Between(order)
    BY <2>2 DEF Fresh, Arranged, OnTrack, Between
  <2>4. \E g \in [DOMAIN order.levels -> Nat] : Taken(order, g)
    BY <2>2, NothingTaken DEF Fresh
  <2>5. FillInv
    BY DEF Init, NoTrade, FillInv, Opened
  <2>. QED  BY <2>2, <2>3, <2>4, <2>5 DEF WalkInv
<1>2. PaperInv /\ WalkInv /\ FillInv /\ [Next]_vars => WalkInv' /\ FillInv'
  <2>. SUFFICES ASSUME PaperInv, WalkInv, FillInv, [Next]_vars PROVE WalkInv' /\ FillInv'
    OBVIOUS
  <2>1. FillInv'
    BY FillStep
  <2>2. ASSUME UNCHANGED order PROVE WalkInv'
    BY <2>2 DEF WalkInv, Arranged, OnTrack, Between, Taken, Spent, At
  <2>3. ASSUME NEW mode, NEW contracts, NEW outlay, NEW cost, Open(mode, contracts, outlay, cost)
        PROVE  WalkInv'
    BY <2>3, WalkStays DEF Open
  <2>4. CASE Refuse
    BY <2>1, <2>4, WalkStays DEF Refuse
  <2>5. CASE TopOfBook
    <3>1. CASE ~Refuse
      <4>1. PICK contracts, outlay : Open("top", contracts, outlay, outlay)
        BY <2>5, <3>1 DEF TopOfBook
      <4>. QED  BY <2>1, <2>3, <4>1
    <3>. QED  BY <2>4, <3>1
  <2>6. CASE Fill
    BY <2>1, <2>3, <2>6 DEF Fill
  <2>. QED
    BY <2>1, <2>2, <2>4, <2>5, <2>6, PlaceWalks, SizeWalks, LiftWalks
       DEF Next, NoOutcome, TooThin, SettleResolved, SettleAtMark, Settle, vars
<1>. QED  BY <1>1, <1>2, Sound, PTL DEF Spec

\* The walk takes nothing that another way to buy as much would get cheaper: against the last price it
\* has paid, it has taken all of every cheaper level, and nothing of a dearer one.
LEMMA WalkIsCheapest ==
  ASSUME NEW o \in Orders, Arranged(o), OnTrack(o), o.filled > 0,
         NEW g \in [DOMAIN o.levels -> Nat], Taken(o, g), NEW w \in Ways(o.levels, o.filled)
  PROVE  CostOf(o.side, o.levels, w) >= Spent(o)
<1>. DEFINE len == Len(o.levels)
            last == o.next - 1
            p == At(o, last)
            c == [i \in DOMAIN o.levels |-> g[i] * At(o, i)]
            d == [i \in DOMAIN o.levels |-> w[i] * At(o, i)]
<1>1. len \in Nat /\ last \in 1..len /\ DOMAIN o.levels = 1..len /\ o.next = last + 1
  BY OrderType DEF OnTrack
<1>2. p \in Int /\ \A i \in 1..len : At(o, i) \in Int
  BY <1>1, OrderType
<1>3. w \in [DOMAIN o.levels -> Nat]
  BY OrderType DEF Ways
<1>4. /\ g \in Seq(Int) /\ Len(g) = len /\ c \in Seq(Int) /\ Len(c) = len
      /\ CostOf(o.side, o.levels, g) = Total(c)
  BY CostsType
<1>5. /\ w \in Seq(Int) /\ Len(w) = len /\ d \in Seq(Int) /\ Len(d) = len
      /\ CostOf(o.side, o.levels, w) = Total(d)
  BY <1>3, CostsType
<1>6. ASSUME NEW i \in 1..len PROVE d[i] - c[i] >= p * (w[i] - g[i])
  <2>. DEFINE q == At(o, i)
  <2>1. /\ q \in Int /\ g[i] \in Nat /\ w[i] \in Nat /\ o.levels[i].size \in Nat
        /\ c[i] = g[i] * q /\ d[i] = w[i] * q
    BY <1>1, <1>2, <1>3, OrderType
  <2>2. w[i] <= o.levels[i].size
    BY <1>1 DEF Ways
  <2>3. d[i] - c[i] = q * (w[i] - g[i])
    <3>. HIDE DEF q, c, d
    <3>. QED  BY <2>1
  <2>4. CASE i < last
    <3>1. q <= p
      BY <1>1, <2>4, BetterIsCheaper
    <3>2. g[i] = o.levels[i].size
      BY <1>1, <2>4 DEF Taken
    <3>3. g[i] - w[i] \in Nat
      BY <2>1, <2>2, <3>2
    <3>. HIDE DEF q, p, c, d
    <3>4. q \in Int /\ p \in Int /\ w[i] \in Int /\ g[i] \in Int
      BY <1>2, <2>1
    <3>5. q * (w[i] - g[i]) >= p * (w[i] - g[i])
      BY <3>1, <3>3, <3>4, LessOfTheCheaper
    <3>. QED  BY <2>3, <3>5
  <2>5. CASE i = last
    <3>1. q = p
      BY <2>5
    <3>. HIDE DEF q, p, c, d
    <3>2. q * (w[i] - g[i]) \in Int
      BY <2>1
    <3>. QED  BY <2>3, <3>1, <3>2
  <2>6. CASE i > last
    <3>1. p <= q
      BY <1>1, <2>6, BetterIsCheaper
    <3>2. g[i] = 0
      BY <1>1, <2>6 DEF Taken
    <3>3. w[i] - g[i] \in Nat
      BY <2>1, <3>2
    <3>. HIDE DEF q, p, c, d
    <3>4. q \in Int /\ p \in Int /\ w[i] \in Int /\ g[i] \in Int
      BY <1>2, <2>1
    <3>5. q * (w[i] - g[i]) >= p * (w[i] - g[i])
      BY <3>1, <3>3, <3>4, MoreOfTheDearer
    <3>. QED  BY <2>3, <3>5
  <2>7. i \in Int /\ last \in Int
    BY <1>1
  <2>. QED  BY <2>4, <2>5, <2>6, <2>7
<1>7. Total(g) = o.filled /\ Total(w) = o.filled /\ o.filled \in Nat /\ Total(c) = Spent(o)
  BY <1>4, OrderType DEF Taken, Ways
<1>. HIDE DEF len, last, p, c, d
<1>8. Total(d) - Total(c) >= p * (Total(w) - Total(g))
  BY <1>2, <1>4, <1>5, <1>6, Weighed
<1>9. Total(d) \in Int /\ Total(c) \in Int
  BY <1>1, <1>4, <1>5, TotalType
<1>10. p * (Total(w) - Total(g)) = 0
  BY <1>2, <1>7
<1>. QED  BY <1>5, <1>7, <1>8, <1>9, <1>10

\* An order is filled at the lowest cost the book allows, as far as the book goes, and at a price
\* between the best of the book and the last one taken and a cent.
THEOREM BestExecutionHolds == Spec => []BestExecution
<1>1. PaperInv /\ WalkInv /\ FillInv => BestExecution
  <2>. SUFFICES ASSUME PaperInv, WalkInv, FillInv, Opened, trade.mode = "depth" PROVE BestExecution
    BY DEF BestExecution
  <2>. DEFINE n == order.filled
              first == At(order, 1)
              last == At(order, order.next - 1)
              sum == Spent(order) + Slip * n
  <2>1. order \in Orders /\ Arranged(order) /\ OnTrack(order) /\ Between(order)
    BY DEF PaperInv, TypeOK, WalkInv
  <2>2. /\ trade.contracts = n /\ n > 0 /\ 2 * n >= order.target
        /\ order.rem = 0 \/ order.next = Len(order.levels) + 1
        /\ trade.outlay = Capped(sum, n)
    BY DEF FillInv
  <2>3. /\ n \in Nat /\ order.rem \in Nat /\ order.next > 1 /\ order.next - 1 \in 1..Len(order.levels)
        /\ 1 \in 1..Len(order.levels) /\ order.target = n + order.rem
    BY <2>1, <2>2, OrderType DEF OnTrack
  <2>4. first \in 0..Cap /\ last \in 0..Cap
    BY <2>1, <2>3, OrderType
  <2>5. first * n <= Spent(order) /\ Spent(order) <= last * n
    BY <2>1, <2>3 DEF Between
  <2>6. ASSUME NEW w \in Ways(order.levels, order.filled)
        PROVE  CostOf(order.side, order.levels, w) >= Spent(order)
    BY <2>1, <2>2, WalkIsCheapest DEF WalkInv
  <2>7. order.filled < order.target => order.next = Len(order.levels) + 1
    BY <2>2, <2>3
  <2>8. Spent(order) \in Int /\ Slip * n \in Nat /\ Cap * n \in Nat /\ Cap \in Nat
    <3>1. Dollar * order.filled \in Nat /\ order.amount \in Nat
      BY <2>1, <2>3, OrderType, ProductIsNat, PaperAssumption
    <3>. QED  BY <2>3, <3>1, ProductIsNat, PaperAssumption DEF Spent, Cap
  <2>. HIDE DEF n, first, last
  <2>9. first * n <= Cap * n
    <3>1. n * first <= n * Cap /\ n * first = first * n /\ n * Cap = Cap * n
      BY <2>3, <2>4, <2>8, ProductGrows
    <3>. QED  BY <3>1
  <2>10. first * n \in Int /\ last * n \in Int /\ (last + Slip) * n = last * n + Slip * n
    BY <2>3, <2>4, PaperAssumption
  <2>11. first * trade.contracts <= trade.outlay
    BY <2>2, <2>5, <2>8, <2>9, <2>10 DEF Capped, Lesser
  <2>12. trade.outlay <= (last + Slip) * trade.contracts
    BY <2>2, <2>5, <2>8, <2>10 DEF Capped, Lesser
  <2>13. 2 * trade.contracts >= order.target
    BY <2>2
  <2>. QED  BY <2>6, <2>7, <2>11, <2>12, <2>13 DEF BestExecution, At, n, first, last
<1>. QED  BY <1>1, Walks, PTL

================================================================================
