----------------------------- MODULE WatchProofs -----------------------------
(***************************************************************************)
(* Event streams deliver exactly what was published, keep their books, and *)
(* blame storage only when it failed: for any number of streams, any       *)
(* length of the journal and any bounds of a backlog.                      *)
(***************************************************************************)
EXTENDS Watch, TLAPS, WellFoundedInduction

-----------------------------------------------------------------------------
(* A set of natural numbers that is not empty has a least element, and it is its Min. *)
LEMMA Least ==
    ASSUME NEW T \in SUBSET Nat, T # {}
    PROVE  Min(T) \in T /\ \A y \in T : Min(T) <= y
<1> DEFINE R == OpToRel(<, Nat)
<1>1. \E x \in T : \A y \in T : <<y, x>> \notin R
  BY WFMin, NatLessThanWellFounded
<1>2. PICK x \in T : \A y \in T : <<y, x>> \notin R BY <1>1
<1>3. ASSUME NEW y \in T, y < x PROVE <<y, x>> \in R
  BY <1>3 DEF OpToRel
<1> HIDE DEF R
<1>4. \A y \in T : x <= y
  <2> TAKE y \in T
  <2>1. ~(y < x) BY <1>2, <1>3, Zenon
  <2> QED BY <2>1
<1> QED BY <1>4 DEF Min

(* The bounds are positive numbers. *)
LEMMA Bounds ==
    /\ MaxSeq \in Nat /\ MaxObserverEvents \in Nat /\ MaxObserverBytes \in Nat
    /\ MaxEventSize \in Nat /\ MaxEventSize <= MaxObserverBytes
BY StreamAssumption

-----------------------------------------------------------------------------
(* Backlogs. *)

Event == [seq : 1..MaxSeq, size : 1..MaxEventSize]

LEMMA EventParts ==
    ASSUME NEW e \in Event
    PROVE  e.seq \in 1..MaxSeq /\ e.size \in Nat /\ e.size \in 1..MaxEventSize
BY Bounds DEF Event

(* The backlog q and the events p still to push are those after r, up to n. *)
Continues(q, p, r, n) ==
    /\ Len(q) + Len(p) = n - r
    /\ \A i \in 1..Len(q) : q[i].seq = r + i
    /\ \A i \in 1..Len(p) : p[i] = r + Len(q) + i

(* NothingLost says so of each stream. *)
LEMMA LeftContinues ==
    ASSUME NEW q \in Seq(Event), NEW p \in Seq(1..MaxSeq), NEW r \in Nat, NEW n \in Nat,
           NEW left, left = [i \in DOMAIN q |-> q[i].seq] \o p
    PROVE  (Len(left) = n - r /\ \A i \in DOMAIN left : left[i] = r + i)
              <=> Continues(q, p, r, n)
<1> DEFINE b == [i \in DOMAIN q |-> q[i].seq]
<1>1. Len(q) \in Nat /\ Len(p) \in Nat /\ DOMAIN q = 1..Len(q) OBVIOUS
<1>2. b \in Seq(1..MaxSeq) /\ Len(b) = Len(q) /\ \A i \in 1..Len(q) : b[i] = q[i].seq
  <2>1. \A i \in 1..Len(q) : q[i].seq \in 1..MaxSeq
    <3>1. \A i \in 1..Len(q) : q[i] \in Event OBVIOUS
    <3> QED BY <3>1, EventParts
  <2> QED BY <1>1, <2>1
<1> HIDE DEF b
<1>3. left = b \o p BY DEF b
<1>4. /\ Len(left) = Len(q) + Len(p) /\ DOMAIN left = 1..(Len(q) + Len(p))
      /\ \A i \in 1..Len(q) : left[i] = q[i].seq
      /\ \A i \in 1..Len(p) : left[Len(q) + i] = p[i]
  BY <1>1, <1>2, <1>3
<1>5. ASSUME Len(left) = n - r, \A i \in DOMAIN left : left[i] = r + i
      PROVE  Continues(q, p, r, n)
  <2>1. \A i \in 1..Len(q) : i \in DOMAIN left BY <1>1, <1>4
  <2>2. \A i \in 1..Len(p) : Len(q) + i \in DOMAIN left BY <1>1, <1>4
  <2>3. \A i \in 1..Len(p) : p[i] = r + (Len(q) + i) BY <1>4, <1>5, <2>2
  <2>4. \A i \in 1..Len(p) : r + (Len(q) + i) = r + Len(q) + i BY <1>1
  <2> QED BY <1>4, <1>5, <2>1, <2>3, <2>4 DEF Continues
<1>6. ASSUME Continues(q, p, r, n)
      PROVE  Len(left) = n - r /\ \A i \in DOMAIN left : left[i] = r + i
  <2>1. SUFFICES ASSUME NEW i \in DOMAIN left PROVE left[i] = r + i
    BY <1>4, <1>6 DEF Continues
  <2>2. CASE i <= Len(q) BY <1>1, <1>4, <1>6, <2>2 DEF Continues
  <2>3. CASE i > Len(q)
    <3>1. i - Len(q) \in 1..Len(p) /\ Len(q) + (i - Len(q)) = i BY <1>1, <1>4, <2>3
    <3>2. left[i] = p[i - Len(q)] BY <1>4, <3>1
    <3>3. p[i - Len(q)] = r + Len(q) + (i - Len(q)) BY <1>6, <3>1 DEF Continues
    <3> QED BY <1>1, <1>4, <3>2, <3>3
  <2> QED BY <1>1, <1>4, <2>2, <2>3
<1> QED BY <1>5, <1>6

(* A commit, a push and a pop keep it so. *)
LEMMA ContinuesPublish ==
    ASSUME NEW q \in Seq(Event), NEW r \in Nat, NEW n \in Nat, NEW k \in Nat,
           Continues(q, <<>>, r, n)
    PROVE  Continues(q, [i \in 1..k |-> n + i], r, n + k)
<1> DEFINE p == [i \in 1..k |-> n + i]
<1>1. p \in Seq(Nat) /\ Len(p) = k /\ \A i \in 1..k : p[i] = n + i OBVIOUS
<1>2. Len(q) \in Nat /\ Len(q) = n - r /\ \A i \in 1..Len(q) : q[i].seq = r + i
  BY DEF Continues
<1> HIDE DEF p
<1>3. Continues(q, p, r, n + k) BY <1>1, <1>2 DEF Continues
<1> QED BY <1>3 DEF p

LEMMA ContinuesPush ==
    ASSUME NEW q \in Seq(Event), NEW p \in Seq(1..MaxSeq), NEW r \in Nat, NEW n \in Nat,
           NEW size \in 1..MaxEventSize, p # <<>>, Continues(q, p, r, n)
    PROVE  Continues(Append(q, [seq |-> Head(p), size |-> size]), Tail(p), r, n)
<1> DEFINE e == [seq |-> Head(p), size |-> size]
           q2 == Append(q, e)
           p2 == Tail(p)
<1>1. Len(q) \in Nat /\ Len(p) \in Nat /\ Len(p) >= 1 /\ Head(p) = p[1] OBVIOUS
<1>2. e \in Event /\ e.seq = p[1]
  <2>0. \A i \in 1..Len(p) : p[i] \in 1..MaxSeq BY Bounds
  <2>1. p[1] \in 1..MaxSeq BY <1>1, <2>0
  <2> QED BY <1>1, <2>1 DEF Event
<1> HIDE DEF e
<1>3. /\ Len(q2) = Len(q) + 1 /\ q2[Len(q) + 1] = e
      /\ \A i \in 1..Len(q) : q2[i] = q[i]
  BY <1>2
<1>4. Len(p2) = Len(p) - 1 /\ \A i \in 1..Len(p2) : p2[i] = p[i + 1] /\ i + 1 \in 1..Len(p)
  BY <1>1
<1> HIDE DEF q2, p2
<1>5. p[1] = r + Len(q) + 1 BY <1>1 DEF Continues
<1>6. \A i \in 1..Len(q2) : q2[i].seq = r + i
  <2> TAKE i \in 1..Len(q2)
  <2>1. CASE i \in 1..Len(q) BY <1>3, <2>1 DEF Continues
  <2>2. CASE i = Len(q) + 1 BY <1>1, <1>2, <1>3, <1>5, <2>2
  <2> QED BY <1>1, <1>3, <2>1, <2>2
<1>7. \A i \in 1..Len(p2) : p2[i] = r + Len(q2) + i
  <2> TAKE i \in 1..Len(p2)
  <2>1. p2[i] = r + Len(q) + (i + 1) BY <1>4 DEF Continues
  <2> QED BY <1>1, <1>3, <1>4, <2>1
<1>8. Len(q2) + Len(p2) = n - r
  <2>1. Len(q) + Len(p) = n - r BY DEF Continues
  <2>2. Len(q2) = Len(q) + 1 /\ Len(p2) = Len(p) - 1 BY <1>3, <1>4
  <2>3. Len(q) \in Nat /\ Len(p) \in Nat BY <1>1
  <2> QED BY <2>1, <2>2, <2>3
<1> QED BY <1>6, <1>7, <1>8 DEF Continues, q2, p2, e

LEMMA ContinuesPop ==
    ASSUME NEW q \in Seq(Event), NEW p \in Seq(1..MaxSeq), NEW r \in Nat, NEW n \in Nat,
           q # <<>>, Continues(q, p, r, n)
    PROVE  Head(q).seq = r + 1 /\ Continues(Tail(q), p, r + 1, n)
<1> DEFINE q2 == Tail(q)
<1>1. Len(q) \in Nat /\ Len(p) \in Nat /\ Len(q) >= 1 /\ Head(q) = q[1] OBVIOUS
<1>2. Len(q2) = Len(q) - 1 /\ \A i \in 1..Len(q2) : q2[i] = q[i + 1] /\ i + 1 \in 1..Len(q)
  BY <1>1
<1> HIDE DEF q2
<1>3. Head(q).seq = r + 1 BY <1>1 DEF Continues
<1>4. \A i \in 1..Len(q2) : q2[i].seq = r + 1 + i
  <2> TAKE i \in 1..Len(q2)
  <2>1. q2[i].seq = r + (i + 1) BY <1>2 DEF Continues
  <2> QED BY <1>1, <1>2, <2>1
<1>5. \A i \in 1..Len(p) : p[i] = r + 1 + Len(q2) + i
  <2> TAKE i \in 1..Len(p)
  <2>1. p[i] = r + Len(q) + i BY DEF Continues
  <2> QED BY <1>1, <1>2, <2>1
<1>6. Len(q2) + Len(p) = n - (r + 1) BY <1>1, <1>2 DEF Continues
<1> QED BY <1>3, <1>4, <1>5, <1>6 DEF Continues, q2

(* The byte count: an empty backlog, a push and a pop. *)
LEMMA AddsUpEmpty == AddsUp(<<>>, 0)
<1> DEFINE left == [i \in 1..1 |-> 0]
<1>1. Len(<<>>) + 1 = 1 /\ DOMAIN <<>> = {} OBVIOUS
<1>2. left \in [1..1 -> 0..0] /\ left[1] = 0 OBVIOUS
<1> HIDE DEF left
<1>3. \E l \in [1..1 -> 0..0] : l[1] = 0 /\ l[1] = 0 /\ \A i \in {} : l[i] = l[i + 1] + <<>>[i].size
  BY <1>2
<1> QED BY <1>1, <1>3 DEF AddsUp

LEMMA AddsUpPush ==
    ASSUME NEW q \in Seq(Event), NEW total \in Nat, NEW e \in Event, AddsUp(q, total)
    PROVE  AddsUp(Append(q, e), total + e.size)
<1> DEFINE q2 == Append(q, e)
           k == Len(q)
<1>1. k \in Nat /\ e.size \in Nat BY EventParts
<1>2. Len(q2) = k + 1 /\ q2[k + 1] = e /\ DOMAIN q2 = 1..k + 1 /\ \A i \in 1..k : q2[i] = q[i]
  OBVIOUS
<1>3. PICK left \in [1..k + 1 -> 0..total] :
        /\ left[1] = total /\ left[k + 1] = 0
        /\ \A i \in 1..k : left[i] = left[i + 1] + q[i].size
  BY DEF AddsUp
<1> DEFINE l2 == [i \in 1..k + 2 |-> IF i = k + 2 THEN 0 ELSE left[i] + e.size]
<1>4. \A i \in 1..k + 1 : l2[i] = left[i] + e.size /\ left[i] \in 0..total
  <2> HIDE DEF k
  <2> TAKE i \in 1..k + 1
  <2>1. i \in 1..k + 2 /\ i # k + 2 BY <1>1
  <2> QED BY <1>3, <2>1
<1>5. l2[k + 2] = 0 BY <1>1
<1>6. l2 \in [1..k + 2 -> 0..total + e.size] BY <1>1, <1>3
<1> HIDE DEF q2, k, l2
<1>7. l2[1] = total + e.size BY <1>1, <1>3, <1>4
<1>8. \A i \in DOMAIN q2 : l2[i] = l2[i + 1] + q2[i].size
  <2> TAKE i \in DOMAIN q2
  <2>1. CASE i \in 1..k
    <3>1. i \in 1..k + 1 /\ i + 1 \in 1..k + 1 BY <1>1, <2>1
    <3>2. q[i] \in Event BY <2>1 DEF k
    <3>5. q[i].size \in Nat BY <3>2, EventParts
    <3>3. left[i] = left[i + 1] + q[i].size /\ q2[i] = q[i] BY <1>2, <1>3, <2>1
    <3>4. left[i + 1] \in Nat /\ left[i] \in Nat BY <1>4, <3>1
    <3>6. l2[i] = left[i] + e.size /\ l2[i + 1] = left[i + 1] + e.size BY <1>4, <3>1
    <3>7. e.size \in Nat BY <1>1
    <3> QED BY <3>3, <3>4, <3>5, <3>6, <3>7
  <2>2. CASE i = k + 1 BY <1>1, <1>2, <1>3, <1>4, <1>5, <2>2
  <2> QED BY <1>1, <1>2, <2>1, <2>2
<1>9. k + 2 = Len(q2) + 1 BY <1>1, <1>2
<1> QED BY <1>5, <1>6, <1>7, <1>8, <1>9 DEF AddsUp, q2

LEMMA AddsUpPop ==
    ASSUME NEW q \in Seq(Event), NEW total \in Nat, q # <<>>, AddsUp(q, total)
    PROVE  total - Head(q).size \in 0..total /\ AddsUp(Tail(q), total - Head(q).size)
<1> DEFINE q2 == Tail(q)
           k == Len(q)
<1>0. k \in Nat /\ k >= 1 /\ Head(q) = q[1] /\ \A i \in 1..k : q[i] \in Event OBVIOUS
<1>1. k \in Nat /\ k >= 1 /\ Head(q) = q[1] /\ \A i \in 1..k : q[i].size \in Nat
  BY <1>0, EventParts
<1>2. Len(q2) = k - 1 /\ DOMAIN q2 = 1..k - 1 /\ \A i \in 1..k - 1 : q2[i] = q[i + 1]
  BY <1>1
<1>3. PICK left \in [1..k + 1 -> 0..total] :
        /\ left[1] = total /\ left[k + 1] = 0
        /\ \A i \in 1..k : left[i] = left[i + 1] + q[i].size
  <2>1. DOMAIN q = 1..k OBVIOUS
  <2> QED BY <2>1, Zenon DEF AddsUp
<1> DEFINE l2 == [i \in 1..k |-> left[i + 1]]
           rest == total - Head(q).size
<1> HIDE DEF q2, k
<1>4. left[2] = rest /\ rest \in 0..total
  <2>1. 1 \in 1..k /\ 2 \in 1..k + 1 BY <1>1
  <2>2. left[2] \in 0..total BY <1>3, <2>1
  <2>3. total = left[2] + q[1].size BY <1>3, <2>1
  <2>4. Head(q).size = q[1].size /\ q[1].size \in Nat BY <1>1, <2>1
  <2> QED BY <2>2, <2>3, <2>4
<1>5. \A i \in 2..k + 1 : left[i] <= rest
  <2> DEFINE Over == {i \in 2..k + 1 : ~(left[i] <= rest)}
  <2>1. SUFFICES ASSUME Over # {} PROVE FALSE OBVIOUS
  <2>2. Over \in SUBSET Nat BY <1>1
  <2>3. PICK m \in Over : \A y \in Over : m <= y BY <2>1, <2>2, Least
  <2>4. m # 2 /\ m \in 2..k + 1 BY <1>4
  <2>5. m - 1 \in 2..k + 1 /\ m - 1 \in 1..k /\ ~(m <= m - 1) BY <1>1, <2>4
  <2>6. left[m - 1] <= rest BY <2>3, <2>5
  <2>7. left[m - 1] = left[m] + q[m - 1].size
    <3>1. left[m - 1] = left[m - 1 + 1] + q[m - 1].size BY <1>3, <2>5
    <3>2. m - 1 + 1 = m BY <1>1, <2>4
    <3> QED BY <3>1, <3>2
  <2>8. left[m] \in Nat /\ q[m - 1].size \in Nat
    <3>1. m \in 1..k + 1 BY <1>1, <2>4
    <3> QED BY <1>1, <1>3, <2>5, <3>1
  <2>9. left[m] <= rest BY <1>4, <2>6, <2>7, <2>8
  <2> QED BY <2>3, <2>9
<1>6. l2 \in [1..k -> 0..rest]
  <2>1. \A i \in 1..k : left[i + 1] \in 0..rest
    <3> TAKE i \in 1..k
    <3>1. i + 1 \in 2..k + 1 /\ i + 1 \in 1..k + 1 BY <1>1
    <3>2. left[i + 1] \in 0..total /\ left[i + 1] <= rest BY <1>3, <1>5, <3>1
    <3> QED BY <1>4, <3>2
  <2> QED BY <2>1
<1>7. l2[1] = rest /\ l2[k] = 0 BY <1>1, <1>3, <1>4
<1>8. \A i \in 1..k - 1 : l2[i] = l2[i + 1] + q2[i].size
  <2> TAKE i \in 1..k - 1
  <2>1. i \in 1..k /\ i + 1 \in 1..k BY <1>1
  <2>2. left[i + 1] = left[i + 1 + 1] + q[i + 1].size BY <1>3, <2>1
  <2> QED BY <1>2, <2>1, <2>2
<1>9. Len(q2) + 1 = k BY <1>1, <1>2
<1> HIDE DEF l2, rest
<1>10. AddsUp(q2, rest)
  <2>1. SUFFICES \E f \in [1..k -> 0..rest] :
                    /\ f[1] = rest /\ f[k] = 0
                    /\ \A i \in 1..k - 1 : f[i] = f[i + 1] + q2[i].size
    BY <1>2, <1>9, Zenon DEF AddsUp
  <2> QED BY <1>6, <1>7, <1>8
<1> QED BY <1>4, <1>10 DEF q2, rest

-----------------------------------------------------------------------------
(* Replay. *)

(* The frames of the journal follow one another from 1 to n. *)
Tiles(rs, n) ==
    /\ IF rs = <<>> THEN n = 0 ELSE rs[1].first = 1 /\ rs[Len(rs)].last = n
    /\ \A i \in 1..Len(rs) : rs[i].first <= rs[i].last
    /\ \A i \in 2..Len(rs) : rs[i].first = rs[i - 1].last + 1

Frame == [first : 1..MaxSeq, last : 1..MaxSeq]

(* Then ReadEvents finds the event after any earlier one. *)
LEMMA ReadsNext ==
    ASSUME records \in Seq(Frame), seq \in Nat, Tiles(records, seq), NEW c \in Nat, c < seq
    PROVE  ReadEvents(c) = <<c + 1>>
<1> DEFINE frames == FromFrame(c)
           m == Min(frames)
           page == {n \in records[m].first..records[m].last : n > c}
<1>0. records # <<>> BY DEF Tiles
<1>1. /\ Len(records) \in Nat /\ Len(records) >= 1 /\ DOMAIN records = 1..Len(records)
      /\ \A i \in 1..Len(records) : records[i] \in Frame
  BY <1>0
<1>2. \A i \in 1..Len(records) : records[i].first \in Nat /\ records[i].last \in Nat
  BY <1>1, Bounds DEF Frame
<1>3. frames = {i \in 1..Len(records) : records[i].last > c} BY <1>1 DEF FromFrame
<1>4. Len(records) \in frames BY <1>0, <1>1, <1>3 DEF Tiles
<1>5. m \in frames /\ \A i \in frames : m <= i
  <2>1. frames \in SUBSET Nat /\ frames # {} BY <1>3, <1>4
  <2> QED BY <2>1, Least
<1>6. m \in 1..Len(records) /\ records[m].last > c BY <1>3, <1>5
<1> HIDE DEF frames, m
<1>7. records[m].first <= c + 1
  <2>1. CASE m = 1
    <3>1. records[1].first = 1 BY <1>0 DEF Tiles
    <3> QED BY <2>1, <3>1
  <2>2. CASE m # 1
    <3>1. m - 1 \in 1..Len(records) /\ m \in 2..Len(records) /\ ~(m <= m - 1) BY <1>1, <1>6, <2>2
    <3>2. m - 1 \notin frames BY <1>5, <3>1
    <3>3. ~(records[m - 1].last > c) BY <1>3, <3>1, <3>2
    <3>4. records[m].first = records[m - 1].last + 1 BY <3>1 DEF Tiles
    <3> QED BY <1>2, <3>1, <3>3, <3>4
  <2> QED BY <2>1, <2>2
<1>8. c + 1 \in page /\ page \in SUBSET Nat /\ \A n \in page : c + 1 <= n
  BY <1>2, <1>6, <1>7
<1> HIDE DEF page
<1>9. Min(page) = c + 1
  <2>1. Min(page) \in page /\ \A n \in page : Min(page) <= n BY <1>8, Least
  <2>2. Min(page) <= c + 1 /\ c + 1 <= Min(page) /\ Min(page) \in Nat BY <1>8, <2>1
  <2> QED BY <2>2
<1>10. frames # {} /\ page # {} BY <1>5, <1>8
<1>11. ReadEvents(c) = IF frames = {} \/ page = {} THEN <<>> ELSE <<Min(page)>>
  BY DEF ReadEvents, frames, m, page
<1> QED BY <1>9, <1>10, <1>11

(* A commit adds a frame. *)
LEMMA TilesPublish ==
    ASSUME NEW rs \in Seq(Frame), NEW n \in Nat, Tiles(rs, n), NEW k \in 1..2, n + k <= MaxSeq
    PROVE  Tiles(Append(rs, [first |-> n + 1, last |-> n + k]), n + k)
<1> DEFINE f == [first |-> n + 1, last |-> n + k]
           r2 == Append(rs, f)
           l == Len(rs)
<1>1. l \in Nat /\ \A i \in 1..l : rs[i] \in Frame OBVIOUS
<1>2. /\ Len(r2) = l + 1 /\ r2 # <<>> /\ r2[l + 1] = f
      /\ \A i \in 1..l : r2[i] = rs[i]
  OBVIOUS
<1>3. f.first = n + 1 /\ f.last = n + k OBVIOUS
<1>4. l = 0 <=> rs = <<>> OBVIOUS
<1> HIDE DEF f, r2, l
<1>5. r2[1].first = 1
  <2>1. CASE l = 0 BY <1>2, <1>3, <1>4, <2>1 DEF Tiles
  <2>2. CASE l # 0
    <3>1. 1 \in 1..l BY <1>1, <2>2
    <3> QED BY <1>2, <1>4, <2>2, <3>1 DEF Tiles
  <2> QED BY <2>1, <2>2
<1>6. \A i \in 1..l + 1 : r2[i].first <= r2[i].last
  <2> TAKE i \in 1..l + 1
  <2>1. CASE i \in 1..l BY <1>2, <2>1 DEF Tiles, l
  <2>2. CASE i = l + 1 BY <1>2, <1>3, <2>2
  <2> QED BY <1>1, <2>1, <2>2
<1>7. \A i \in 2..l + 1 : r2[i].first = r2[i - 1].last + 1
  <2> TAKE i \in 2..l + 1
  <2>1. CASE i \in 2..l
    <3>1. i \in 1..l /\ i - 1 \in 1..l BY <1>1, <2>1
    <3>2. rs[i].first = rs[i - 1].last + 1 BY <2>1 DEF Tiles, l
    <3> QED BY <1>2, <3>1, <3>2
  <2>2. CASE i = l + 1
    <3>1. i - 1 = l /\ l \in 1..l BY <1>1, <2>2
    <3>2. rs[l].last = n BY <1>4, <3>1 DEF Tiles, l
    <3> QED BY <1>2, <1>3, <2>2, <3>1, <3>2
  <2> QED BY <1>1, <2>1, <2>2
<1> QED BY <1>2, <1>3, <1>5, <1>6, <1>7 DEF Tiles, r2, f

-----------------------------------------------------------------------------
(* The inductive invariant: what the properties say, and the four facts they rest on. *)

(* A stream that was not made yet is as Init left it. *)
Unused ==
    \A s \in Streams : at[s] = "none" =>
        queue[s] = <<>> /\ bytes[s] = 0 /\ ended[s] = "no" /\ seen[s] = <<>>

(* Replay stays within what was published, and a read is made only before its end. *)
Replaying ==
    \A s \in Streams : through[s] <= seq /\ (at[s] = "read" => cursor[s] < through[s])

(* A read fails on a damaged or a closed journal, and only Shutdown closes it. *)
FailsForCause ==
    /\ closed => stopping
    /\ \A s \in Streams : at[s] = "failed" => poisoned \/ closed

Inv ==
    /\ Exact /\ StreamSound /\ PoisonIsHonest
    /\ Tiles(records, seq) /\ Unused /\ Replaying /\ FailsForCause

(* What a step does to the streams and to what they carry: a commit, a push, a new stream, an
   event returned from replay or from the backlog, streams that end, or nothing. *)
Ending(ss, how) ==
    /\ finish(ss, how) /\ observers' = observers \ ss
    /\ UNCHANGED <<seq, records, pushing, start, seen>>

Quiet == UNCHANGED <<seq, records, pushing, observers, cursor, through, queue, bytes, ended, start,
                     seen>>

LEMMA Steps ==
    ASSUME TypeOK, [Next]_vars
    PROVE  \/ \E n \in 1..2 : Publish(n)
           \/ \E size \in 1..MaxEventSize : push(size)
           \/ \E s \in Streams : (\E c \in 0..seq : watch(s, c)) \/ ReadOK(s) \/ NextPops(s)
           \/ \E ss \in SUBSET Streams, how \in {"eof", "fatal"} : Ending(ss, how)
           \/ Quiet
<1>0. observers \in SUBSET Streams BY DEF TypeOK
<1>1. CASE WorkerStep
  <2>1. CASE CommitFails
    <3>1. Ending(observers, "fatal") BY <2>1 DEF CommitFails, poison, Ending, client
    <3> QED BY <1>0, <3>1
  <2>2. CASE Shutdown /\ closeStore
    <3>1. Ending(observers, "eof") BY <2>2 DEF Shutdown, closeStore, Ending, client
    <3> QED BY <1>0, <3>1
  <2>3. CASE Shutdown /\ UNCHANGED <<closed, observers, stream>>
    BY <2>3 DEF Shutdown, Quiet, stream, client
  <2>4. CASE LastCompletes
    <3>1. Ending(observers, "eof") BY <2>4 DEF LastCompletes, closeStore, Ending, client
    <3> QED BY <1>0, <3>1
  <2> QED BY <1>1, <2>1, <2>2, <2>3, <2>4 DEF WorkerStep, PushAny, Shutdown
<1>2. ASSUME NEW s \in Streams, StreamStep(s)
      PROVE  \/ (\E c \in 0..seq : watch(s, c)) \/ ReadOK(s) \/ NextPops(s)
             \/ \E ss \in SUBSET Streams, how \in {"eof", "fatal"} : Ending(ss, how)
             \/ Quiet
  <2>1. CASE Close(s)
    <3>1. Ending({s}, "eof") BY <2>1 DEF Close, Ending, owner, client
    <3>2. {s} \in SUBSET Streams OBVIOUS
    <3> QED BY <3>1, <3>2
  <2>2. CASE Call(s) \/ Abandon(s) \/ NextEnded(s) \/ NextReads(s) \/ NextWaits(s) \/ NextWakes(s)
    BY <2>2 DEF Call, Abandon, NextEnded, NextReads, NextWaits, NextWakes, Quiet, owner, stream
  <2>3. CASE ReadError(s) BY <2>3 DEF ReadError, Quiet, stream
  <2>4. CASE ReadReports(s)
    <3>1. CASE Poisons
      <4>1. Ending(observers, "fatal") BY <2>4, <3>1 DEF ReadReports, poison, Ending
      <4> QED BY <1>0, <4>1
    <3>2. CASE ~Poisons BY <2>4, <3>2 DEF ReadReports, Quiet, stream
    <3> QED BY <3>1, <3>2
  <2> QED BY <1>2, <2>1, <2>2, <2>3, <2>4 DEF StreamStep, NextStep
<1>3. CASE UNCHANGED vars BY <1>3 DEF vars, owner, stream, client, Quiet
<1> QED BY <1>1, <1>2, <1>3 DEF Next

(* The next event is the one after the cursor, whether from replay or from the backlog. *)
LEMMA ReadDelivers ==
    ASSUME Inv, NEW s \in Streams, ReadOK(s)
    PROVE  cursor[s] < through[s] /\ Deliver(s, cursor[s] + 1)
<1>1. cursor[s] \in Nat /\ through[s] \in Nat /\ seq \in Nat /\ records \in Seq(Frame)
  BY Bounds DEF Inv, StreamSound, TypeOK, Frame
<1>2. cursor[s] < through[s] /\ through[s] <= seq BY DEF ReadOK, Inv, Replaying
<1>3. ReadEvents(cursor[s]) = <<cursor[s] + 1>>
  BY <1>1, <1>2, ReadsNext DEF Inv
<1> QED BY <1>2, <1>3 DEF ReadOK

(* NothingLost, stream by stream. *)
Replayed(s) == IF cursor[s] < through[s] THEN through[s] ELSE cursor[s]
Carried == \A s \in observers : Continues(queue[s], pushing, Replayed(s), seq)

LEMMA LostIsCarried == TypeOK => (NothingLost <=> Carried)
<1> SUFFICES ASSUME TypeOK PROVE NothingLost <=> Carried OBVIOUS
<1>1. observers \subseteq Streams /\ pushing \in Seq(1..MaxSeq) /\ seq \in Nat
  BY Bounds DEF TypeOK
<1> DEFINE left(s) == [i \in DOMAIN queue[s] |-> queue[s][i].seq] \o pushing
           good(s) == /\ Len(left(s)) = seq - Replayed(s)
                      /\ \A i \in DOMAIN left(s) : left(s)[i] = Replayed(s) + i
<1>2. ASSUME NEW s \in observers
      PROVE  good(s) <=> Continues(queue[s], pushing, Replayed(s), seq)
  <2>1. s \in Streams /\ queue[s] \in Seq(Event) BY <1>1 DEF TypeOK, Event
  <2>2. Replayed(s) \in Nat BY <2>1, Bounds DEF Replayed, TypeOK
  <2>3. \A l : l = left(s) =>
          ((Len(l) = seq - Replayed(s) /\ \A i \in DOMAIN l : l[i] = Replayed(s) + i)
              <=> Continues(queue[s], pushing, Replayed(s), seq))
    BY <1>1, <2>1, <2>2, LeftContinues
  <2> QED BY <2>3
<1>3. NothingLost <=> \A s \in observers : good(s) BY DEF NothingLost, Replayed
<1> HIDE DEF good
<1> QED BY <1>2, <1>3 DEF Carried

(* Every step keeps the types. *)
LEMMA TypeKept == ASSUME Inv, [Next]_vars PROVE TypeOK'
<1> USE Bounds
<1>0. TypeOK BY DEF Inv, StreamSound
<1>q. queue \in [Streams -> Seq(Event)] BY <1>0 DEF TypeOK, Event
<1>1. ASSUME NEW n \in 1..2, Publish(n) PROVE TypeOK'
  <2>1. seq' \in 0..MaxSeq BY <1>0, <1>1 DEF Publish, TypeOK
  <2>2. [first |-> seq + 1, last |-> seq + n] \in Frame BY <1>0, <1>1 DEF Publish, TypeOK, Frame
  <2>3. records' \in Seq(Frame) BY <1>0, <1>1, <2>2 DEF Publish, TypeOK, Frame
  <2>4. pushing' \in Seq(1..MaxSeq)
    <3>1. \A i \in 1..n : seq + i \in 1..MaxSeq BY <1>0, <1>1 DEF Publish, TypeOK
    <3> QED BY <1>1, <3>1 DEF Publish
  <2> QED BY <1>0, <1>1, <2>1, <2>3, <2>4 DEF Publish, TypeOK, Frame, stream, client
<1>2. ASSUME NEW size \in 1..MaxEventSize, push(size) PROVE TypeOK'
  <2>1. Head(pushing) \in 1..MaxSeq /\ pushing' \in Seq(1..MaxSeq) BY <1>0, <1>2 DEF push, TypeOK
  <2>2. [seq |-> Head(pushing), size |-> size] \in Event BY <2>1 DEF Event
  <2>3. \A s \in Streams : Append(queue[s], [seq |-> Head(pushing), size |-> size]) \in Seq(Event)
    BY <1>q, <2>2
  <2>4. queue' \in [Streams -> Seq(Event)]
    <3>1. <<>> \in Seq(Event) OBVIOUS
    <3> QED BY <1>2, <1>q, <2>3, <3>1 DEF push
  <2>5. bytes' \in [Streams -> 0..MaxObserverBytes]
    <3>1. \A s \in Streams : ~Overflows(s, size) => bytes[s] + size \in 0..MaxObserverBytes
      BY <1>0 DEF Overflows, TypeOK
    <3> QED BY <1>0, <1>2, <3>1 DEF push, TypeOK
  <2>6. ended' \in [Streams -> Ends] BY <1>0, <1>2 DEF push, TypeOK, Ends
  <2>7. wake' \in [Streams -> BOOLEAN]
    <3>1. wake' = [s \in Streams |-> wake[s] \/ s \in observers] BY <1>2 DEF push
    <3>2. \A s \in Streams : (wake[s] \/ s \in observers) \in BOOLEAN OBVIOUS
    <3> QED BY <3>1, <3>2
  <2>8. observers' \subseteq Streams BY <1>0, <1>2 DEF push, TypeOK
  <2> QED BY <1>0, <1>2, <2>1, <2>4, <2>5, <2>6, <2>7, <2>8 DEF push, TypeOK, Event, client
<1>3. ASSUME NEW s \in Streams, NEW c \in 0..seq, watch(s, c) PROVE TypeOK'
  <2>1. c \in 0..MaxSeq /\ seq \in 0..MaxSeq BY <1>0 DEF TypeOK
  <2>2. /\ cursor' \in [Streams -> 0..MaxSeq] /\ through' \in [Streams -> 0..MaxSeq]
        /\ start' \in [Streams -> 0..MaxSeq] /\ at' \in [Streams -> Places]
        /\ observers' \subseteq Streams
    BY <1>0, <1>3, <2>1 DEF watch, TypeOK, Places
  <2> QED BY <1>0, <1>3, <2>2 DEF watch, TypeOK, owner
<1>4. ASSUME NEW ss \in SUBSET Streams, NEW how \in {"eof", "fatal"}, Ending(ss, how)
      PROVE  /\ observers' \subseteq Streams /\ UNCHANGED <<seq, records, pushing, start, seen, cursor, through>>
             /\ queue' \in [Streams -> Seq(Event)] /\ bytes' \in [Streams -> 0..MaxObserverBytes]
             /\ wake' \in [Streams -> BOOLEAN] /\ ended' \in [Streams -> Ends]
  <2>1. observers' \subseteq Streams BY <1>0, <1>4 DEF Ending, TypeOK
  <2>2. queue' \in [Streams -> Seq(Event)]
    <3>1. <<>> \in Seq(Event) OBVIOUS
    <3> QED BY <1>4, <1>q, <3>1 DEF Ending, finish
  <2>3. bytes' \in [Streams -> 0..MaxObserverBytes] BY <1>0, <1>4 DEF Ending, finish, TypeOK
  <2>4. wake' \in [Streams -> BOOLEAN] BY <1>4 DEF Ending, finish
  <2>5. ended' \in [Streams -> Ends] BY <1>0, <1>4 DEF Ending, finish, TypeOK, Ends
  <2> QED BY <1>4, <2>1, <2>2, <2>3, <2>4, <2>5 DEF Ending, finish
<1>5. CASE CommitFails \/ Shutdown \/ LastCompletes
  <2>0. observers \in SUBSET Streams BY <1>0 DEF TypeOK
  <2>1. CASE CommitFails
    <3>1. Ending(observers, "fatal") BY <2>1 DEF CommitFails, poison, Ending, client
    <3> QED BY <1>0, <1>4, <2>0, <2>1, <3>1 DEF CommitFails, poison, TypeOK, client, Event
  <2>2. CASE (Shutdown \/ LastCompletes) /\ closeStore
    <3>1. Ending(observers, "eof") BY <2>2 DEF Shutdown, LastCompletes, closeStore, Ending, client
    <3> QED BY <1>0, <1>4, <2>0, <2>2, <3>1 DEF Shutdown, LastCompletes, closeStore, TypeOK, client, Event
  <2>3. CASE Shutdown /\ ~closeStore BY <1>0, <2>3 DEF Shutdown, TypeOK, stream, client
  <2> QED BY <1>5, <2>1, <2>2, <2>3 DEF LastCompletes
<1>6. ASSUME NEW s \in Streams, Close(s) PROVE TypeOK'
  <2>1. Ending({s}, "eof") /\ {s} \in SUBSET Streams BY <1>6 DEF Close, Ending, owner, client
  <2> QED BY <1>0, <1>4, <1>6, <2>1 DEF Close, TypeOK, owner, client, Event
<1>7. ASSUME NEW s \in Streams,
             \/ Call(s) \/ Abandon(s) \/ NextEnded(s) \/ NextReads(s) \/ NextWaits(s) \/ NextWakes(s)
      PROVE  TypeOK'
  <2>1. ended[s] \in Ends BY <1>0 DEF TypeOK
  <2> QED BY <1>0, <1>7, <2>1 DEF Call, Abandon, NextEnded, NextReads, NextWaits, NextWakes, Return,
                            TypeOK, owner, stream, Places, Ends
<1>8. ASSUME NEW s \in Streams, ReadError(s) PROVE TypeOK'
  BY <1>0, <1>8 DEF ReadError, TypeOK, stream, Places
<1>9. ASSUME NEW s \in Streams, ReadReports(s) PROVE TypeOK'
  <2>0. observers \in SUBSET Streams BY <1>0 DEF TypeOK
  <2>1. at' \in [Streams -> Places] /\ answer' \in [Streams -> Ends \cup {"none", "event", "ctx", "storage_failure"}]
    BY <1>0, <1>9 DEF ReadReports, Return, TypeOK, Places
  <2>2. CASE Poisons
    <3>1. Ending(observers, "fatal") BY <1>9, <2>2 DEF ReadReports, poison, Ending
    <3> QED BY <1>0, <1>4, <1>9, <2>0, <2>1, <2>2, <3>1 DEF ReadReports, poison, TypeOK, Event
  <2>3. CASE ~Poisons BY <1>0, <1>9, <2>1, <2>3 DEF ReadReports, TypeOK, stream
  <2> QED BY <2>2, <2>3
<1>10. ASSUME NEW s \in Streams, NEW n \in 1..MaxSeq, Deliver(s, n)
       PROVE  /\ cursor' \in [Streams -> 0..MaxSeq] /\ seen' \in [Streams -> Seq(1..MaxSeq)]
              /\ at' \in [Streams -> Places]
              /\ answer' \in [Streams -> Ends \cup {"none", "event", "ctx", "storage_failure"}]
  BY <1>0, <1>10 DEF Deliver, Return, TypeOK, Places
<1>11. ASSUME NEW s \in Streams, ReadOK(s) PROVE TypeOK'
  <2>1. cursor[s] < through[s] /\ Deliver(s, cursor[s] + 1) BY <1>11, ReadDelivers
  <2>2. cursor[s] + 1 \in 1..MaxSeq BY <1>0, <2>1 DEF TypeOK
  <2> QED BY <1>0, <1>10, <1>11, <2>1, <2>2 DEF ReadOK, TypeOK, owner
<1>12. ASSUME NEW s \in Streams, NextPops(s) PROVE TypeOK'
  <2>1. queue[s] \in Seq(Event) /\ queue[s] # <<>> /\ bytes[s] \in Nat /\ bytes[s] <= MaxObserverBytes
    BY <1>0, <1>12, <1>q DEF NextPops, TypeOK
  <2>2. Head(queue[s]) \in Event /\ Tail(queue[s]) \in Seq(Event) BY <2>1
  <2>3. Head(queue[s]).seq \in 1..MaxSeq BY <2>2, EventParts
  <2>4. bytes[s] - Head(queue[s]).size \in 0..bytes[s]
    BY <2>1, AddsUpPop DEF Inv, StreamSound, BacklogExact
  <2>5. bytes[s] - Head(queue[s]).size \in 0..MaxObserverBytes BY <2>1, <2>4
  <2>6. queue' \in [Streams -> Seq(Event)] BY <1>12, <1>q, <2>2 DEF NextPops
  <2>7. bytes' \in [Streams -> 0..MaxObserverBytes] BY <1>0, <1>12, <2>5 DEF NextPops, TypeOK
  <2> QED BY <1>0, <1>10, <1>12, <2>3, <2>6, <2>7 DEF NextPops, TypeOK, owner, Event
<1>13. CASE UNCHANGED vars BY <1>0, <1>13 DEF vars, owner, stream, client, TypeOK
<1> QED BY <1>1, <1>2, <1>3, <1>5, <1>6, <1>7, <1>8, <1>9, <1>11, <1>12, <1>13
        DEF Next, WorkerStep, PushAny, StreamStep, NextStep

(* Every event a stream returns is the next one. *)
LEMMA PopDelivers ==
    ASSUME Inv, NEW s \in Streams, NextPops(s)
    PROVE  /\ cursor[s] >= through[s] /\ Deliver(s, cursor[s] + 1)
           /\ Continues(Tail(queue[s]), pushing, cursor[s] + 1, seq)
<1>0. TypeOK BY DEF Inv, StreamSound
<1>1. s \in observers
  BY DEF NextPops, Inv, StreamSound, ObserversOpen
<1>2. Continues(queue[s], pushing, Replayed(s), seq)
  BY <1>0, <1>1, LostIsCarried DEF Inv, Exact, Carried
<1>3. cursor[s] \in Nat /\ through[s] \in Nat BY <1>0, Bounds DEF TypeOK
<1>4. cursor[s] >= through[s] /\ Replayed(s) = cursor[s] BY <1>3 DEF NextPops, Replayed
<1>5. /\ queue[s] \in Seq(Event) /\ pushing \in Seq(1..MaxSeq) /\ seq \in Nat
      /\ queue[s] # <<>>
  <2>1. queue[s] \in Seq(Event) BY <1>0 DEF TypeOK, Event
  <2>2. pushing \in Seq(1..MaxSeq) /\ seq \in Nat BY <1>0, Bounds DEF TypeOK
  <2> QED BY <2>1, <2>2 DEF NextPops
<1>6. Head(queue[s]).seq = cursor[s] + 1 /\ Continues(Tail(queue[s]), pushing, cursor[s] + 1, seq)
  BY <1>2, <1>3, <1>4, <1>5, ContinuesPop
<1> QED BY <1>4, <1>6 DEF NextPops

LEMMA GapFreeKept == ASSUME Inv, [Next]_vars PROVE GapFree'
<1>0. TypeOK /\ GapFree BY DEF Inv, StreamSound, Exact
<1>1. \A s \in Streams : seen[s] \in Seq(1..MaxSeq) /\ start[s] \in Nat /\ cursor[s] \in Nat
  BY <1>0, Bounds DEF TypeOK
<1>2. ASSUME NEW s \in Streams, Deliver(s, cursor[s] + 1), start' = start PROVE GapFree'
  <2>1. /\ seen' = [seen EXCEPT ![s] = Append(@, cursor[s] + 1)]
        /\ cursor' = [cursor EXCEPT ![s] = cursor[s] + 1]
    BY <1>2 DEF Deliver
  <2>2. cursor[s] = start[s] + Len(seen[s]) BY <1>0 DEF GapFree
  <2>3. SUFFICES ASSUME NEW t \in Streams
                 PROVE  /\ \A i \in DOMAIN seen'[t] : seen'[t][i] = start[t] + i
                        /\ cursor'[t] = start[t] + Len(seen'[t])
    BY <1>2 DEF GapFree
  <2>4. CASE t = s
    <3> DEFINE q == seen[s]
               q2 == Append(q, cursor[s] + 1)
    <3>1. seen'[t] = q2 /\ cursor'[t] = cursor[s] + 1 BY <1>0, <2>1, <2>4 DEF TypeOK
    <3>2. /\ Len(q) \in Nat /\ Len(q2) = Len(q) + 1 /\ DOMAIN q2 = 1..Len(q) + 1
          /\ q2[Len(q) + 1] = cursor[s] + 1 /\ \A i \in 1..Len(q) : q2[i] = q[i]
      BY <1>1
    <3>3. \A i \in 1..Len(q) : q[i] = start[s] + i BY <1>0, <1>1 DEF GapFree
    <3> HIDE DEF q, q2
    <3>4. \A i \in DOMAIN q2 : q2[i] = start[s] + i
      <4> TAKE i \in DOMAIN q2
      <4>1. CASE i = Len(q) + 1 BY <1>1, <2>2, <3>2, <4>1 DEF q
      <4>2. CASE i \in 1..Len(q) BY <3>2, <3>3, <4>2
      <4> QED BY <3>2, <4>1, <4>2
    <3>5. cursor[s] + 1 = start[s] + Len(q2)
      <4>1. cursor[s] = start[s] + Len(q) BY <2>2 DEF q
      <4>2. Len(q) \in Nat /\ Len(q2) = Len(q) + 1 BY <3>2
      <4>3. start[s] \in Nat BY <1>1
      <4> QED BY <4>1, <4>2, <4>3
    <3> QED BY <2>4, <3>1, <3>4, <3>5
  <2>5. CASE t # s
    <3>1. seen'[t] = seen[t] /\ cursor'[t] = cursor[t] BY <1>0, <2>1, <2>5 DEF TypeOK
    <3> QED BY <1>0, <3>1 DEF GapFree
  <2> QED BY <2>4, <2>5
<1>3. ASSUME UNCHANGED <<start, seen, cursor>> PROVE GapFree' BY <1>0, <1>3 DEF GapFree
<1>4. ASSUME NEW s \in Streams, NEW c \in 0..seq, watch(s, c) PROVE GapFree'
  <2>1. SUFFICES ASSUME NEW t \in Streams
                 PROVE  /\ \A i \in DOMAIN seen[t] : seen[t][i] = start'[t] + i
                        /\ cursor'[t] = start'[t] + Len(seen[t])
    BY <1>4 DEF watch, GapFree
  <2>2. CASE t = s
    <3>1. seen[t] = <<>> BY <1>4, <2>2 DEF watch, Inv, Unused
    <3>2. cursor'[t] = c /\ start'[t] = c /\ c \in Int BY <1>0, <1>4, <2>2, Bounds DEF watch, TypeOK
    <3>3. Len(<<>>) = 0 /\ DOMAIN <<>> = {} OBVIOUS
    <3> QED BY <3>1, <3>2, <3>3
  <2>3. CASE t # s
    <3>1. cursor'[t] = cursor[t] /\ start'[t] = start[t] BY <1>0, <1>4, <2>3 DEF watch, TypeOK
    <3> QED BY <1>0, <3>1 DEF GapFree
  <2> QED BY <2>2, <2>3
<1>5. ASSUME NEW s \in Streams, ReadOK(s) PROVE GapFree'
  BY <1>2, <1>5, ReadDelivers DEF ReadOK
<1>6. ASSUME NEW s \in Streams, NextPops(s) PROVE GapFree'
  BY <1>2, <1>6, PopDelivers DEF NextPops
<1>7. ASSUME \/ \E n \in 1..2 : Publish(n)
             \/ \E size \in 1..MaxEventSize : push(size)
             \/ \E ss \in SUBSET Streams, how \in {"eof", "fatal"} : Ending(ss, how)
             \/ Quiet
      PROVE  GapFree'
  BY <1>3, <1>7 DEF Publish, push, Ending, finish, Quiet, stream, client
<1> QED BY <1>0, <1>4, <1>5, <1>6, <1>7, Steps

(* What a stream has still to deliver stays exactly what was published and not seen. *)
LEMMA NothingLostKept == ASSUME Inv, [Next]_vars PROVE NothingLost'
<1>0. TypeOK /\ Carried BY LostIsCarried DEF Inv, StreamSound, Exact
<1>1. /\ observers \subseteq Streams /\ seq \in Nat /\ pushing \in Seq(1..MaxSeq)
      /\ \A s \in Streams : /\ queue[s] \in Seq(Event) /\ Replayed(s) \in Nat
                            /\ cursor[s] \in Nat /\ through[s] \in Nat
  <2>1. \A s \in Streams : queue[s] \in Seq(Event) BY <1>0 DEF TypeOK, Event
  <2>2. observers \subseteq Streams /\ seq \in Nat /\ pushing \in Seq(1..MaxSeq)
    BY <1>0, Bounds DEF TypeOK
  <2>3. \A s \in Streams : cursor[s] \in Nat /\ through[s] \in Nat BY <1>0, Bounds DEF TypeOK
  <2> QED BY <2>1, <2>2, <2>3 DEF Replayed
<1>2. SUFFICES Carried'
  <2>1. TypeOK' BY TypeKept
  <2>2. (TypeOK => (NothingLost <=> Carried))' BY LostIsCarried, PTL
  <2> QED BY <2>1, <2>2
<1>3. ASSUME NEW n \in 1..2, Publish(n) PROVE Carried'
  <2>1. pushing = <<>> /\ pushing' = [i \in 1..n |-> seq + i] /\ seq' = seq + n
    BY <1>3 DEF Publish, Free
  <2>2. SUFFICES ASSUME NEW s \in observers
                 PROVE  Continues(queue[s], pushing', Replayed(s), seq')
    BY <1>3 DEF Publish, stream, Carried, Replayed
  <2>3. Continues(queue[s], <<>>, Replayed(s), seq) BY <1>0, <2>1 DEF Carried
  <2>4. n \in Nat /\ s \in Streams BY <1>1
  <2> QED BY <1>1, <2>1, <2>3, <2>4, ContinuesPublish
<1>4. ASSUME NEW size \in 1..MaxEventSize, push(size) PROVE Carried'
  <2>1. SUFFICES ASSUME NEW s \in observers'
                 PROVE  Continues(queue'[s], pushing', Replayed(s), seq)
    BY <1>4 DEF push, Carried, Replayed
  <2>2. s \in observers /\ s \in Streams /\ ~Overflows(s, size) BY <1>1, <1>4 DEF push
  <2>3. queue'[s] = Append(queue[s], [seq |-> Head(pushing), size |-> size])
    BY <1>4, <2>2 DEF push
  <2>4. pushing # <<>> /\ pushing' = Tail(pushing) BY <1>4 DEF push
  <2>5. Continues(queue[s], pushing, Replayed(s), seq) BY <1>0, <2>2 DEF Carried
  <2> QED BY <1>1, <2>2, <2>3, <2>4, <2>5, ContinuesPush
<1>5. ASSUME NEW s \in Streams, NEW c \in 0..seq, watch(s, c) PROVE Carried'
  <2>1. SUFFICES ASSUME NEW t \in observers'
                 PROVE  Continues(queue[t], pushing, Replayed(t)', seq)
    BY <1>5 DEF watch, owner, Carried
  <2>2. CASE t = s
    <3>1. queue[t] = <<>> /\ pushing = <<>> BY <1>5, <2>2 DEF watch, Free, Inv, Unused
    <3>2. cursor'[t] = c /\ through'[t] = seq BY <1>0, <1>5, <2>2 DEF watch, TypeOK
    <3>3. Replayed(t)' = seq BY <1>1, <3>2 DEF Replayed
    <3>4. Len(<<>>) = 0 /\ 1..0 = {} OBVIOUS
    <3> QED BY <1>1, <3>1, <3>3, <3>4 DEF Continues
  <2>3. CASE t # s
    <3>1. t \in observers /\ t \in Streams BY <1>1, <1>5, <2>3 DEF watch
    <3>2. cursor'[t] = cursor[t] /\ through'[t] = through[t]
      BY <1>0, <1>5, <2>3, <3>1 DEF watch, TypeOK
    <3> QED BY <1>0, <3>1, <3>2 DEF Carried, Replayed
  <2> QED BY <2>2, <2>3
<1>6. ASSUME NEW s \in Streams, ReadOK(s) PROVE Carried'
  <2>1. cursor[s] < through[s] /\ cursor' = [cursor EXCEPT ![s] = cursor[s] + 1]
    BY <1>6, ReadDelivers DEF Deliver
  <2>2. SUFFICES ASSUME NEW t \in observers PROVE Replayed(t)' = Replayed(t)
    BY <1>0, <1>6 DEF ReadOK, owner, Carried
  <2>3. through' = through BY <1>6 DEF ReadOK
  <2>4. CASE t = s
    <3>1. cursor'[t] = cursor[t] + 1 BY <1>0, <2>1, <2>4 DEF TypeOK
    <3> QED BY <1>1, <2>1, <2>3, <2>4, <3>1 DEF Replayed
  <2>5. CASE t # s
    <3>1. cursor'[t] = cursor[t] BY <1>0, <1>1, <2>1, <2>5 DEF TypeOK
    <3> QED BY <2>3, <3>1 DEF Replayed
  <2> QED BY <2>4, <2>5
<1>7. ASSUME NEW s \in Streams, NextPops(s) PROVE Carried'
  <2>1. /\ cursor[s] >= through[s] /\ cursor' = [cursor EXCEPT ![s] = cursor[s] + 1]
        /\ Continues(Tail(queue[s]), pushing, cursor[s] + 1, seq)
    BY <1>7, PopDelivers DEF Deliver
  <2>2. SUFFICES ASSUME NEW t \in observers
                 PROVE  Continues(queue'[t], pushing, Replayed(t)', seq)
    BY <1>7 DEF NextPops, owner, Carried
  <2>3. through' = through /\ queue' = [queue EXCEPT ![s] = Tail(@)] BY <1>7 DEF NextPops
  <2>4. CASE t = s
    <3>1. cursor'[t] = cursor[t] + 1 /\ queue'[t] = Tail(queue[t])
      BY <1>0, <2>1, <2>3, <2>4 DEF TypeOK
    <3>2. Replayed(t)' = cursor[t] + 1 BY <1>1, <2>1, <2>3, <2>4, <3>1 DEF Replayed
    <3> QED BY <2>1, <2>4, <3>1, <3>2
  <2>5. CASE t # s
    <3>1. cursor'[t] = cursor[t] /\ queue'[t] = queue[t]
      BY <1>0, <1>1, <2>1, <2>3, <2>5 DEF TypeOK
    <3> QED BY <1>0, <2>3, <3>1 DEF Replayed, Carried
  <2> QED BY <2>4, <2>5
<1>8. ASSUME NEW ss \in SUBSET Streams, NEW how \in {"eof", "fatal"}, Ending(ss, how) PROVE Carried'
  <2>1. SUFFICES ASSUME NEW t \in observers \ ss
                 PROVE  Continues(queue'[t], pushing, Replayed(t), seq)
    BY <1>8 DEF Ending, finish, Carried, Replayed
  <2>2. t \in Streams /\ queue'[t] = queue[t] BY <1>1, <1>8 DEF Ending, finish
  <2> QED BY <1>0, <2>2 DEF Carried
<1>9. ASSUME Quiet PROVE Carried' BY <1>0, <1>9 DEF Quiet, Carried, Replayed
<1> QED BY <1>0, <1>3, <1>4, <1>5, <1>6, <1>7, <1>8, <1>9, Steps

(* Byte counts stay the sizes of the backlogs, within the bounds. *)
LEMMA BacklogKept == ASSUME Inv, [Next]_vars PROVE BacklogExact'
<1>0. TypeOK /\ BacklogExact BY DEF Inv, StreamSound
<1>1. \A s \in Streams : queue[s] \in Seq(Event) /\ bytes[s] \in Nat
  <2>1. \A s \in Streams : queue[s] \in Seq(Event) BY <1>0 DEF TypeOK, Event
  <2>2. \A s \in Streams : bytes[s] \in Nat BY <1>0, Bounds DEF TypeOK
  <2> QED BY <2>1, <2>2
<1> DEFINE Good(q, b) == AddsUp(q, b) /\ b <= MaxObserverBytes /\ Len(q) <= MaxObserverEvents
<1>2. \A s \in Streams : Good(queue[s], bytes[s]) BY <1>0 DEF BacklogExact
<1>3. Good(<<>>, 0)
  <2>1. Len(<<>>) = 0 OBVIOUS
  <2> QED BY <2>1, AddsUpEmpty, Bounds
<1>4. SUFFICES \A s \in Streams : Good(queue'[s], bytes'[s]) BY DEF BacklogExact
<1> HIDE DEF Good
<1>5. ASSUME NEW size \in 1..MaxEventSize, push(size), NEW s \in Streams
      PROVE  Good(queue'[s], bytes'[s])
  <2>1. CASE s \in observers /\ Overflows(s, size)
    <3>1. queue'[s] = <<>> /\ bytes'[s] = 0 BY <1>5, <2>1 DEF push
    <3> QED BY <1>3, <3>1
  <2>2. CASE s \notin observers
    <3>1. queue'[s] = queue[s] /\ bytes'[s] = bytes[s] BY <1>5, <2>2 DEF push
    <3> QED BY <1>2, <3>1
  <2>3. CASE s \in observers /\ ~Overflows(s, size)
    <3> DEFINE e == [seq |-> Head(pushing), size |-> size]
    <3>1. queue'[s] = Append(queue[s], e) /\ bytes'[s] = bytes[s] + size BY <1>5, <2>3 DEF push
    <3>2. e \in Event /\ e.size = size
      <4>1. Head(pushing) \in 1..MaxSeq BY <1>0, <1>5, Bounds, SMTT(30) DEF push, TypeOK
      <4> QED BY <1>5, <4>1 DEF Event
    <3>3. AddsUp(queue[s], bytes[s]) BY <1>2 DEF Good
    <3> HIDE DEF e
    <3>4. AddsUp(Append(queue[s], e), bytes[s] + size) BY <1>1, <3>2, <3>3, AddsUpPush
    <3>5. bytes[s] + size <= MaxObserverBytes
      BY <1>1, <1>5, <2>3, Bounds DEF Overflows
    <3>6. Len(Append(queue[s], e)) <= MaxObserverEvents
      <4>1. Len(queue[s]) \in Nat /\ Len(Append(queue[s], e)) = Len(queue[s]) + 1 BY <1>1, <3>2
      <4> QED BY <2>3, <4>1, Bounds DEF Overflows
    <3> QED BY <3>1, <3>4, <3>5, <3>6 DEF Good
  <2> QED BY <2>1, <2>2, <2>3
<1>6. ASSUME NEW s \in Streams, NextPops(s), NEW t \in Streams PROVE Good(queue'[t], bytes'[t])
  <2>1. CASE t = s
    <3>1. queue'[s] = Tail(queue[s]) /\ bytes'[s] = bytes[s] - Head(queue[s]).size
      BY <1>0, <1>6 DEF NextPops, TypeOK
    <3>2. queue[s] # <<>> BY <1>6 DEF NextPops
    <3>3. AddsUp(queue[s], bytes[s]) /\ bytes[s] <= MaxObserverBytes
          /\ Len(queue[s]) <= MaxObserverEvents
      BY <1>2 DEF Good
    <3>4. bytes'[s] \in 0..bytes[s] /\ AddsUp(queue'[s], bytes'[s])
      BY <1>1, <3>1, <3>2, <3>3, AddsUpPop
    <3>5. Len(queue'[s]) <= MaxObserverEvents
      <4>1. Len(queue[s]) \in Nat /\ Len(queue'[s]) = Len(queue[s]) - 1 BY <1>1, <3>1, <3>2
      <4> QED BY <3>3, <4>1, Bounds
    <3>6. bytes'[s] <= MaxObserverBytes BY <1>1, <3>3, <3>4, Bounds
    <3> QED BY <2>1, <3>4, <3>5, <3>6 DEF Good
  <2>2. CASE t # s
    <3>1. queue'[t] = queue[t] /\ bytes'[t] = bytes[t] BY <1>0, <1>6, <2>2 DEF NextPops, TypeOK
    <3> QED BY <1>2, <3>1
  <2> QED BY <2>1, <2>2
<1>7. ASSUME NEW ss \in SUBSET Streams, NEW how \in {"eof", "fatal"}, Ending(ss, how),
             NEW s \in Streams
      PROVE  Good(queue'[s], bytes'[s])
  <2>1. \/ queue'[s] = <<>> /\ bytes'[s] = 0
        \/ queue'[s] = queue[s] /\ bytes'[s] = bytes[s]
    BY <1>7 DEF Ending, finish
  <2> QED BY <1>2, <1>3, <2>1
<1>8. ASSUME \/ \E n \in 1..2 : Publish(n)
             \/ \E s \in Streams : (\E c \in 0..seq : watch(s, c)) \/ ReadOK(s)
             \/ Quiet
      PROVE  \A s \in Streams : Good(queue'[s], bytes'[s])
  BY <1>2, <1>8 DEF Publish, watch, ReadOK, Quiet, stream
<1> QED BY <1>0, <1>5, <1>6, <1>7, <1>8, Steps

(* A stream is served exactly while it is open. *)
LEMMA ObserversKept == ASSUME Inv, [Next]_vars PROVE ObserversOpen'
<1>0. TypeOK /\ ObserversOpen BY DEF Inv, StreamSound
<1>1. \A s \in Streams : s \in observers <=> at[s] # "none" /\ ended[s] = "no"
  BY <1>0 DEF ObserversOpen
<1>2. observers \subseteq Streams /\ observers' \subseteq Streams /\ TypeOK'
  BY <1>0, TypeKept DEF TypeOK
<1>3. SUFFICES ASSUME NEW t \in Streams
               PROVE  t \in observers' <=> at'[t] # "none" /\ ended'[t] = "no"
  BY <1>2 DEF ObserversOpen
<1>4. ASSUME NEW size \in 1..MaxEventSize, push(size)
      PROVE  t \in observers' <=> at'[t] # "none" /\ ended'[t] = "no"
  BY <1>1, <1>4 DEF push, client
<1>5. ASSUME NEW s \in Streams, NEW c \in 0..seq, watch(s, c)
      PROVE  t \in observers' <=> at'[t] # "none" /\ ended'[t] = "no"
  <2>1. ended[s] = "no" BY <1>5 DEF watch, Inv, Unused
  <2> QED BY <1>0, <1>1, <1>5, <2>1 DEF watch, TypeOK
<1>6. ASSUME NEW ss \in SUBSET Streams, NEW how \in {"eof", "fatal"}, Ending(ss, how),
             at'[t] = "none" <=> at[t] = "none"
      PROVE  t \in observers' <=> at'[t] # "none" /\ ended'[t] = "no"
  BY <1>1, <1>6 DEF Ending, finish
<1>7. ASSUME UNCHANGED <<observers, ended>>, at'[t] = "none" <=> at[t] = "none"
      PROVE  t \in observers' <=> at'[t] # "none" /\ ended'[t] = "no"
  BY <1>1, <1>7
<1>8. (\A s \in Streams, c \in 0..seq : ~watch(s, c)) => (at'[t] = "none" <=> at[t] = "none")
  <2> SUFFICES ASSUME \A s \in Streams, c \in 0..seq : ~watch(s, c)
               PROVE  at'[t] = "none" <=> at[t] = "none"
    OBVIOUS
  <2>1. CASE WorkerStep
    BY <2>1 DEF WorkerStep, PushAny, Publish, push, CommitFails, Shutdown, LastCompletes, client
  <2>2. ASSUME NEW s \in Streams, StreamStep(s) PROVE at'[t] = "none" <=> at[t] = "none"
    BY <1>0, <2>2 DEF StreamStep, NextStep, Close, Call, Abandon, NextEnded, NextReads, ReadOK,
                      ReadError, ReadReports, NextPops, NextWaits, NextWakes, Deliver, Return,
                      client, TypeOK
  <2>3. CASE UNCHANGED vars BY <2>3 DEF vars, client
  <2> QED BY <2>1, <2>2, <2>3 DEF Next
<1>9. ASSUME \/ \E n \in 1..2 : Publish(n)
             \/ \E s \in Streams : ReadOK(s) \/ NextPops(s)
             \/ Quiet
      PROVE  UNCHANGED <<observers, ended>>
  BY <1>9 DEF Publish, ReadOK, NextPops, Quiet, stream
<1> QED BY <1>0, <1>4, <1>5, <1>6, <1>7, <1>8, <1>9, Steps

(* A call that waits is woken for what comes. *)
LEMMA WakeupKept == ASSUME Inv, [Next]_vars PROVE NoLostWakeup'
<1>0. TypeOK /\ NoLostWakeup BY DEF Inv, StreamSound
<1>1. SUFFICES ASSUME NEW t \in Streams, at'[t] = "wait", queue'[t] # <<>> \/ ended'[t] # "no"
               PROVE  wake'[t]
  BY DEF NoLostWakeup
<1>2. at[t] = "wait" /\ (queue[t] # <<>> \/ ended[t] # "no") => wake[t]
  BY <1>0 DEF NoLostWakeup
<1>3. ASSUME NEW size \in 1..MaxEventSize, push(size) PROVE wake'[t]
  BY <1>1, <1>2, <1>3 DEF push, client
<1>4. ASSUME NEW ss \in SUBSET Streams, NEW how \in {"eof", "fatal"}, finish(ss, how),
             at[t] = "wait"
      PROVE  wake'[t]
  BY <1>1, <1>2, <1>4 DEF finish
<1>5. CASE WorkerStep
  <2>1. observers \in SUBSET Streams BY <1>0 DEF TypeOK
  <2>2. CASE CommitFails BY <1>1, <1>4, <2>1, <2>2 DEF CommitFails, poison, client
  <2>3. CASE (Shutdown \/ LastCompletes) /\ closeStore
    BY <1>1, <1>4, <2>1, <2>3 DEF Shutdown, LastCompletes, closeStore, client
  <2>4. CASE Shutdown /\ ~closeStore BY <1>1, <1>2, <2>4 DEF Shutdown, client, stream
  <2>5. ASSUME NEW n \in 1..2, Publish(n) PROVE wake'[t]
    BY <1>1, <1>2, <2>5 DEF Publish, client, stream
  <2> QED BY <1>3, <1>5, <2>2, <2>3, <2>4, <2>5 DEF WorkerStep, PushAny, LastCompletes
<1>6. ASSUME NEW s \in Streams, StreamStep(s) PROVE wake'[t]
  <2>1. CASE Close(s)
    <3>1. finish({s}, "eof") /\ {s} \in SUBSET Streams BY <2>1 DEF Close
    <3> QED BY <1>1, <1>4, <2>1, <3>1 DEF Close, client
  <2>2. CASE ReadReports(s)
    <3>1. t # s /\ at[t] = "wait" BY <1>0, <1>1, <2>2 DEF ReadReports, Return, TypeOK
    <3>2. observers \in SUBSET Streams BY <1>0 DEF TypeOK
    <3> QED BY <1>1, <1>2, <1>4, <2>2, <3>1, <3>2 DEF ReadReports, poison, stream
  <2>3. CASE NextPops(s)
    <3>1. t # s /\ at[t] = "wait" BY <1>0, <1>1, <2>3 DEF NextPops, Deliver, Return, TypeOK
    <3> QED BY <1>0, <1>1, <1>2, <2>3, <3>1 DEF NextPops, TypeOK
  <2>4. CASE NextWaits(s)
    <3>1. t # s BY <1>1, <2>4 DEF NextWaits, stream
    <3> QED BY <1>0, <1>1, <1>2, <2>4, <3>1 DEF NextWaits, stream, TypeOK
  <2>5. CASE NextWakes(s)
    <3>1. t # s BY <1>0, <1>1, <2>5 DEF NextWakes, TypeOK
    <3> QED BY <1>0, <1>1, <1>2, <2>5, <3>1 DEF NextWakes, TypeOK
  <2>6. CASE \E c \in 0..seq : watch(s, c)
    BY <1>0, <1>1, <1>2, <2>6 DEF watch, TypeOK
  <2>7. CASE Call(s) \/ NextEnded(s) \/ NextReads(s) \/ Abandon(s) \/ ReadError(s)
    BY <1>0, <1>1, <1>2, <2>7 DEF Call, NextEnded, NextReads, Abandon, ReadError, Return, stream,
                                  TypeOK
  <2>8. CASE ReadOK(s)
    BY <1>0, <1>1, <1>2, <2>8 DEF ReadOK, Deliver, Return, TypeOK
  <2> QED BY <1>6, <2>1, <2>2, <2>3, <2>4, <2>5, <2>6, <2>7, <2>8 DEF StreamStep, NextStep
<1>7. CASE UNCHANGED vars BY <1>1, <1>2, <1>7 DEF vars, client, stream
<1> QED BY <1>5, <1>6, <1>7 DEF Next

(* The frames, the streams not made yet, the reads and the causes of their failures. *)
LEMMA TilesKept == ASSUME Inv, [Next]_vars PROVE Tiles(records, seq)'
<1>0. TypeOK /\ Tiles(records, seq) BY DEF Inv, StreamSound
<1>1. ASSUME NEW n \in 1..2, Publish(n) PROVE Tiles(records', seq')
  <2>1. records \in Seq(Frame) /\ seq \in Nat BY <1>0, Bounds DEF TypeOK, Frame
  <2>2. seq + n <= MaxSeq /\ seq' = seq + n
        /\ records' = Append(records, [first |-> seq + 1, last |-> seq + n])
    BY <1>1 DEF Publish
  <2> QED BY <1>0, <2>1, <2>2, TilesPublish
<1>2. ASSUME UNCHANGED <<records, seq>> PROVE Tiles(records', seq') BY <1>0, <1>2
<1>3. ASSUME ~\E n \in 1..2 : Publish(n) PROVE UNCHANGED <<records, seq>>
  BY <1>0, <1>3, Steps DEF push, watch, ReadOK, NextPops, Ending, Quiet, owner
<1> QED BY <1>1, <1>2, <1>3

LEMMA UnusedKept == ASSUME Inv, [Next]_vars PROVE Unused'
<1>0. TypeOK /\ Unused BY DEF Inv, StreamSound
<1>1. SUFFICES ASSUME NEW t \in Streams, at'[t] = "none"
               PROVE  queue'[t] = <<>> /\ bytes'[t] = 0 /\ ended'[t] = "no" /\ seen'[t] = <<>>
  BY DEF Unused
<1>2. at[t] = "none"
  <2>1. CASE WorkerStep
    BY <1>1, <2>1 DEF WorkerStep, PushAny, Publish, push, CommitFails, Shutdown, LastCompletes, client
  <2>2. ASSUME NEW s \in Streams, StreamStep(s) PROVE at[t] = "none"
    BY <1>0, <1>1, <2>2 DEF StreamStep, NextStep, watch, Close, Call, Abandon, NextEnded, NextReads,
                      ReadOK, ReadError, ReadReports, NextPops, NextWaits, NextWakes, Deliver, Return,
                      client, TypeOK
  <2>3. CASE UNCHANGED vars BY <1>1, <2>3 DEF vars, client
  <2> QED BY <2>1, <2>2, <2>3 DEF Next
<1>3. t \notin observers BY <1>2 DEF Inv, StreamSound, ObserversOpen
<1>4. queue[t] = <<>> /\ bytes[t] = 0 /\ ended[t] = "no" /\ seen[t] = <<>>
  BY <1>0, <1>2 DEF Unused
<1>5. CASE WorkerStep
  <2>1. ASSUME NEW size \in 1..MaxEventSize, push(size)
        PROVE  queue'[t] = <<>> /\ bytes'[t] = 0 /\ ended'[t] = "no" /\ seen'[t] = <<>>
    BY <1>3, <1>4, <2>1 DEF push, client
  <2>2. ASSUME NEW how \in {"eof", "fatal"}, finish(observers, how), UNCHANGED client
        PROVE  queue'[t] = <<>> /\ bytes'[t] = 0 /\ ended'[t] = "no" /\ seen'[t] = <<>>
    BY <1>3, <1>4, <2>2 DEF finish, client
  <2>3. CASE CommitFails BY <2>2, <2>3 DEF CommitFails, poison
  <2>4. CASE Shutdown BY <1>4, <2>2, <2>4 DEF Shutdown, closeStore, stream, client
  <2>5. CASE LastCompletes BY <2>2, <2>5 DEF LastCompletes, closeStore
  <2>6. CASE \E n \in 1..2 : Publish(n) BY <1>4, <2>6 DEF Publish, stream, client
  <2> QED BY <1>5, <2>1, <2>3, <2>4, <2>5, <2>6 DEF WorkerStep, PushAny
<1>6. ASSUME NEW s \in Streams, StreamStep(s), s = t
      PROVE  queue'[t] = <<>> /\ bytes'[t] = 0 /\ ended'[t] = "no" /\ seen'[t] = <<>>
  <2>1. at[s] = "none" /\ at'[s] = "none" BY <1>1, <1>2, <1>6
  <2>2. FALSE
    BY <1>0, <1>6, <2>1
       DEF StreamStep, NextStep, watch, Close, Call, Abandon, NextEnded, NextReads, ReadOK, ReadError,
           ReadReports, NextPops, NextWaits, NextWakes, TypeOK
  <2> QED BY <2>2
<1>7. ASSUME NEW s \in Streams, StreamStep(s), s # t
      PROVE  queue'[t] = <<>> /\ bytes'[t] = 0 /\ ended'[t] = "no" /\ seen'[t] = <<>>
  <2>1. CASE Close(s)
    BY <1>4, <1>7, <2>1 DEF Close, finish, client
  <2>2. CASE ReadReports(s)
    BY <1>3, <1>4, <2>2 DEF ReadReports, poison, finish, stream
  <2>3. CASE ReadOK(s) \/ NextPops(s)
    BY <1>0, <1>4, <1>7, <2>3 DEF ReadOK, NextPops, Deliver, TypeOK
  <2>4. CASE \/ \E c \in 0..seq : watch(s, c)
             \/ Call(s) \/ NextEnded(s) \/ NextReads(s) \/ ReadError(s) \/ NextWaits(s)
             \/ NextWakes(s) \/ Abandon(s)
    BY <1>4, <2>4 DEF watch, Call, NextEnded, NextReads, ReadError, NextWaits, NextWakes, Abandon,
                      stream
  <2> QED BY <1>7, <2>1, <2>2, <2>3, <2>4 DEF StreamStep, NextStep
<1>8. CASE UNCHANGED vars BY <1>4, <1>8 DEF vars, stream, client
<1> QED BY <1>5, <1>6, <1>7, <1>8 DEF Next

LEMMA ReplayingKept == ASSUME Inv, [Next]_vars PROVE Replaying'
<1>0. TypeOK /\ Replaying BY DEF Inv, StreamSound
<1>1. SUFFICES ASSUME NEW t \in Streams
               PROVE  through'[t] <= seq' /\ (at'[t] = "read" => cursor'[t] < through'[t])
  BY DEF Replaying
<1>2. /\ through[t] <= seq /\ (at[t] = "read" => cursor[t] < through[t])
      /\ through[t] \in Nat /\ seq \in Nat
  BY <1>0, Bounds DEF Replaying, TypeOK
<1>3. CASE WorkerStep
  <2>1. UNCHANGED <<through, cursor, at>>
    BY <1>3 DEF WorkerStep, PushAny, Publish, push, CommitFails, Shutdown, LastCompletes, poison,
                closeStore, finish, client, stream
  <2>2. seq' = seq \/ \E n \in 1..2 : seq' = seq + n
    BY <1>3 DEF WorkerStep, PushAny, Publish, push, CommitFails, Shutdown, LastCompletes
  <2>3. seq' \in Nat /\ seq <= seq' BY <1>2, <2>2
  <2> QED BY <1>2, <2>1, <2>3
<1>4. ASSUME NEW s \in Streams, StreamStep(s)
      PROVE  through'[t] <= seq' /\ (at'[t] = "read" => cursor'[t] < through'[t])
  <2>0. seq' = seq
    BY <1>4 DEF StreamStep, NextStep, watch, Close, Call, Abandon, NextEnded, NextReads, ReadOK,
                ReadError, ReadReports, NextPops, NextWaits, NextWakes, owner
  <2>1. ASSUME NEW c \in 0..seq, watch(s, c)
        PROVE  through'[t] <= seq' /\ (at'[t] = "read" => cursor'[t] < through'[t])
    BY <1>0, <1>2, <2>0, <2>1 DEF watch, TypeOK
  <2>2. CASE NextReads(s) BY <1>0, <1>2, <2>0, <2>2 DEF NextReads, stream, TypeOK
  <2>3. CASE ReadOK(s) \/ NextPops(s)
    <3>1. through' = through /\ at'[s] = "out" BY <1>0, <2>3 DEF ReadOK, NextPops, Deliver, Return, TypeOK
    <3>2. t # s => at'[t] = at[t] /\ cursor'[t] = cursor[t]
      BY <1>0, <2>3 DEF ReadOK, NextPops, Deliver, Return, TypeOK
    <3> QED BY <1>2, <2>0, <3>1, <3>2
  <2>4. CASE ReadReports(s)
    BY <1>0, <1>2, <2>0, <2>4 DEF ReadReports, poison, finish, Return, stream, TypeOK
  <2>5. CASE Close(s) BY <1>2, <2>0, <2>5 DEF Close, finish, client
  <2>6. CASE \/ Call(s) \/ NextEnded(s) \/ ReadError(s) \/ NextWaits(s) \/ NextWakes(s) \/ Abandon(s)
    BY <1>0, <1>2, <2>0, <2>6 DEF Call, NextEnded, ReadError, NextWaits, NextWakes, Abandon, Return,
                                  stream, TypeOK
  <2> QED BY <1>4, <2>1, <2>2, <2>3, <2>4, <2>5, <2>6 DEF StreamStep, NextStep
<1>5. CASE UNCHANGED vars BY <1>2, <1>5 DEF vars, owner, stream, client
<1> QED BY <1>3, <1>4, <1>5 DEF Next

(* "replay gap" cannot be reported. *)
LEMMA Dense ==
    TypeOK /\ Tiles(records, seq) /\ Replaying => ReplayIsDense
<1> SUFFICES ASSUME TypeOK, Tiles(records, seq), Replaying, NEW s \in Streams, at[s] = "read"
             PROVE  ~ReplayGap(s)
  BY DEF ReplayIsDense
<1>1. /\ cursor[s] \in Nat /\ through[s] \in Nat /\ seq \in Nat /\ records \in Seq(Frame)
      /\ cursor[s] < through[s] /\ through[s] <= seq
  BY Bounds DEF TypeOK, Frame, Replaying
<1>2. ReadEvents(cursor[s]) = <<cursor[s] + 1>> BY <1>1, ReadsNext
<1>3. Len(<<cursor[s] + 1>>) = 1 /\ <<cursor[s] + 1>>[1] = cursor[s] + 1 OBVIOUS
<1>4. ~(cursor[s] + 1 > through[s]) BY <1>1
<1> QED BY <1>2, <1>3, <1>4 DEF ReplayGap

(* A failed read has a cause, and only a damaged journal poisons the worker for it. *)
LEMMA CauseKept == ASSUME Inv, [Next]_vars PROVE FailsForCause' /\ PoisonIsHonest'
<1>0. /\ TypeOK /\ PoisonIsHonest /\ ReplayIsDense /\ (closed => stopping)
      /\ \A s \in Streams : at[s] = "failed" => poisoned \/ closed
      /\ {stopping, closed, poisoned} \subseteq BOOLEAN
  BY DEF Inv, StreamSound, FailsForCause, TypeOK
<1>1. CASE WorkerStep
  <2>1. poisoned => poisoned'
    BY <1>1 DEF WorkerStep, PushAny, Publish, push, CommitFails, Shutdown, LastCompletes
  <2>2. closed => closed' /\ stopping'
    BY <1>0, <1>1 DEF WorkerStep, PushAny, Publish, push, CommitFails, Shutdown, LastCompletes,
                      closeStore
  <2>3. closed' => stopping'
    BY <1>0, <1>1 DEF WorkerStep, PushAny, Publish, push, CommitFails, Shutdown, LastCompletes,
                      closeStore
  <2>4. at' = at
    BY <1>1 DEF WorkerStep, PushAny, Publish, push, CommitFails, Shutdown, LastCompletes, client
  <2>5. fatal' = "read" => fatal = "read"
    BY <1>1 DEF WorkerStep, PushAny, Publish, push, CommitFails, Shutdown, LastCompletes, poison
  <2> QED BY <1>0, <2>1, <2>2, <2>3, <2>4, <2>5 DEF FailsForCause, PoisonIsHonest
<1>2. ASSUME NEW s \in Streams, StreamStep(s) PROVE FailsForCause' /\ PoisonIsHonest'
  <2>1. CASE ReadError(s)
    <3>1. poisoned' = (poisoned \/ ~closed)
      BY <1>0, <2>1 DEF ReadError, ReplayIsDense
    <3> QED BY <1>0, <2>1, <3>1 DEF ReadError, FailsForCause, PoisonIsHonest, TypeOK
  <2>2. CASE ReadReports(s)
    <3>1. Poisons => poisoned BY <1>0, <2>2 DEF ReadReports, Poisons
    <3>2. UNCHANGED <<stopping, closed, poisoned>> BY <2>2 DEF ReadReports
    <3>3. \A t \in Streams : at'[t] = "failed" => at[t] = "failed"
      BY <1>0, <2>2 DEF ReadReports, Return, TypeOK
    <3>4. fatal' = "read" => fatal = "read" \/ Poisons BY <2>2 DEF ReadReports
    <3> QED BY <1>0, <3>1, <3>2, <3>3, <3>4 DEF FailsForCause, PoisonIsHonest
  <2>3. ASSUME ~ReadError(s), ~ReadReports(s) PROVE FailsForCause' /\ PoisonIsHonest'
    <3>1. UNCHANGED owner
      BY <1>2, <2>3 DEF StreamStep, NextStep, watch, Close, Call, Abandon, NextEnded, NextReads,
                        ReadOK, NextPops, NextWaits, NextWakes
    <3>2. \A t \in Streams : at'[t] = "failed" => at[t] = "failed"
      BY <1>0, <1>2, <2>3 DEF StreamStep, NextStep, watch, Close, Call, Abandon, NextEnded, NextReads,
                        ReadOK, NextPops, NextWaits, NextWakes, Deliver, Return, client, TypeOK
    <3> QED BY <1>0, <3>1, <3>2 DEF owner, FailsForCause, PoisonIsHonest
  <2> QED BY <2>1, <2>2, <2>3
<1>3. CASE UNCHANGED vars BY <1>0, <1>3 DEF vars, owner, client, FailsForCause, PoisonIsHonest
<1> QED BY <1>1, <1>2, <1>3 DEF Next

-----------------------------------------------------------------------------
(* The theorems. *)

(* In every state of Watch, Next, push, finish, Close and the worker around them, the inductive
   invariant holds: the three properties below, what a stream not made yet looks like, how far a
   replay may go, and why a read fails. *)
THEOREM StreamInvariant == Spec => []Inv
<1>1. Init => Inv
  <2> SUFFICES ASSUME Init PROVE Inv OBVIOUS
  <2>1. TypeOK
    <3>1. <<>> \in Seq([first : 1..MaxSeq, last : 1..MaxSeq]) /\ <<>> \in Seq(1..MaxSeq)
          /\ <<>> \in Seq([seq : 1..MaxSeq, size : 1..MaxEventSize])
      OBVIOUS
    <3>2. 0 \in 0..MaxSeq /\ 0 \in 0..MaxObserverBytes BY Bounds
    <3> QED BY <3>1, <3>2 DEF Init, TypeOK, Ends, Places
  <2>2. Len(<<>>) = 0 /\ DOMAIN <<>> = {} OBVIOUS
  <2>3. Exact
    <3>1. GapFree BY <2>2 DEF Init, GapFree
    <3>2. NothingLost BY DEF Init, NothingLost
    <3> QED BY <3>1, <3>2 DEF Exact
  <2>4. BacklogExact BY <2>2, AddsUpEmpty, Bounds DEF Init, BacklogExact
  <2>5. NoLostWakeup /\ ReplayIsDense /\ ObserversOpen /\ PoisonIsHonest
    BY DEF Init, NoLostWakeup, ReplayIsDense, ObserversOpen, PoisonIsHonest
  <2>6. Tiles(records, seq)
    <3>1. 1..0 = {} /\ 2..0 = {} OBVIOUS
    <3> QED BY <2>2, <3>1 DEF Init, Tiles
  <2>7. Unused /\ Replaying /\ FailsForCause BY DEF Init, Unused, Replaying, FailsForCause
  <2> QED BY <2>1, <2>3, <2>4, <2>5, <2>6, <2>7 DEF Inv, StreamSound
<1>2. Inv /\ [Next]_vars => Inv'
  <2> SUFFICES ASSUME Inv, [Next]_vars PROVE Inv' OBVIOUS
  <2>1. (TypeOK /\ Tiles(records, seq) /\ Replaying => ReplayIsDense)' BY Dense, PTL
  <2>2. TypeOK' /\ Tiles(records, seq)' /\ Replaying' BY TypeKept, TilesKept, ReplayingKept
  <2>3. StreamSound'
    BY <2>1, <2>2, BacklogKept, WakeupKept, ObserversKept DEF StreamSound
  <2> QED BY <2>2, <2>3, GapFreeKept, NothingLostKept, UnusedKept, CauseKept DEF Inv, Exact
<1> QED BY <1>1, <1>2, PTL DEF Spec

(* Next returns the events after the cursor Watch was given, each once and in order, across the
   change from replay to the live backlog, and an open stream has exactly the rest still to come. *)
THEOREM ExactTheorem == Spec => []Exact
<1>1. Inv => Exact BY DEF Inv
<1> QED BY <1>1, StreamInvariant, PTL

(* Backlogs keep to their bounds and their counts, no wake-up is lost, a replay never finds a gap,
   and the worker serves exactly the open streams. *)
THEOREM SoundTheorem == Spec => []StreamSound
<1>1. Inv => StreamSound BY DEF Inv
<1> QED BY <1>1, StreamInvariant, PTL

(* A stream whose read races an orderly Shutdown does not poison the worker. *)
THEOREM PoisonTheorem == Spec => []PoisonIsHonest
<1>1. Inv => PoisonIsHonest BY DEF Inv
<1> QED BY <1>1, StreamInvariant, PTL
==============================================================================
