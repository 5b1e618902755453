--------------------------- MODULE ProcessProofs ---------------------------
(***************************************************************************)
(* What is proved of the process around its requests, for every host,      *)
(* window, cap and number of changes.  One section per component, each     *)
(* with the invariant its theorem needs:                                   *)
(*   WindowInv    readings lie a sampling interval apart, at most a look   *)
(*                more, oldest first (MetricsWindow);                      *)
(*   IndInv, ReadInv   what the two files of the log hold (EventLog);      *)
(*   StartInv     what a start leaves of its probe, its notes and the      *)
(*                registered algorithms (StartUp);                         *)
(*   PagesInv     which of the daemon's parts imply which (StatusView).    *)
(***************************************************************************)
EXTENDS Process, TLAPS

-----------------------------------------------------------------------------
(* MetricsWindow.                                                          *)
Every == METRICS_SAMPLE_EVERY
Recently == METRICS_RECENT_WINDOW
Keep == Recently \div Every + 2
Age == 0 .. AgeMax
Reading == [age : Age, behind : Age]

(* Readings are a sampling interval apart, one more being due in x ...     *)
Spaced(q, x) == \A i \in 1 .. Len(q) :
                  q[i].age = AgeMax \/ q[i].age >= (Len(q) - i) * Every + (Every - x)
(* ... and no more than a look further, the last one included.             *)
Close(q) == \A i \in 1 .. Len(q) - 1 : q[i].age <= q[i + 1].age + Every + Poll
Ordered(q) == \A i, j \in 1 .. Len(q) :
                i < j => q[i].age >= q[j].age /\ q[i].behind >= q[j].behind
(* Of the readings at least w old one is the newest.                       *)
Topped(q) == \A w \in Nat :
               \/ \A i \in 1 .. Len(q) : q[i].age < w
               \/ \E i \in 1 .. Len(q) : /\ q[i].age >= w
                                        /\ \A j \in 1 .. Len(q) : q[j].age >= w => j <= i
Newest(q, x, k) == q # <<>> => /\ x > 0 => q[Len(q)].age + x <= Every
                               /\ x = 0 => q[Len(q)].age <= Every + k

WindowInv == /\ sampled \in BOOLEAN /\ failed \in BOOLEAN
             /\ readings \in Seq(Reading) /\ Len(readings) <= Keep
             /\ next \in 0 .. Every /\ idle \in 0 .. Poll /\ up \in Age
             /\ Spaced(readings, next) /\ Ordered(readings) /\ Topped(readings)
             /\ sampled /\ ~failed =>
                  /\ Close(readings) /\ Newest(readings, next, idle)
                  /\ readings = <<>> => up = 0 /\ next = 0 /\ idle = Poll
                  /\ readings # <<>> => readings[1].age = up \/ Len(readings) = Keep

LEMMA Sizes ==
  /\ Every \in Nat /\ Every > 0 /\ Recently \in Nat /\ Poll \in Nat /\ Poll > 0 /\ AgeMax \in Nat
  /\ Recently + Every + Poll <= AgeMax
BY WindowAssumption DEF W!WindowAssumption, Every, Recently

LEMMA Divides ==
  ASSUME NEW w \in Nat, NEW e \in Nat, e > 0
  PROVE  w \div e \in Nat /\ (w \div e + 1) * e > w
OBVIOUS

LEMMA KeepIs ==
  /\ Keep \in Nat /\ Keep >= 2 /\ (Keep - 1) * Every > Recently
<1>1. Recently \div Every \in Nat /\ (Recently \div Every + 1) * Every > Recently
  BY Sizes, Divides
<1>2. Keep - 1 = Recently \div Every + 1
  BY <1>1, Sizes DEF Keep
<1> QED  BY <1>1, <1>2, Sizes DEF Keep

LEMMA Times ==
  ASSUME NEW k \in Int, NEW e \in Int
  PROVE  (k + 1) * e = k * e + e /\ 0 * e = 0 /\ k * e \in Int
OBVIOUS

New == [age |-> 0, behind |-> 0]

LEMMA PushIs ==
  ASSUME NEW rs \in Seq(Reading), Len(rs) <= Keep
  PROVE  \E k \in {0, 1} :
           /\ k = 1 <=> Len(rs) = Keep
           /\ W!Push(rs) \in Seq(Reading) /\ Len(W!Push(rs)) = Len(rs) + 1 - k
           /\ W!Push(rs)[Len(rs) + 1 - k] = New
           /\ \A i \in 1 .. Len(rs) - k : W!Push(rs)[i] = rs[i + k]
<1> DEFINE all == Append(rs, New)
<1>1. New \in Reading
  BY Sizes DEF New, Reading, Age
<1>2. all \in Seq(Reading) /\ Len(all) = Len(rs) + 1 /\ all # <<>>
      /\ all[Len(rs) + 1] = New /\ \A i \in 1 .. Len(rs) : all[i] = rs[i]
  BY <1>1
<1>3. W!Push(rs) = IF Len(all) > Keep THEN Tail(all) ELSE all
  BY DEF W!Push, Keep, Every, Recently, New
<1>4. Len(rs) \in Nat /\ Keep \in Nat /\ Keep >= 2
  BY KeepIs
<1> HIDE DEF all
<1>5. CASE Len(rs) = Keep
  <2>1. W!Push(rs) = Tail(all)
    BY <1>2, <1>3, <1>4, <1>5
  <2>2. /\ Tail(all) \in Seq(Reading) /\ Len(Tail(all)) = Len(all) - 1
        /\ \A i \in 1 .. Len(all) - 1 : Tail(all)[i] = all[i + 1]
    BY <1>2
  <2>3. /\ W!Push(rs) \in Seq(Reading) /\ Len(W!Push(rs)) = Len(rs) + 1 - 1
        /\ W!Push(rs)[Len(rs) + 1 - 1] = New
        /\ \A i \in 1 .. Len(rs) - 1 : W!Push(rs)[i] = rs[i + 1]
    BY <1>2, <1>4, <1>5, <2>1, <2>2
  <2> QED  BY <1>5, <2>3
<1>6. CASE Len(rs) # Keep
  <2>1. W!Push(rs) = all
    BY <1>2, <1>3, <1>4, <1>6
  <2>3. /\ W!Push(rs) \in Seq(Reading) /\ Len(W!Push(rs)) = Len(rs) + 1 - 0
        /\ W!Push(rs)[Len(rs) + 1 - 0] = New
        /\ \A i \in 1 .. Len(rs) - 0 : W!Push(rs)[i] = rs[i + 0]
    BY <1>2, <1>4, <1>6, <2>1
  <2> QED  BY <1>6, <2>3
<1> QED  BY <1>5, <1>6

(* A reading taken when one is due.                                        *)
LEMMA PushRight ==
  ASSUME NEW rs \in Seq(Reading), Len(rs) <= Keep, Spaced(rs, 0), Ordered(rs), Topped(rs)
  PROVE  /\ W!Push(rs) \in Seq(Reading) /\ Len(W!Push(rs)) <= Keep /\ W!Push(rs) # <<>>
         /\ Spaced(W!Push(rs), Every) /\ Ordered(W!Push(rs)) /\ Newest(W!Push(rs), Every, 0) /\ Topped(W!Push(rs))
         /\ \A k \in 0 .. Poll : Close(rs) /\ Newest(rs, 0, k) => Close(W!Push(rs))
         /\ rs # <<>> => W!Push(rs)[1] = rs[1] \/ Len(W!Push(rs)) = Keep
         /\ rs = <<>> => W!Push(rs)[1].age = 0
<1> DEFINE q == W!Push(rs)
<1>1. PICK k \in {0, 1} :
           /\ k = 1 <=> Len(rs) = Keep
           /\ q \in Seq(Reading) /\ Len(q) = Len(rs) + 1 - k
           /\ q[Len(rs) + 1 - k] = New
           /\ \A i \in 1 .. Len(rs) - k : q[i] = rs[i + k]
  BY PushIs, Zenon
<1> HIDE DEF q
<1>2. /\ Len(rs) \in Nat /\ Keep \in Nat /\ Keep >= 2
      /\ Every \in Nat /\ Every > 0 /\ Poll \in Nat /\ AgeMax \in Nat
  BY KeepIs, Sizes
<1>3. Len(q) \in Nat /\ Len(q) >= 1 /\ Len(q) <= Keep /\ q[Len(q)] = New /\ q # <<>>
  BY <1>1, <1>2
<1>4. New.age = 0 /\ New.behind = 0
  BY DEF New
<1>5. \A i \in 1 .. Len(rs) : rs[i].age \in Age /\ rs[i].behind \in Age
  <2>1. \A i \in 1 .. Len(rs) : rs[i] \in Reading
    OBVIOUS
  <2> QED  BY <2>1 DEF Reading
<1>6. \A i \in 1 .. Len(q) - 1 : q[i] = rs[i + k] /\ i + k \in 1 .. Len(rs)
  BY <1>1, <1>2
<1>7. Spaced(q, Every)
  <2> SUFFICES ASSUME NEW i \in 1 .. Len(q)
               PROVE  q[i].age = AgeMax \/ q[i].age >= (Len(q) - i) * Every + (Every - Every)
    BY DEF Spaced
  <2>1. CASE i = Len(q)
    <3>1. (Len(q) - i) * Every = 0
      BY <1>2, <1>3, <2>1, Times
    <3> QED  BY <1>2, <1>3, <1>4, <2>1, <3>1
  <2>2. CASE i # Len(q)
    <3>1. q[i] = rs[i + k] /\ i + k \in 1 .. Len(rs) /\ Len(q) - i = (Len(rs) - (i + k)) + 1
      BY <1>1, <1>2, <1>3, <1>6, <2>2
    <3> DEFINE m == Len(rs) - (i + k)
    <3>2. rs[i + k].age = AgeMax \/ rs[i + k].age >= m * Every + (Every - 0)
      BY <3>1 DEF Spaced
    <3>3. m \in Int /\ (m + 1) * Every = m * Every + Every /\ m * Every \in Int
      BY <1>1, <1>2, <3>1, Times
    <3>4. (Len(q) - i) * Every = m * Every + Every
      BY <3>1, <3>3
    <3>5. rs[i + k].age \in Age
      BY <1>5, <3>1
    <3> HIDE DEF m
    <3> QED  BY <1>2, <3>1, <3>2, <3>3, <3>4, <3>5 DEF Age
  <2> QED  BY <2>1, <2>2
<1>8. Ordered(q)
  <2> SUFFICES ASSUME NEW i \in 1 .. Len(q), NEW j \in 1 .. Len(q), i < j
               PROVE  q[i].age >= q[j].age /\ q[i].behind >= q[j].behind
    BY DEF Ordered
  <2>1. i \in 1 .. Len(q) - 1
    BY <1>3
  <2>2. q[i] = rs[i + k] /\ i + k \in 1 .. Len(rs)
    BY <1>6, <2>1
  <2>3. CASE j = Len(q)
    BY <1>2, <1>3, <1>4, <1>5, <2>2, <2>3 DEF Age
  <2>4. CASE j # Len(q)
    <3>1. q[j] = rs[j + k] /\ j + k \in 1 .. Len(rs) /\ i + k < j + k
      <4>1. j \in 1 .. Len(q) - 1
        BY <1>3, <2>4
      <4>2. k \in Int
        BY <1>1
      <4>3. i + k < j + k
        BY <4>2
      <4> QED  BY <1>6, <4>1, <4>3, Zenon
    <3> QED  BY <2>2, <3>1 DEF Ordered
  <2> QED  BY <2>3, <2>4
<1>9. Newest(q, Every, 0)
  BY <1>2, <1>3, <1>4 DEF Newest
<1>10. ASSUME NEW z \in 0 .. Poll, Close(rs), Newest(rs, 0, z)
       PROVE  Close(q)
  <2> SUFFICES ASSUME NEW i \in 1 .. Len(q) - 1
               PROVE  q[i].age <= q[i + 1].age + Every + Poll
    BY DEF Close
  <2>1. q[i] = rs[i + k] /\ i + k \in 1 .. Len(rs)
    BY <1>6
  <2>2. CASE i + 1 = Len(q)
    <3>1. i + k = Len(rs) /\ rs # <<>>
      BY <1>1, <1>2, <2>1, <2>2
    <3>2. rs[Len(rs)].age <= Every + z
      BY <1>10, <3>1 DEF Newest
    <3>3. q[i].age <= Every + z /\ q[i + 1].age = 0
      BY <1>3, <1>4, <2>1, <2>2, <3>1, <3>2
    <3>4. q[i].age \in Age
      BY <1>5, <2>1
    <3> QED  BY <1>2, <3>3, <3>4 DEF Age
  <2>3. CASE i + 1 # Len(q)
    <3>1. q[i + 1] = rs[(i + k) + 1] /\ i + k \in 1 .. Len(rs) - 1
      BY <1>1, <1>2, <1>3, <1>6, <2>3
    <3> QED  BY <1>10, <2>1, <3>1 DEF Close
  <2> QED  BY <2>2, <2>3
<1>11. rs # <<>> => q[1] = rs[1] \/ Len(q) = Keep
  <2>1. CASE Len(rs) = Keep
    BY <1>1, <1>2, <2>1
  <2>2. CASE Len(rs) # Keep /\ rs # <<>>
    <3>1. k = 0 /\ 1 \in 1 .. Len(rs) - k /\ 1 + 0 = 1
      BY <1>1, <1>2, <2>2
    <3> QED  BY <1>1, <3>1
  <2> QED  BY <2>1, <2>2
<1>12. rs = <<>> => q[1].age = 0
  BY <1>1, <1>2, <1>3, <1>4
<1>13. Topped(q)
  <2> SUFFICES ASSUME NEW w \in Nat
               PROVE  \/ \A i \in 1 .. Len(q) : q[i].age < w
                      \/ \E i \in 1 .. Len(q) : /\ q[i].age >= w
                                               /\ \A j \in 1 .. Len(q) : q[j].age >= w => j <= i
    BY DEF Topped
  <2>1. \A i \in 1 .. Len(q) : i <= Len(q)
    BY <1>3
  <2>2. CASE w = 0
    BY <1>3, <1>4, <2>1, <2>2
  <2>3. CASE w # 0
    <3>1. \A i \in 1 .. Len(q) : \/ i = Len(q) /\ q[i].age < w
                                 \/ q[i] = rs[i + k] /\ i + k \in 1 .. Len(rs)
      BY <1>3, <1>4, <1>6, <2>3
    <3>2. CASE \A i \in 1 .. Len(rs) : rs[i].age < w
      BY <3>1, <3>2
    <3>3. ASSUME NEW p \in 1 .. Len(rs), rs[p].age >= w,
                 \A j \in 1 .. Len(rs) : rs[j].age >= w => j <= p
          PROVE  \/ \A i \in 1 .. Len(q) : q[i].age < w
                 \/ \E i \in 1 .. Len(q) : /\ q[i].age >= w
                                          /\ \A j \in 1 .. Len(q) : q[j].age >= w => j <= i
      <4>1. k \in Int /\ \A i \in 1 .. Len(rs) : rs[i].age \in Nat
        BY <1>1, <1>2, <1>5 DEF Age
      <4>2. ASSUME NEW j \in 1 .. Len(q), q[j].age >= w PROVE j <= p - k
        <5>1. q[j] = rs[j + k] /\ j + k \in 1 .. Len(rs)
          BY <1>3, <1>4, <2>3, <3>1, <4>2
        <5>2. j + k <= p
          BY <3>3, <4>2, <5>1
        <5> QED  BY <4>1, <5>2
      <4>3. CASE p - k >= 1
        <5>1. p - k \in 1 .. Len(q) - 1 /\ (p - k) + k = p
          BY <1>1, <1>2, <3>3, <4>1, <4>3
        <5>2. q[p - k] = rs[p] /\ p - k \in 1 .. Len(q)
          BY <1>3, <1>6, <5>1
        <5> QED  BY <3>3, <4>2, <5>2, Zenon
      <4>4. CASE ~ (p - k >= 1)
        <5>1. ASSUME NEW j \in 1 .. Len(q) PROVE q[j].age < w
          <6>1. ~ (q[j].age >= w)
            BY <1>3, <4>1, <4>2, <4>4
          <6>2. q[j].age \in Nat
            BY <1>2, <1>3, <1>4, <3>1, <4>1
          <6> QED  BY <6>1, <6>2
        <5> QED  BY <5>1
      <4> QED  BY <4>3, <4>4
    <3> QED  BY <3>2, <3>3 DEF Topped
  <2> QED  BY <2>2, <2>3
<1> QED  BY <1>1, <1>3, <1>7, <1>8, <1>9, <1>10, <1>11, <1>12, <1>13 DEF q

LEMMA ReadingIs ==
  ASSUME NEW a \in Age, NEW b \in Age, NEW z, z = [age |-> a, behind |-> b]
  PROVE  z \in Reading /\ z.age = a /\ z.behind = b
BY DEF Reading

LEMMA CapOrder ==
  ASSUME NEW a \in Age, NEW b \in Age, NEW m \in {0, 1}, NEW c, NEW d, a >= b,
         c = (IF a + m > AgeMax THEN AgeMax ELSE a + m),
         d = (IF b + m > AgeMax THEN AgeMax ELSE b + m)
  PROVE  c >= d
BY Sizes DEF Age

LEMMA CapNewest ==
  ASSUME NEW a \in Age, NEW c, NEW x \in 0 .. Every, NEW y, NEW k \in 0 .. Poll,
         c = (IF a + 1 > AgeMax THEN AgeMax ELSE a + 1),
         y = (IF x = 0 THEN 0 ELSE x - 1),
         x > 0 => a + x <= Every, x = 0 => a <= Every + k
  PROVE  /\ y > 0 => c + y <= Every
         /\ y = 0 => c <= Every + (k + 1)
BY Sizes DEF Age

LEMMA CapSpaced ==
  ASSUME NEW a \in Age, NEW c, NEW p \in Nat, NEW x \in 0 .. Every, NEW y \in 0 .. Every,
         c = (IF a + 1 > AgeMax THEN AgeMax ELSE a + 1),
         y = (IF x = 0 THEN 0 ELSE x - 1),
         a = AgeMax \/ a >= p + (Every - x)
  PROVE  c = AgeMax \/ c >= p + (Every - y)
BY Sizes DEF Age

(* What a second does to every reading.                                    *)
Older(q, m) == [i \in DOMAIN q |-> [age |-> W!Capped(q[i].age + 1),
                                    behind |-> W!Capped(q[i].behind + m)]]

LEMMA OlderRight ==
  ASSUME NEW q \in Seq(Reading), NEW m \in {0, 1}, NEW x \in 0 .. Every, NEW y \in 0 .. Every,
         y = (IF x = 0 THEN 0 ELSE x - 1), NEW k \in 0 .. Poll,
         Spaced(q, x), Ordered(q), Topped(q)
  PROVE  /\ Older(q, m) \in Seq(Reading) /\ Len(Older(q, m)) = Len(q)
         /\ Spaced(Older(q, m), y) /\ Ordered(Older(q, m)) /\ Topped(Older(q, m))
         /\ Close(q) => Close(Older(q, m))
         /\ Newest(q, x, k) => Newest(Older(q, m), y, k + 1)
         /\ \A i \in 1 .. Len(q) : Older(q, m)[i].age = W!Capped(q[i].age + 1)
<1> DEFINE r == Older(q, m)
<1>1. /\ Every \in Nat /\ Every > 0 /\ Poll \in Nat /\ AgeMax \in Nat /\ Every <= AgeMax
      /\ Len(q) \in Nat /\ DOMAIN q = 1 .. Len(q)
  BY Sizes
<1>2. \A i \in 1 .. Len(q) : q[i].age \in Age /\ q[i].behind \in Age
  <2>1. \A i \in 1 .. Len(q) : q[i] \in Reading
    OBVIOUS
  <2> QED  BY <2>1, Zenon DEF Reading
<1>3. \A i \in 1 .. Len(q) : r[i] = [age |-> W!Capped(q[i].age + 1), behind |-> W!Capped(q[i].behind + m)]
  BY <1>1 DEF Older
<1>4. \A a \in Age, b \in {0, 1} : /\ W!Capped(a + b) \in Age
                                   /\ W!Capped(a + b) = IF a + b > AgeMax THEN AgeMax ELSE a + b
  BY <1>1 DEF W!Capped, Age
<1>5. \A i \in 1 .. Len(q) : /\ r[i] \in Reading
                             /\ r[i].age = W!Capped(q[i].age + 1)
                             /\ r[i].behind = W!Capped(q[i].behind + m)
  <2>1. \A i \in 1 .. Len(q) : W!Capped(q[i].age + 1) \in Age /\ W!Capped(q[i].behind + m) \in Age
    BY <1>2, <1>4, Zenon
  <2> SUFFICES ASSUME NEW i \in 1 .. Len(q)
               PROVE  /\ r[i] \in Reading /\ r[i].age = W!Capped(q[i].age + 1)
                      /\ r[i].behind = W!Capped(q[i].behind + m)
    BY Zenon
  <2>2. PICK a \in Age, b \in Age : a = W!Capped(q[i].age + 1) /\ b = W!Capped(q[i].behind + m)
    BY <2>1, Zenon
  <2>3. r[i] = [age |-> a, behind |-> b]
    BY <1>3, <2>2, Zenon
  <2>4. r[i] \in Reading /\ r[i].age = a /\ r[i].behind = b
    BY <2>3, ReadingIs
  <2> QED  BY <2>2, <2>4, Zenon
<1>6. r \in Seq(Reading) /\ Len(r) = Len(q)
  <2>1. r \in [1 .. Len(q) -> Reading]
    BY <1>1, <1>5, Zenon DEF Older
  <2> QED  BY <1>1, <2>1
<1> HIDE DEF r
<1>7. Spaced(r, y)
  <2> SUFFICES ASSUME NEW i \in 1 .. Len(q)
               PROVE  r[i].age = AgeMax \/ r[i].age >= (Len(q) - i) * Every + (Every - y)
    BY <1>6, Zenon DEF Spaced
  <2>1. q[i].age = AgeMax \/ q[i].age >= (Len(q) - i) * Every + (Every - x)
    BY Zenon DEF Spaced
  <2>2. (Len(q) - i) * Every \in Nat
    BY <1>1, Times
  <2>3. q[i].age \in Age /\ r[i].age = IF q[i].age + 1 > AgeMax THEN AgeMax ELSE q[i].age + 1
    BY <1>2, <1>4, <1>5, Zenon
  <2>4. PICK a \in Age, p \in Nat : a = q[i].age /\ p = (Len(q) - i) * Every
    BY <2>2, <2>3, Zenon
  <2>5. /\ r[i].age = IF a + 1 > AgeMax THEN AgeMax ELSE a + 1
        /\ a = AgeMax \/ a >= p + (Every - x)
    BY <2>1, <2>3, <2>4, Zenon
  <2>6. r[i].age = AgeMax \/ r[i].age >= p + (Every - y)
    BY <2>5, CapSpaced, Zenon
  <2> QED  BY <2>4, <2>6, Zenon
<1>8. \A i \in 1 .. Len(q) :
        /\ r[i].age = IF q[i].age + 1 > AgeMax THEN AgeMax ELSE q[i].age + 1
        /\ r[i].behind = IF q[i].behind + m > AgeMax THEN AgeMax ELSE q[i].behind + m
  BY <1>2, <1>4, <1>5, Zenon
<1>9. Ordered(r)
  <2> SUFFICES ASSUME NEW i \in 1 .. Len(q), NEW j \in 1 .. Len(q), i < j
               PROVE  r[i].age >= r[j].age /\ r[i].behind >= r[j].behind
    BY <1>6 DEF Ordered
  <2>1. q[i].age >= q[j].age /\ q[i].behind >= q[j].behind
    BY DEF Ordered
  <2>2. q[i].age \in Age /\ q[j].age \in Age /\ q[i].behind \in Age /\ q[j].behind \in Age
    BY <1>2
  <2>3. r[i].age >= r[j].age
    <3>1. /\ r[i].age = IF q[i].age + 1 > AgeMax THEN AgeMax ELSE q[i].age + 1
          /\ r[j].age = IF q[j].age + 1 > AgeMax THEN AgeMax ELSE q[j].age + 1
      BY <1>8
    <3>2. PICK a \in Age, b \in Age : a = q[i].age /\ b = q[j].age
      BY <2>2, Zenon
    <3>3. /\ r[i].age = IF a + 1 > AgeMax THEN AgeMax ELSE a + 1
          /\ r[j].age = IF b + 1 > AgeMax THEN AgeMax ELSE b + 1
          /\ a >= b
      BY <2>1, <3>1, <3>2, Zenon
    <3> QED  BY <3>3, Sizes DEF Age
  <2>4. r[i].behind >= r[j].behind
    <3>1. /\ r[i].behind = IF q[i].behind + m > AgeMax THEN AgeMax ELSE q[i].behind + m
          /\ r[j].behind = IF q[j].behind + m > AgeMax THEN AgeMax ELSE q[j].behind + m
      BY <1>8
    <3> QED  BY <2>1, <2>2, <3>1, CapOrder, Zenon
  <2> QED  BY <2>3, <2>4, Zenon
<1>10. Close(q) => Close(r)
  <2> SUFFICES ASSUME Close(q), NEW i \in 1 .. Len(q) - 1
               PROVE  r[i].age <= r[i + 1].age + Every + Poll
    BY <1>6 DEF Close
  <2>1. q[i].age <= q[i + 1].age + Every + Poll
    BY DEF Close
  <2>2. i \in 1 .. Len(q) /\ i + 1 \in 1 .. Len(q)
    BY <1>1
  <2>3. /\ q[i].age \in Age /\ q[i + 1].age \in Age
        /\ r[i].age = IF q[i].age + 1 > AgeMax THEN AgeMax ELSE q[i].age + 1
        /\ r[i + 1].age = IF q[i + 1].age + 1 > AgeMax THEN AgeMax ELSE q[i + 1].age + 1
    BY <1>2, <1>8, <2>2, Zenon
  <2>4. PICK a \in Age, b \in Age : a = q[i].age /\ b = q[i + 1].age
    BY <2>3, Zenon
  <2>5. /\ r[i].age = IF a + 1 > AgeMax THEN AgeMax ELSE a + 1
        /\ r[i + 1].age = IF b + 1 > AgeMax THEN AgeMax ELSE b + 1
        /\ a <= b + Every + Poll
    BY <2>1, <2>3, <2>4, Zenon
  <2>6. PICK c, d : c = r[i].age /\ d = r[i + 1].age
    OBVIOUS
  <2>7. /\ c = IF a + 1 > AgeMax THEN AgeMax ELSE a + 1
        /\ d = IF b + 1 > AgeMax THEN AgeMax ELSE b + 1
    BY <2>5, <2>6, Zenon
  <2>8. c <= d + Every + Poll
    BY <2>5, <2>7, Sizes DEF Age
  <2> QED  BY <2>6, <2>8, Zenon
<1>11. Newest(q, x, k) => Newest(r, y, k + 1)
  <2> SUFFICES ASSUME Newest(q, x, k), r # <<>>
               PROVE  /\ y > 0 => r[Len(r)].age + y <= Every
                      /\ y = 0 => r[Len(r)].age <= Every + (k + 1)
    BY DEF Newest
  <2>1. Len(q) \in 1 .. Len(q) /\ q # <<>>
    BY <1>1, <1>6
  <2>2. /\ x > 0 => q[Len(q)].age + x <= Every
        /\ x = 0 => q[Len(q)].age <= Every + k
    BY <2>1 DEF Newest
  <2>3. /\ q[Len(q)].age \in 0 .. AgeMax
        /\ r[Len(q)].age = IF q[Len(q)].age + 1 > AgeMax THEN AgeMax ELSE q[Len(q)].age + 1
    BY <1>2, <1>8, <2>1, Zenon DEF Age
  <2>4. PICK a \in Age : a = q[Len(q)].age
    BY <2>3, Zenon DEF Age
  <2>6. PICK c : c = r[Len(r)].age
    BY Zenon
  <2>7. /\ c = (IF a + 1 > AgeMax THEN AgeMax ELSE a + 1)
        /\ x > 0 => a + x <= Every
        /\ x = 0 => a <= Every + k
    BY <1>6, <2>2, <2>3, <2>4, <2>6, Zenon
  <2> QED  BY <2>6, <2>7, CapNewest, Zenon
<1>12. Topped(r)
  <2> SUFFICES ASSUME NEW w \in Nat
               PROVE  \/ \A i \in 1 .. Len(q) : r[i].age < w
                      \/ \E i \in 1 .. Len(q) : /\ r[i].age >= w
                                               /\ \A j \in 1 .. Len(q) : r[j].age >= w => j <= i
    BY <1>6, Zenon DEF Topped
  <2>1. \A i \in 1 .. Len(q) : r[i].age \in Nat /\ q[i].age \in Nat
    BY <1>1, <1>2, <1>8 DEF Age
  <2>2. CASE w = 0
    <3>1. CASE Len(q) = 0
      BY <3>1
    <3>2. CASE Len(q) # 0
      <4>1. Len(q) \in 1 .. Len(q) /\ \A j \in 1 .. Len(q) : j <= Len(q)
        BY <1>1, <3>2
      <4>2. \A i \in 1 .. Len(q) : r[i].age >= w
        BY <2>1, <2>2
      <4> QED  BY <4>1, <4>2, Zenon
    <3> QED  BY <3>1, <3>2, Zenon
  <2>3. CASE w # 0 /\ w <= AgeMax
    <3>1. PICK v \in Nat : w = v + 1
      <4>1. w - 1 \in Nat /\ w = (w - 1) + 1
        BY <2>3
      <4> QED  BY <4>1
    <3>2. \A i \in 1 .. Len(q) : r[i].age >= w <=> q[i].age >= v
      <4> SUFFICES ASSUME NEW i \in 1 .. Len(q) PROVE r[i].age >= w <=> q[i].age >= v
        OBVIOUS
      <4>1. PICK a \in Nat, c \in Nat : a = q[i].age /\ c = r[i].age
        BY <2>1
      <4>2. c = IF a + 1 > AgeMax THEN AgeMax ELSE a + 1
        BY <1>8, <4>1, Zenon
      <4>3. c >= w <=> a >= v
        BY <1>1, <2>3, <3>1, <4>2
      <4> QED  BY <4>1, <4>3, Zenon
    <3>3. \A i \in 1 .. Len(q) : r[i].age < w <=> q[i].age < v
      BY <2>1, <3>1, <3>2
    <3> QED  BY <3>1, <3>2, <3>3, Zenon DEF Topped
  <2>4. CASE w > AgeMax
    BY <1>1, <1>2, <1>8, <2>4 DEF Age
  <2> QED  BY <1>1, <2>2, <2>3, <2>4
<1> QED  BY <1>5, <1>6, <1>7, <1>9, <1>10, <1>11, <1>12, Zenon DEF r

-----------------------------------------------------------------------------
LEMMA EmptyIs ==
  /\ <<>> \in Seq(Reading) /\ Len(<<>>) <= Keep /\ \A x : Spaced(<<>>, x)
  /\ Ordered(<<>>) /\ Topped(<<>>) /\ Close(<<>>) /\ \A x, k : Newest(<<>>, x, k)
BY KeepIs DEF Spaced, Ordered, Topped, Close, Newest

LEMMA WindowBegin == W!Init => WindowInv
<1> SUFFICES ASSUME W!Init PROVE WindowInv
  OBVIOUS
<1>1. /\ sampled = FALSE /\ readings = <<>> /\ next = 0 /\ idle = 0 /\ up = 0 /\ failed = FALSE
  BY Zenon DEF W!Init
<1>2. 0 \in 0 .. Every /\ 0 \in 0 .. Poll /\ 0 \in Age
  BY Sizes DEF Age
<1> QED  BY <1>1, <1>2, EmptyIs, Zenon DEF WindowInv

LEMMA AttachStep == WindowInv /\ W!Attach => WindowInv'
<1> SUFFICES ASSUME WindowInv, W!Attach PROVE WindowInv'
  OBVIOUS
<1>1. sampled' = TRUE /\ readings' = <<>> /\ next' = 0 /\ idle' = Poll /\ up' = 0 /\ failed' = FALSE
  BY Zenon DEF W!Attach
<1>2. 0 \in 0 .. Every /\ Poll \in 0 .. Poll /\ 0 \in Age
  BY Sizes DEF Age
<1> QED  BY <1>1, <1>2, EmptyIs, Zenon DEF WindowInv

LEMMA RemoveStep == WindowInv /\ W!Remove => WindowInv'
<1> SUFFICES ASSUME WindowInv, W!Remove PROVE WindowInv'
  OBVIOUS
<1>1. sampled' = FALSE /\ readings' = <<>> /\ next' = next /\ idle' = idle /\ up' = up /\ failed' = failed
  BY Zenon DEF W!Remove
<1> QED  BY <1>1, EmptyIs, Zenon DEF WindowInv

LEMMA SecondStep == WindowInv /\ W!Second => WindowInv'
<1> SUFFICES ASSUME WindowInv, W!Second PROVE WindowInv'
  OBVIOUS
<1>1. PICK m \in {0, 1} : readings' = Older(readings, m)
  BY Zenon DEF W!Second, Older
<1>2. /\ next' = (IF next = 0 THEN 0 ELSE next - 1) /\ idle < Poll /\ idle' = idle + 1
      /\ up' = W!Capped(up + 1) /\ sampled' = sampled /\ failed' = failed
  BY Zenon DEF W!Second
<1>3. /\ readings \in Seq(Reading) /\ Len(readings) <= Keep /\ next \in 0 .. Every
      /\ idle \in 0 .. Poll /\ up \in Age /\ Spaced(readings, next) /\ Ordered(readings)
      /\ Topped(readings)
  BY Zenon DEF WindowInv
<1>4. next' \in 0 .. Every /\ idle' \in 0 .. Poll /\ up' \in Age
  BY <1>2, <1>3, Sizes DEF Age, W!Capped
<1>5. /\ readings' \in Seq(Reading) /\ Len(readings') = Len(readings)
      /\ Spaced(readings', next') /\ Ordered(readings') /\ Topped(readings')
      /\ Close(readings) => Close(readings')
      /\ Newest(readings, next, idle) => Newest(readings', next', idle')
      /\ \A i \in 1 .. Len(readings) : readings'[i].age = W!Capped(readings[i].age + 1)
  BY <1>1, <1>2, <1>3, <1>4, OlderRight, Zenon
<1>6. ASSUME sampled', ~failed'
      PROVE  /\ Close(readings') /\ Newest(readings', next', idle')
             /\ readings' = <<>> => up' = 0 /\ next' = 0 /\ idle' = Poll
             /\ readings' # <<>> => readings'[1].age = up' \/ Len(readings') = Keep
  <2>1. /\ Close(readings) /\ Newest(readings, next, idle)
        /\ readings = <<>> => idle = Poll
        /\ readings # <<>> => readings[1].age = up \/ Len(readings) = Keep
    BY <1>2, <1>6, Zenon DEF WindowInv
  <2>2. readings # <<>>
    <3>1. idle \in 0 .. Poll /\ idle < Poll
      BY <1>2, <1>3, Zenon
    <3>2. idle # Poll
      BY <3>1, Sizes
    <3> QED  BY <2>1, <3>2, Zenon
  <2>3. readings' # <<>> /\ 1 \in 1 .. Len(readings)
    BY <1>3, <1>5, <2>2
  <2>4. readings[1].age = up => readings'[1].age = up'
    BY <1>2, <1>5, <2>3, Zenon
  <2> QED  BY <1>5, <2>1, <2>2, <2>3, <2>4, Zenon
<1>7. Len(readings') <= Keep /\ sampled' \in BOOLEAN /\ failed' \in BOOLEAN
  BY <1>2, <1>3, <1>5, Zenon DEF WindowInv
<1> QED  BY <1>4, <1>5, <1>6, <1>7, Zenon DEF WindowInv

LEMMA Slack ==
  ASSUME NEW q \in Seq(Reading), NEW x \in 0 .. Every, Spaced(q, 0)
  PROVE  Spaced(q, x)
<1> SUFFICES ASSUME NEW i \in 1 .. Len(q)
             PROVE  q[i].age = AgeMax \/ q[i].age >= (Len(q) - i) * Every + (Every - x)
  BY DEF Spaced
<1>1. q[i].age = AgeMax \/ q[i].age >= (Len(q) - i) * Every + (Every - 0)
  BY DEF Spaced
<1>2. (Len(q) - i) * Every \in Int /\ Every \in Nat
  BY Times, Sizes
<1>3. q[i].age \in Age
  <2>1. q[i] \in Reading
    OBVIOUS
  <2> QED  BY <2>1 DEF Reading
<1>4. PICK p \in Int, a \in Age : p = (Len(q) - i) * Every /\ a = q[i].age
  BY <1>2, <1>3, Zenon
<1>5. a = AgeMax \/ a >= p + (Every - x)
  BY <1>1, <1>2, <1>4, Sizes DEF Age
<1> QED  BY <1>4, <1>5, Zenon

LEMMA LookStep == WindowInv /\ W!Look => WindowInv'
<1> SUFFICES ASSUME WindowInv, W!Look PROVE WindowInv'
  OBVIOUS
<1>1. idle' = 0 /\ sampled' = sampled /\ up' = up /\ idle > 0 /\ sampled
  BY Zenon DEF W!Look
<1>2. /\ readings \in Seq(Reading) /\ Len(readings) <= Keep /\ next \in 0 .. Every
      /\ idle \in 0 .. Poll /\ up \in Age /\ Spaced(readings, next) /\ Ordered(readings)
      /\ Topped(readings) /\ sampled \in BOOLEAN /\ failed \in BOOLEAN
  BY Zenon DEF WindowInv
<1>3. 0 \in 0 .. Poll /\ Every \in 0 .. Every /\ Every > 0 /\ Every # 0
  BY Sizes
<1>4. CASE next > 0 /\ readings' = readings /\ next' = next /\ failed' = failed
  <2>1. Newest(readings, next, idle) => Newest(readings, next, 0)
    BY <1>2, <1>4, Sizes DEF Newest
  <2>2. next # 0
    BY <1>2, <1>4
  <2>3. ASSUME sampled', ~failed'
        PROVE  /\ Close(readings') /\ Newest(readings', next', idle')
               /\ readings' = <<>> => up' = 0 /\ next' = 0 /\ idle' = Poll
               /\ readings' # <<>> => readings'[1].age = up' \/ Len(readings') = Keep
    BY <1>1, <1>4, <2>1, <2>2, <2>3, Zenon DEF WindowInv
  <2> QED  BY <1>1, <1>2, <1>3, <1>4, <2>3, Zenon DEF WindowInv
<1>5. CASE next = 0 /\ next' = Every /\ readings' = W!Push(readings) /\ failed' = failed
  <2>1. /\ readings' \in Seq(Reading) /\ Len(readings') <= Keep /\ readings' # <<>>
        /\ Spaced(readings', next') /\ Ordered(readings') /\ Topped(readings')
        /\ Newest(readings', next', idle')
        /\ \A k \in 0 .. Poll : Close(readings) /\ Newest(readings, 0, k) => Close(readings')
        /\ readings # <<>> => readings'[1] = readings[1] \/ Len(readings') = Keep
        /\ readings = <<>> => readings'[1].age = 0
    BY <1>1, <1>2, <1>5, PushRight, Zenon
  <2>2. ASSUME sampled', ~failed'
        PROVE  /\ Close(readings') /\ (readings'[1].age = up' \/ Len(readings') = Keep)
    <3>1. /\ Close(readings) /\ Newest(readings, 0, idle)
          /\ readings = <<>> => up = 0
          /\ readings # <<>> => readings[1].age = up \/ Len(readings) = Keep
      BY <1>1, <1>5, <2>2, Zenon DEF WindowInv
    <3>2. Close(readings')
      BY <1>2, <2>1, <3>1, Zenon
    <3>3. Len(readings) = Keep => Len(readings') = Keep
      <4>1. \E k \in {0, 1} : (k = 1 <=> Len(readings) = Keep) /\ Len(readings') = Len(readings) + 1 - k
        BY <1>2, <1>5, PushIs, Zenon
      <4> QED  BY <1>2, <4>1, KeepIs
    <3> QED  BY <1>1, <2>1, <3>1, <3>2, <3>3, Zenon
  <2> QED  BY <1>1, <1>2, <1>3, <1>5, <2>1, <2>2, Zenon DEF WindowInv
<1>6. CASE next = 0 /\ next' = Every /\ readings' = readings /\ failed' = TRUE
  <2>1. Spaced(readings, Every)
    BY <1>2, <1>3, <1>6, Slack, Zenon
  <2> QED  BY <1>1, <1>2, <1>3, <1>6, <2>1, Zenon DEF WindowInv
<1> QED  BY <1>4, <1>5, <1>6, Zenon DEF W!Look, Every

LEMMA WindowStep == WindowInv /\ [W!Next]_W!vars => WindowInv'
<1> SUFFICES ASSUME WindowInv, [W!Next]_W!vars PROVE WindowInv'
  OBVIOUS
<1>1. CASE UNCHANGED W!vars
  BY <1>1, Zenon DEF WindowInv, W!vars
<1> QED  BY <1>1, AttachStep, RemoveStep, SecondStep, LookStep, Zenon DEF W!Next

-----------------------------------------------------------------------------
(* The newest of the readings a window old.                                *)
LEMMA StartIs ==
  ASSUME readings \in Seq(Reading), Topped(readings), readings # <<>>, NEW s, s = W!WindowStart
  PROVE  /\ s \in 1 .. Len(readings)
         /\ \/ /\ readings[s].age >= Recently
               /\ s < Len(readings) => readings[s + 1].age < Recently
            \/ s = 1 /\ readings[1].age < Recently
<1> DEFINE old == {i \in DOMAIN readings : readings[i].age >= Recently}
<1>1. Len(readings) \in Nat /\ DOMAIN readings = 1 .. Len(readings) /\ Len(readings) >= 1
  OBVIOUS
<1>2. \A i \in 1 .. Len(readings) : readings[i].age \in Nat
  <2>1. \A i \in 1 .. Len(readings) : readings[i] \in Reading
    OBVIOUS
  <2> QED  BY <2>1, Sizes DEF Reading, Age
<1>3. s = IF old = {} THEN 1 ELSE CHOOSE i \in old : \A j \in old : j <= i
  BY DEF W!WindowStart, Recently
<1>4. CASE old = {}
  <2>1. s = 1 /\ 1 \in 1 .. Len(readings)
    BY <1>1, <1>3, <1>4
  <2>2. readings[1].age < Recently
    BY <1>1, <1>2, <1>4, <2>1, Sizes
  <2> QED  BY <2>1, <2>2
<1>5. CASE old # {}
  <2>1. old \in SUBSET (1 .. Len(readings))
    BY <1>1
  <2>2. \E i \in old : \A j \in old : j <= i
    <3>1. \E i \in old : TRUE
      BY <1>5
    <3>2. \E i \in 1 .. Len(readings) : /\ readings[i].age >= Recently
                                         /\ \A j \in 1 .. Len(readings) : readings[j].age >= Recently => j <= i
      <4>1. Recently \in Nat /\ ~ \A i \in 1 .. Len(readings) : readings[i].age < Recently
        <5>1. PICK i \in 1 .. Len(readings) : readings[i].age >= Recently
          BY <1>1, <3>1, Zenon
        <5>2. Recently \in Nat /\ ~ (readings[i].age < Recently)
          BY <1>2, <5>1, Sizes
        <5> QED  BY <5>2, Zenon
      <4> HIDE DEF old
      <4> QED  BY <4>1, Zenon DEF Topped
    <3> QED  BY <1>1, <3>2
  <2>3. s \in old /\ \A j \in old : j <= s
    <3> HIDE DEF old
    <3> QED  BY <1>3, <1>5, <2>2, Zenon
  <2>4. s \in 1 .. Len(readings) /\ readings[s].age >= Recently
    <3> QED  BY <1>1, <2>3, Zenon
  <2>5. ASSUME s < Len(readings) PROVE readings[s + 1].age < Recently
    <3>1. s + 1 \in 1 .. Len(readings) /\ ~ (s + 1 <= s)
      BY <1>1, <2>4, <2>5
    <3>2. ~ (readings[s + 1].age >= Recently)
      BY <1>1, <2>3, <3>1, Zenon
    <3> QED  BY <1>2, <3>1, <3>2, Sizes
  <2> QED  BY <2>4, <2>5
<1> QED  BY <1>4, <1>5

(* While every reading works, the history reaches back to the attach or is *)
(* full, and a full one is longer than the window.                         *)
LEMMA Reaches ==
  ASSUME WindowInv, sampled, ~failed, readings # <<>>
  PROVE  readings[1].age = up \/ readings[1].age >= Recently
<1>1. /\ readings \in Seq(Reading) /\ next \in 0 .. Every /\ Spaced(readings, next)
      /\ readings[1].age = up \/ Len(readings) = Keep
  BY Zenon DEF WindowInv
<1>2. CASE Len(readings) = Keep
  <2>1. 1 \in 1 .. Len(readings)
    BY <1>1
  <2>2. readings[1].age = AgeMax \/ readings[1].age >= (Keep - 1) * Every + (Every - next)
    BY <1>1, <1>2, <2>1 DEF Spaced
  <2>3. (Keep - 1) * Every \in Int /\ (Keep - 1) * Every > Recently
    BY KeepIs, Sizes, Times
  <2>4. readings[1].age \in Age
    <3>1. readings[1] \in Reading
      BY <1>1, <2>1
    <3> QED  BY <3>1 DEF Reading
  <2>5. PICK p \in Int, a \in Age : p = (Keep - 1) * Every /\ a = readings[1].age
    BY <2>3, <2>4, Zenon
  <2>6. a >= Recently
    BY <1>1, <2>2, <2>3, <2>5, Sizes DEF Age
  <2> QED  BY <2>5, <2>6, Zenon
<1> QED  BY <1>1, <1>2, Zenon

LEMMA WindowsHonest == WindowInv => W!WindowHonest
<1> SUFFICES ASSUME WindowInv PROVE W!CoversTheWindow /\ W!NothingIsSkipped
  BY Zenon DEF W!WindowHonest
<1>1. /\ readings \in Seq(Reading) /\ Ordered(readings) /\ Topped(readings) /\ next \in 0 .. Every
      /\ idle \in 0 .. Poll /\ up \in Age
  BY Zenon DEF WindowInv
<1>2. \A i, j \in DOMAIN readings :
        i < j => readings[i].age >= readings[j].age /\ readings[i].behind >= readings[j].behind
  <2>1. DOMAIN readings = 1 .. Len(readings)
    BY <1>1
  <2> QED  BY <1>1, <2>1, Zenon DEF Ordered
<1>3. ASSUME sampled, ~failed, readings # <<>>
      PROVE  /\ up >= Recently + Poll => W!Window.age >= Recently
             /\ W!Window.age <= Recently + Every + Poll
             /\ up < Recently => W!Window.age + Poll >= up
  <2>1. PICK s : s = W!WindowStart
    OBVIOUS
  <2>2. /\ s \in 1 .. Len(readings)
        /\ \/ /\ readings[s].age >= Recently
              /\ s < Len(readings) => readings[s + 1].age < Recently
           \/ s = 1 /\ readings[1].age < Recently
    BY <1>1, <1>3, <2>1, StartIs, Zenon
  <2>3. readings[s] \in Reading
    BY <1>1, <2>2
  <2>4. readings[s].age \in Age
    BY <2>3 DEF Reading
  <2>5. PICK a \in Age : a = readings[s].age /\ a = W!Window.age
    BY <2>1, <2>4, Zenon DEF W!Window
  <2>6. Close(readings) /\ Newest(readings, next, idle)
    BY <1>3, Zenon DEF WindowInv
  <2>7. readings[1].age = up \/ readings[1].age >= Recently
    BY <1>3, Reaches, Zenon
  <2>8. CASE s = 1 /\ readings[1].age < Recently
    <3>1. a = readings[1].age
      BY <2>5, <2>8, Zenon
    <3>2. a < Recently /\ (a = up \/ a >= Recently)
      BY <2>7, <2>8, <3>1, Zenon
    <3>3. /\ up >= Recently + Poll => a >= Recently
          /\ a <= Recently + Every + Poll
          /\ up < Recently => a + Poll >= up
      BY <1>1, <3>2, Sizes DEF Age
    <3> QED  BY <2>5, <3>3, Zenon
  <2>9. CASE readings[s].age >= Recently /\ (s < Len(readings) => readings[s + 1].age < Recently)
    <3>1. a >= Recently
      BY <2>5, <2>9, Zenon
    <3>2. a <= Recently + Every + Poll
      <4>1. CASE s = Len(readings)
        <5>1. /\ next > 0 => a + next <= Every
              /\ next = 0 => a <= Every + idle
          BY <1>3, <2>5, <2>6, <4>1, Zenon DEF Newest
        <5> QED  BY <1>1, <5>1, Sizes DEF Age
      <4>2. CASE s # Len(readings)
        <5>1. s \in 1 .. Len(readings) - 1 /\ s + 1 \in 1 .. Len(readings) /\ s < Len(readings)
          BY <1>1, <2>2, <4>2
        <5>2. readings[s].age <= readings[s + 1].age + Every + Poll /\ readings[s + 1].age < Recently
          BY <2>6, <2>9, <5>1, Zenon DEF Close
        <5>3. readings[s + 1].age \in Age
          <6>1. readings[s + 1] \in Reading
            BY <1>1, <5>1
          <6> QED  BY <6>1 DEF Reading
        <5>4. PICK b \in Age : b = readings[s + 1].age
          BY <5>3, Zenon
        <5>5. a <= b + Every + Poll /\ b < Recently
          BY <2>5, <5>2, <5>4, Zenon
        <5> QED  BY <5>5, Sizes DEF Age
      <4> QED  BY <4>1, <4>2
    <3>3. up < Recently => a + Poll >= up
      BY <1>1, <3>1, Sizes DEF Age
    <3> QED  BY <2>5, <3>1, <3>2, <3>3, Zenon
  <2> QED  BY <2>2, <2>8, <2>9, Zenon
<1> QED  BY <1>2, <1>3, Zenon DEF W!CoversTheWindow, W!NothingIsSkipped, Every, Recently

(* metrics_recent covers at least its window once the attach is that old,  *)
(* at most a sampling interval and a look more, and never skips an event   *)
(* (MetricsSamples::push and recent, main.rs), for every window, sampling  *)
(* interval and polling time.                                              *)
THEOREM WindowIsHonest == W!Spec => []WindowHonest
<1>1. W!Init => WindowInv
  BY WindowBegin
<1>2. WindowInv /\ [W!Next]_W!vars => WindowInv'
  BY WindowStep
<1>3. WindowInv => W!WindowHonest
  BY WindowsHonest
<1> QED  BY <1>1, <1>2, <1>3, PTL DEF W!Spec, WindowHonest

-----------------------------------------------------------------------------
(* SpaceBounded is not inductive: what bounds a file is the count kept of  *)
(* it, so the invariant also says how far that count may be off.           *)
Bounded == /\ handle.size <= Cap + torn
           /\ rotated # NoFile => rotated.size <= Cap + torn
           /\ handle.size <= len + torn
IndInv == TypeOK /\ Bounded

LEMMA CapBounds == Cap \in Nat /\ MaxBytes <= Cap /\ LineMax <= Cap
BY EventLogAssumption DEF Cap

LEMMA EmptyFile == Empty \in File /\ Empty.size = 0
<1>1. <<>> \in Seq(Nat)
  OBVIOUS
<1> QED BY <1>1 DEF Empty, File

LEMMA Initially == Init => IndInv
<1> SUFFICES ASSUME Init PROVE IndInv
  OBVIOUS
<1>1. TypeOK
  BY EmptyFile, Zenon DEF Init, TypeOK
<1>2. Bounded
  BY EmptyFile, CapBounds DEF Init, Bounded
<1> QED BY <1>1, <1>2 DEF IndInv

(* Writing to a file whose count l is good, and that has room or is empty, *)
(* keeps it in bounds, also when the write fails half way.                 *)
LEMMA WriteBounded ==
  ASSUME TypeOK, NEW f \in File, NEW l \in Nat, NEW n \in LineSizes,
         f.size <= l + torn, f.size <= Cap + torn,
         l + n <= MaxBytes \/ f.size = 0,
         WriteAll(f, l, n)
  PROVE  /\ handle' \in File /\ len' \in Nat /\ lines' \in Nat /\ torn' \in Nat
         /\ torn' >= torn
         /\ handle'.size <= Cap + torn' /\ handle'.size <= len' + torn'
<1>0. n \in Nat /\ n <= LineMax /\ n > 0
  BY EventLogAssumption
<1>1. f.size \in Nat /\ f.text \in Seq(Nat) /\ torn \in Nat /\ lines \in Nat
  BY DEF File, TypeOK
<1>2. CASE /\ lines' = lines + 1
           /\ handle' = [size |-> f.size + n, text |-> Append(f.text, lines + 1)]
           /\ len' = l + n /\ torn' = torn
  <2>1. Append(f.text, lines + 1) \in Seq(Nat)
    BY <1>1
  <2>2. handle'.size = f.size + n
    BY <1>2
  <2>3. f.size + n <= Cap + torn
    BY <1>0, <1>1, CapBounds, EventLogAssumption
  <2> QED BY <1>0, <1>1, <1>2, <2>1, <2>2, <2>3 DEF File
<1>3. ASSUME NEW k \in 0..n - 1,
             torn' = torn + k, handle' = [f EXCEPT !.size = @ + k], len' = l, lines' = lines
      PROVE  /\ handle' \in File /\ len' \in Nat /\ lines' \in Nat /\ torn' \in Nat
             /\ torn' >= torn
             /\ handle'.size <= Cap + torn' /\ handle'.size <= len' + torn'
  <2>1. k \in Nat
    BY <1>0
  <2>2. f.size + k \in Nat
    BY <1>1, <2>1
  <2>3. handle'.size = f.size + k
    BY <1>3 DEF File
  <2>4. handle' \in File
    BY <1>3, <2>2 DEF File
  <2> QED BY <1>1, <1>3, <2>1, <2>3, <2>4, CapBounds, SMTT(30)
<1> QED BY <1>2, <1>3 DEF WriteAll

LEMMA Preserved == IndInv /\ [Next]_vars => IndInv'
<1> SUFFICES ASSUME IndInv, [Next]_vars PROVE IndInv'
  OBVIOUS
<1> USE DEF IndInv
<1>0. /\ handle \in File /\ handle.size \in Nat /\ len \in Nat /\ torn \in Nat
      /\ MaxBytes \in Nat /\ Empty \in File /\ Empty.size = 0
  BY EventLogAssumption, EmptyFile DEF TypeOK, File
<1>r. rotated # NoFile => rotated \in File /\ rotated.size \in Nat /\ rotated.size <= Cap + torn
  BY DEF TypeOK, Bounded, File
<1>1. ASSUME NEW n \in LineSizes, AppendInPlace(n) PROVE IndInv'
  <2>0. n \in Nat
    BY EventLogAssumption
  <2>1. /\ Seen(n) \in Nat /\ handle.size <= Seen(n) + torn
        /\ Seen(n) + n <= MaxBytes \/ handle.size = 0
    BY <1>0, <1>1, <2>0 DEF AppendInPlace, Rotates, Seen, Bounded
  <2>2. /\ handle' \in File /\ len' \in Nat /\ lines' \in Nat /\ torn' \in Nat
        /\ torn' >= torn
        /\ handle'.size <= Cap + torn' /\ handle'.size <= len' + torn'
    BY <1>0, <1>1, <2>1, WriteBounded DEF AppendInPlace, Bounded
  <2>3. rotated' = rotated /\ where' = where /\ tampered' = tampered
    BY <1>1 DEF AppendInPlace
  <2>4. rotated # NoFile => rotated.size <= Cap + torn'
    BY <1>0, <1>r, <2>2, CapBounds
  <2> QED BY <2>2, <2>3, <2>4 DEF TypeOK, Bounded
<1>2. ASSUME NEW n \in LineSizes, RenameFails(n) PROVE IndInv'
  BY <1>0, <1>2, EventLogAssumption, CapBounds DEF RenameFails, Rotates, Seen, TypeOK, Bounded
<1>3. ASSUME NEW n \in LineSizes, ReopenFails(n) PROVE IndInv'
  BY <1>0, <1>3, EventLogAssumption, CapBounds DEF ReopenFails, Rotates, Seen, TypeOK, Bounded
<1>4. ASSUME NEW n \in LineSizes, Rotate(n) PROVE IndInv'
  <2>1. /\ handle' \in File /\ len' \in Nat /\ lines' \in Nat /\ torn' \in Nat
        /\ torn' >= torn
        /\ handle'.size <= Cap + torn' /\ handle'.size <= len' + torn'
    BY <1>0, <1>4, WriteBounded, CapBounds DEF Rotate, Bounded
  <2>2. /\ rotated' = IF where = "unlinked" THEN rotated ELSE handle
        /\ where' = "path" /\ tampered' = tampered
    BY <1>4 DEF Rotate
  <2>3. rotated' # NoFile => rotated'.size <= Cap + torn'
    BY <1>0, <1>r, <2>1, <2>2, CapBounds DEF Bounded
  <2> QED BY <1>0, <2>1, <2>2, <2>3 DEF TypeOK, Bounded
<1>5. ASSUME Truncate \/ Delete PROVE IndInv'
  <2>1. TypeOK'
    BY <1>0, <1>5, Zenon DEF Truncate, Delete, TypeOK
  <2>2. Bounded'
    BY <1>0, <1>5, CapBounds DEF Truncate, Delete, Bounded
  <2> QED BY <2>1, <2>2
<1>6. ASSUME Restart PROVE IndInv'
  BY <1>0, <1>6, CapBounds DEF Restart, TypeOK, Bounded
<1>7. CASE UNCHANGED vars
  BY <1>7 DEF vars, TypeOK, Bounded
<1> QED BY <1>1, <1>2, <1>3, <1>4, <1>5, <1>6, <1>7 DEF Next

(* TypeOK and Bounded hold throughout.                                     *)
THEOREM LogInvariant == Spec => []IndInv
BY Initially, Preserved, PTL DEF Spec

(* Whatever fails and whoever interferes, the log and its predecessor hold *)
(* at most twice the cap, and what failed writes left.                     *)
THEOREM SpaceStaysBounded == Spec => []SpaceBounded
<1>1. IndInv => SpaceBounded
  BY CapBounds DEF IndInv, TypeOK, Bounded, SpaceBounded, Size, File
<1> QED BY LogInvariant, <1>1, PTL

-----------------------------------------------------------------------------
(* What a reader finds.  A text is recent when it is the last lines        *)
(* written; the log being recent is all a step needs when the file in use  *)
(* is known to be its end, and a file that was renamed but not replaced    *)
(* was full when it was renamed, and does not shrink.                      *)
Recent(text, upto) == /\ Len(text) <= upto
                      /\ \A i \in 1..Len(text) : text[i] = upto - Len(text) + i
ReadInv == /\ tampered \/ where # "unlinked"
           /\ tampered \/ (Recent(Readable, lines) /\ Recent(handle.text, lines))
           /\ where = "rotated" => handle.size > 0 /\ handle.size + LineMax > MaxBytes

LEMMA RecentAppend ==
  ASSUME NEW text \in Seq(Nat), NEW upto \in Nat, Recent(text, upto)
  PROVE  Recent(Append(text, upto + 1), upto + 1)
<1> DEFINE more == Append(text, upto + 1)
<1>1. Len(more) = Len(text) + 1 /\ Len(text) \in Nat
  OBVIOUS
<1>2. \A i \in 1..Len(text) : more[i] = text[i]
  OBVIOUS
<1>3. more[Len(text) + 1] = upto + 1
  OBVIOUS
<1> HIDE DEF more
<1>4. ASSUME NEW i \in 1..Len(more) PROVE more[i] = upto + 1 - Len(more) + i
  <2>1. CASE i \in 1..Len(text)
    BY <1>1, <1>2, <2>1 DEF Recent
  <2>2. CASE i = Len(text) + 1
    BY <1>1, <1>3, <2>2
  <2> QED  BY <1>1, <2>1, <2>2
<1> QED  BY <1>1, <1>4 DEF Recent, more

LEMMA RecentNone == ASSUME NEW upto \in Nat PROVE Recent(<<>>, upto)
BY DEF Recent

LEMMA Joined ==
  ASSUME NEW a \in Seq(Nat), NEW b \in Seq(Nat), NEW x \in Nat
  PROVE  /\ a \o Append(b, x) = Append(a \o b, x)
         /\ a \o <<>> = a /\ <<>> \o b = b /\ a \o b \in Seq(Nat)
OBVIOUS

(* A reader of both files after the file in use has become text.           *)
LEMMA ReadableTyped == TypeOK => Readable \in Seq(Nat) /\ handle.text \in Seq(Nat)
<1> SUFFICES ASSUME TypeOK PROVE Readable \in Seq(Nat) /\ handle.text \in Seq(Nat)
  OBVIOUS
<1>1. handle.text \in Seq(Nat)
  BY DEF TypeOK, File
<1>2. (IF rotated = NoFile THEN <<>> ELSE rotated.text) \in Seq(Nat)
  <2>1. CASE rotated = NoFile
    BY <2>1
  <2>2. CASE rotated # NoFile
    <3>1. rotated \in File
      BY <2>2 DEF TypeOK
    <3>2. rotated.text \in Seq(Nat)
      BY <3>1 DEF File
    <3> QED  BY <2>2, <3>2
  <2> QED  BY <2>1, <2>2
<1> QED  BY <1>1, <1>2, Joined DEF Readable

(* The file f written to holds the end of what before \o f.text is.        *)
LEMMA WriteReads ==
  ASSUME TypeOK, NEW f \in File, NEW l, NEW n \in LineSizes, WriteAll(f, l, n),
         NEW before \in Seq(Nat), Recent(before \o f.text, lines), Recent(f.text, lines)
  PROVE  Recent(before \o handle'.text, lines') /\ Recent(handle'.text, lines')
<1>0. f.text \in Seq(Nat) /\ lines \in Nat
  BY DEF File, TypeOK
<1>1. CASE handle'.text = Append(f.text, lines + 1) /\ lines' = lines + 1
  <2>0. lines + 1 \in Nat
    BY <1>0
  <2>1. before \o Append(f.text, lines + 1) = Append(before \o f.text, lines + 1)
    BY <1>0, <2>0, Joined, SMTT(30)
  <2>2. Recent(Append(before \o f.text, lines + 1), lines + 1)
    BY <1>0, Joined, RecentAppend, Zenon
  <2>3. Recent(Append(f.text, lines + 1), lines + 1)
    BY <1>0, RecentAppend
  <2> QED  BY <1>1, <2>1, <2>2, <2>3, Zenon
<1>2. CASE handle'.text = f.text /\ lines' = lines
  BY <1>2
<1>3. WriteAll(f, l, n) => \/ handle'.text = Append(f.text, lines + 1) /\ lines' = lines + 1
                           \/ handle'.text = f.text /\ lines' = lines
  BY DEF WriteAll, File
<1> QED  BY <1>1, <1>2, <1>3

(* Writing never makes a file smaller.                                     *)
LEMMA WriteGrows ==
  ASSUME NEW f \in File, NEW l, NEW n \in LineSizes, WriteAll(f, l, n)
  PROVE  handle'.size >= f.size /\ handle'.size \in Nat
<1>0. f.size \in Nat /\ n \in Nat
  BY EventLogAssumption DEF File
<1>1. CASE handle' = [size |-> f.size + n, text |-> Append(f.text, lines + 1)]
  BY <1>0, <1>1
<1>2. ASSUME NEW k \in 0..n - 1, handle' = [f EXCEPT !.size = @ + k]
      PROVE  handle'.size >= f.size /\ handle'.size \in Nat
  <2>1. handle'.size = f.size + k
    BY <1>2 DEF File
  <2> QED  BY <1>0, <2>1
<1> QED  BY <1>1, <1>2 DEF WriteAll

LEMMA FullWhenRotated ==
  ASSUME TypeOK, NEW n \in LineSizes, Rotates(n)
  PROVE  handle.size > 0 /\ handle.size + LineMax > MaxBytes
BY EventLogAssumption DEF Rotates, TypeOK, File

LEMMA ReadKept ==
  ASSUME TypeOK, TypeOK', ReadInv, [Next]_vars
  PROVE  ReadInv' /\ (rotated' # rotated /\ rotated' # NoFile =>
                        rotated'.size > 0 /\ rotated'.size + LineMax > MaxBytes)
<1> DEFINE Full == rotated' # rotated /\ rotated' # NoFile =>
                     rotated'.size > 0 /\ rotated'.size + LineMax > MaxBytes
           Before == IF rotated = NoFile THEN <<>> ELSE rotated.text
<1>0. /\ handle \in File /\ handle.text \in Seq(Nat) /\ handle.size \in Nat /\ lines \in Nat
      /\ Readable \in Seq(Nat) /\ Before \in Seq(Nat) /\ Readable = Before \o handle.text
      /\ MaxBytes \in Nat /\ LineMax \in Nat
  <2>1. Before \in Seq(Nat)
    <3>1. CASE rotated = NoFile
      BY <3>1
    <3>2. CASE rotated # NoFile
      <4>1. rotated \in File
        BY <3>2 DEF TypeOK
      <4>2. rotated.text \in Seq(Nat)
        BY <4>1 DEF File
      <4> QED  BY <3>2, <4>2
    <3> QED  BY <3>1, <3>2
  <2> QED  BY <2>1, ReadableTyped, EventLogAssumption DEF TypeOK, File, Readable
<1>e. Empty \in File /\ Empty.size = 0 /\ Empty.text = <<>>
  BY EmptyFile DEF Empty
<1>r. /\ handle.text \o <<>> = handle.text /\ <<>> \o handle.text = handle.text
      /\ Recent(<<>>, lines) /\ <<>> \o <<>> = <<>>
  BY <1>0, Joined, RecentNone
<1> HIDE DEF Before
<1>1. ASSUME NEW n \in LineSizes, AppendInPlace(n) PROVE ReadInv' /\ Full
  <2>1. /\ WriteAll(handle, Seen(n), n)
        /\ where' = where /\ rotated' = rotated /\ tampered' = tampered
    BY <1>1 DEF AppendInPlace
  <2>2. handle'.size >= handle.size /\ handle'.size \in Nat
    BY <1>0, <2>1, WriteGrows
  <2>3. Readable' = Before \o handle'.text
    BY <2>1 DEF Readable, Before
  <2>4. ~tampered => Recent(Readable', lines') /\ Recent(handle'.text, lines')
    BY <1>0, <2>1, <2>3, WriteReads DEF ReadInv
  <2>5. where' = "rotated" => handle'.size > 0 /\ handle'.size + LineMax > MaxBytes
    BY <1>0, <2>1, <2>2 DEF ReadInv
  <2> QED  BY <2>1, <2>4, <2>5 DEF ReadInv
<1>2. ASSUME NEW n \in LineSizes, RenameFails(n) PROVE ReadInv' /\ Full
  BY <1>2, Zenon DEF RenameFails, ReadInv, Readable, Recent
<1>3. ASSUME NEW n \in LineSizes, ReopenFails(n) PROVE ReadInv' /\ Full
  <2>1. handle' = handle /\ lines' = lines /\ tampered' = tampered
    BY <1>3 DEF ReopenFails
  <2>2. Readable' \in {Readable, <<>> \o handle.text} /\ Full
    BY <1>3, Zenon DEF ReopenFails, Readable
  <2>3. /\ tampered \/ where' # "unlinked"
        /\ where' = "rotated" => handle.size > 0 /\ handle.size + LineMax > MaxBytes
    BY <1>3, FullWhenRotated DEF ReopenFails, ReadInv
  <2>4. tampered \/ (Recent(Readable', lines) /\ Recent(handle.text, lines))
    BY <1>r, <2>2 DEF ReadInv
  <2> QED  BY <2>1, <2>2, <2>3, <2>4 DEF ReadInv
<1>4. ASSUME NEW n \in LineSizes, Rotate(n) PROVE ReadInv' /\ Full
  <2>1. /\ rotated' = IF where = "unlinked" THEN rotated ELSE handle
        /\ where' = "path" /\ WriteAll(Empty, 0, n) /\ tampered' = tampered
    BY <1>4 DEF Rotate
  <2>2. Full
    BY <1>4, <2>1, FullWhenRotated DEF Rotate
  <2>3. tampered \/ (Recent(handle.text \o handle'.text, lines') /\ Recent(handle'.text, lines')
                      /\ Recent(<<>> \o handle'.text, lines'))
    <3>1. <<>> \in Seq(Nat)
      OBVIOUS
    <3>2. ~tampered => Recent(handle.text \o <<>>, lines) /\ Recent(<<>> \o <<>>, lines)
      BY <1>r DEF ReadInv
    <3> QED  BY <1>0, <1>e, <1>r, <2>1, <3>1, <3>2, WriteReads, Zenon
  <2>4. tampered \/ Readable' \in {handle.text \o handle'.text, <<>> \o handle'.text}
    BY <2>1, Zenon DEF ReadInv, Readable
  <2> QED  BY <2>1, <2>2, <2>3, <2>4, Zenon DEF ReadInv
<1>5. ASSUME Truncate \/ Delete PROVE ReadInv' /\ Full
  BY <1>5 DEF Truncate, Delete, ReadInv
<1>6. ASSUME Restart PROVE ReadInv' /\ Full
  <2>1. CASE /\ where = "path" /\ UNCHANGED <<handle, rotated, where, lines, tampered>>
    BY <2>1, Zenon DEF ReadInv, Readable, Recent
  <2>2. CASE /\ where # "path" /\ where' = "path" /\ handle' = Empty
             /\ rotated' = IF where = "rotated" THEN handle ELSE rotated
             /\ lines' = lines /\ tampered' = tampered
    <3>1. tampered \/ Readable' \in {handle.text \o <<>>, <<>> \o <<>>}
      BY <1>e, <2>2, Zenon DEF ReadInv, Readable, TypeOK
    <3>2. tampered \/ Recent(Readable', lines)
      BY <1>r, <3>1 DEF ReadInv
    <3>3. Full
      BY <2>2 DEF ReadInv
    <3> QED  BY <1>e, <1>r, <2>2, <3>2, <3>3 DEF ReadInv
  <2> QED  BY <1>6, <2>1, <2>2 DEF Restart
<1>7. CASE UNCHANGED vars
  BY <1>7, Zenon DEF vars, ReadInv, Readable, Recent
<1> QED  BY <1>1, <1>2, <1>3, <1>4, <1>5, <1>6, <1>7 DEF Next

(* What a reader of events_path.1 and then events_path finds, across       *)
(* failures, rotations and restarts and unless somebody tampered with the  *)
(* files, is the most recent lines, each once and in order; and append     *)
(* rotates no file away before it is full.                                 *)
THEOREM LogStaysReadable == Spec => LogReadable
<1>1. Init => ReadInv
  <2> SUFFICES ASSUME Init PROVE ReadInv
    OBVIOUS
  <2>1. handle.text = <<>> /\ Readable = <<>>
    BY DEF Init, Empty, Readable
  <2>2. Recent(<<>>, 0)
    BY RecentNone
  <2> QED  BY <2>1, <2>2 DEF Init, ReadInv
<1>2. TypeOK /\ TypeOK' /\ ReadInv /\ [Next]_vars => ReadInv'
  BY ReadKept
<1>3. TypeOK /\ TypeOK' /\ ReadInv /\ [Next]_vars
        => [rotated' # rotated /\ rotated' # NoFile =>
              rotated'.size > 0 /\ rotated'.size + LineMax > MaxBytes]_vars
  BY ReadKept
<1>4. IndInv => TypeOK
  BY DEF IndInv
<1>5. ReadInv => RecentLinesComplete
  BY DEF ReadInv, RecentLinesComplete, Recent
<1> QED  BY LogInvariant, <1>1, <1>2, <1>3, <1>4, <1>5, PTL
         DEF Spec, LogReadable, RotatesOnlyFull

-----------------------------------------------------------------------------
Phases == {"off", "probed", "policy", "tc", "attaching", "serving"}

AllLoad == \A h \in verified : U!LoadCcObject(h)

StartInv == /\ host \in U!HostRecord /\ phase \in Phases
            /\ unloaded \in BOOLEAN /\ policy \in BOOLEAN
            /\ cc # U!None /\ ~unloaded => fallback \in host.registered
            /\ AllLoad
            /\ phase = "probed" /\ changes = 0 => report = U!ProbeCapabilities(host)
            /\ phase \in {"tc", "attaching", "serving"} /\ ~policy => "policy" \in notes
            /\ phase = "serving" /\ hook = U!None /\ host.interface # "unset" => "tc" \in notes
            /\ changes \in Nat

(* A host as another one but for its algorithms.                           *)
Alike(g, h) ==
  /\ g.btf = h.btf /\ g.struct_ops = h.struct_ops /\ g.tx_start_op = h.tx_start_op
  /\ g.cc = h.cc /\ g.interface = h.interface

LEMMA Registers ==
  ASSUME NEW h \in U!HostRecord, NEW X \in SUBSET U!Algorithms
  PROVE  LET g == [h EXCEPT !.registered = X]
         IN g \in U!HostRecord /\ g.registered = X /\ Alike(g, h)
BY DEF U!HostRecord, Alike

LEMMA LoadsAlike ==
  ASSUME NEW g, NEW h, Alike(g, h)
  PROVE  U!LoadCcObject(g) = U!LoadCcObject(h) /\ U!WantedMap(g) = U!WantedMap(h)
<1>1. U!WantedMap(g) = U!WantedMap(h)
  BY DEF U!WantedMap, Alike, U!ProbeBtf
<1> QED  BY <1>1 DEF U!LoadCcObject, U!CheckObjectAbi, U!KernelLoads, Alike

LEMMA Provided ==
  ASSUME NEW h \in U!HostRecord, NEW name, NEW m \in U!Resolved(h, name)
  PROVE  /\ Provides[m] \subseteq PlainNames /\ "skyline_cc" \notin Provides[m]
         /\ \/ \E n \in h.dep : U!SameModule(n, name)
            \/ \E a \in h.alias : U!SameModule(a[1], name)
<1>1. \/ m \in h.dep /\ U!SameModule(m, name)
      \/ \E a \in h.alias : U!SameModule(a[1], name) /\ m = a[2]
  BY DEF U!Resolved
<1>2. h.dep \subseteq DOMAIN Provides /\ h.alias \subseteq PlainNames \X DOMAIN Provides
  BY DEF U!HostRecord
<1>3. m \in DOMAIN Provides
  BY <1>1, <1>2
<1>4. Provides[m] \subseteq PlainNames \ {"skyline_cc"}
  BY <1>3, StartAssumption, Zenon DEF U!StartAssumption
<1> QED  BY <1>1, <1>3, <1>4, Zenon

LEMMA Autoloads ==
  ASSUME NEW h \in U!HostRecord, NEW name
  PROVE  /\ U!Autoload(h, name) \in SUBSET U!Algorithms
         /\ h.registered \subseteq U!Autoload(h, name)
         /\ "skyline_cc" \in U!Autoload(h, name) => "skyline_cc" \in h.registered
         /\ U!KernelTakes(h, name) /\ name \notin h.registered
              => name \in PlainNames /\ U!CanLoad(h, name)
<1>1. h.registered \in SUBSET U!Algorithms
  BY DEF U!HostRecord
<1>2. \A m \in U!Resolved(h, name) : Provides[m] \subseteq U!Algorithms /\ "skyline_cc" \notin Provides[m]
  BY Provided DEF U!Algorithms
<1>3. /\ U!Autoload(h, name) \in SUBSET U!Algorithms
      /\ h.registered \subseteq U!Autoload(h, name)
      /\ "skyline_cc" \in U!Autoload(h, name) => "skyline_cc" \in h.registered
  BY <1>1, <1>2 DEF U!Autoload
<1>4. ASSUME U!KernelTakes(h, name), name \notin h.registered
      PROVE  name \in PlainNames /\ U!CanLoad(h, name)
  <2>1. ~h.disabled /\ \E m \in U!Resolved(h, name) : name \in Provides[m]
    BY <1>4 DEF U!KernelTakes, U!Autoload
  <2> QED  BY <2>1, Provided DEF U!CanLoad
<1> QED  BY <1>3, <1>4

(* The probe says what the kernel would.                                   *)
LEMMA ProbeRight ==
  ASSUME host \in U!HostRecord, host.btf = "ok", host.struct_ops, host.bpffs, host.cgroup_v2,
         U!KernelHasFq(host), U!KernelTakes(host, fallback)
  PROVE  U!ValidateCapabilities(U!ProbeCapabilities(host))
<1>1. U!FqIsAvailable(host)
  BY Zenon DEF U!FqIsAvailable, U!KernelHasFq
<1>2. U!FallbackAvailability(host, fallback) # "Missing"
  BY Autoloads DEF U!FallbackAvailability
<1>3. U!ProbeBtf(host).struct_ops
  BY Zenon DEF U!ProbeBtf
<1>4. host.btf # "absent"
  OBVIOUS
<1>5. /\ U!ProbeCapabilities(host).btf /\ U!ProbeCapabilities(host).bpffs
      /\ U!ProbeCapabilities(host).cgroup_v2 /\ U!ProbeCapabilities(host).fq_available
      /\ U!ProbeCapabilities(host).struct_ops /\ U!ProbeCapabilities(host).fallback_cc_available
      /\ DOMAIN U!ProbeCapabilities(host) = {"btf", "bpffs", "cgroup_v2", "fq_available",
                                             "struct_ops", "fallback_cc_available"}
  BY <1>1, <1>2, <1>3, <1>4, Zenon DEF U!ProbeCapabilities
<1> QED  BY <1>5 DEF U!ValidateCapabilities

(* What is said of a host is said of the value.                            *)
LEMMA LoadsAre == AllLoad' <=> \A h \in verified' : U!LoadCcObject(h)
BY DEF AllLoad, U!LoadCcObject, U!CheckObjectAbi, U!KernelLoads, U!WantedMap, U!ProbeBtf

LEMMA LoadsStay ==
  ASSUME AllLoad, verified' = verified
  PROVE  AllLoad'
BY LoadsAre, Zenon DEF AllLoad

LEMMA StartBegin ==
  ASSUME U!Init
  PROVE  StartInv
<1>1. host \in U!HostRecord
  BY StartAssumption DEF U!Init, U!StartAssumption
<1> QED  BY <1>1, Zenon DEF U!Init, StartInv, AllLoad, Phases

LEMMA ValidateOnlyStep ==
  ASSUME StartInv, U!ValidateOnly
  PROVE  StartInv'
<1>1. \A h \in verified' : U!LoadCcObject(h)
  <2>1. U!LoadCcObject(host) => U!LoadCcObject(U!Machine(host))
    <3>1. {} \in SUBSET U!Algorithms
      OBVIOUS
    <3>2. Alike(U!Machine(host), host)
      BY <3>1, Registers DEF StartInv, U!Machine
    <3> QED  BY <3>2, LoadsAlike
  <2> QED  BY <2>1 DEF StartInv, AllLoad, U!ValidateOnly, U!VerifyBpfObjects
<1>2. AllLoad'
  BY <1>1, LoadsAre
<1> QED  BY <1>2, Zenon DEF StartInv, U!ValidateOnly, Phases

(* Whatever an attach makes of the host and of skyline_cc.                 *)
LEMMA LoadStep ==
  ASSUME StartInv, U!Load
  PROVE  /\ StartInv'
         /\ enabled = U!None /\ enabled' = "refused" /\ "skyline_cc" \notin host.registered
              => U!Machine(host) \notin verified
         /\ cc' # U!None =>
              /\ host.cc.abi = "ours"
              /\ cc' = "skyline_cc_txs" <=> host.cc.txs /\ host.tx_start_op /\ host.btf = "ok"
<1> DEFINE h == [host EXCEPT !.registered = U!Autoload(host, fallback)]
<1>1. host \in U!HostRecord
  BY DEF StartInv
<1>2. /\ U!Autoload(host, fallback) \in SUBSET U!Algorithms
      /\ "skyline_cc" \in U!Autoload(host, fallback) => "skyline_cc" \in host.registered
  BY <1>1, Autoloads
<1>3. h \in U!HostRecord /\ h.registered = U!Autoload(host, fallback) /\ Alike(h, host)
  BY <1>1, <1>2, Registers
<1>4. U!LoadCcObject(h) = U!LoadCcObject(host) /\ U!WantedMap(h) = U!WantedMap(host)
  BY <1>3, LoadsAlike
<1> HIDE DEF h
<1>5. CASE ~U!KernelTakes(host, fallback)
  <2>1. enabled' = "no fallback" /\ cc' = cc /\ host' = host /\ cc = U!None
    BY <1>5, Zenon DEF U!Load
  <2>2. AllLoad'
    BY LoadsStay, Zenon DEF StartInv, U!Load
  <2>3. phase = "serving" /\ phase' = "serving"
    BY Zenon DEF U!Load
  <2> QED  BY <2>1, <2>2, <2>3, Zenon DEF StartInv, U!Load
<1>6. CASE U!KernelTakes(host, fallback)
  <2>1. /\ phase = "serving" /\ cc = U!None /\ U!AttachStructOps(h) /\ unloaded' = FALSE
        /\ UNCHANGED <<fallback, phase, report, notes, policy, hook, verified, changes>>
    BY <1>6 DEF U!Load, h
  <2>2. fallback \in h.registered
    BY <1>3, <1>6 DEF U!KernelTakes
  <2>3. CASE U!LoadCcObject(h) /\ "skyline_cc" \notin h.registered
    <3> DEFINE X == h.registered \cup {"skyline_cc"}
               g == [h EXCEPT !.registered = X]
    <3>1. cc' = U!WantedMap(h) /\ enabled' = "attached" /\ host' = g
      BY <2>1, <2>3 DEF U!AttachStructOps
    <3>2. X \in SUBSET U!Algorithms
      BY <1>2, <1>3 DEF U!Algorithms
    <3>3. g \in U!HostRecord /\ g.registered = X /\ g.interface = h.interface
      <4> HIDE DEF X
      <4> QED  BY <1>3, <3>2, Registers DEF Alike
    <3>4. h.interface = host.interface
      BY <1>3 DEF Alike
    <3> HIDE DEF g
    <3>5. StartInv'
      <4>1. AllLoad'
        BY <2>1, LoadsStay, Zenon DEF StartInv
      <4>2. fallback' \in host'.registered
        BY <2>1, <2>2, <3>1, <3>3, Zenon
      <4> QED  BY <2>1, <3>1, <3>3, <3>4, <4>1, <4>2, Zenon DEF StartInv
    <3>6. host.cc.abi = "ours"
      BY <1>4, <2>3 DEF U!LoadCcObject, U!CheckObjectAbi
    <3>7. cc' = U!WantedMap(host)
      BY <1>4, <3>1
    <3>8. U!WantedMap(host) = "skyline_cc_txs"
            <=> host.cc.txs /\ host.tx_start_op /\ host.btf = "ok"
      BY Zenon DEF U!WantedMap, U!ProbeBtf
    <3> QED  BY <3>1, <3>5, <3>6, <3>7, <3>8
  <2>4. CASE ~(U!LoadCcObject(h) /\ "skyline_cc" \notin h.registered)
    <3>1. cc' = U!None /\ enabled' = "refused" /\ host' = h
      BY <2>1, <2>4 DEF U!AttachStructOps
    <3>2. h.interface = host.interface
      BY <1>3 DEF Alike
    <3>3. StartInv'
      <4>1. AllLoad'
        BY <2>1, LoadsStay, Zenon DEF StartInv
      <4>2. host' \in U!HostRecord /\ host'.interface = host.interface
        BY <1>3, <3>1, <3>2, Zenon
      <4> QED  BY <2>1, <3>1, <4>1, <4>2, Zenon DEF StartInv
    <3>4. "skyline_cc" \notin host.registered => ~U!LoadCcObject(host)
      BY <1>2, <1>3, <1>4, <2>4
    <3>5. U!LoadCcObject(U!Machine(host)) = U!LoadCcObject(host)
      <4>1. {} \in SUBSET U!Algorithms
        OBVIOUS
      <4> QED  BY <1>1, <4>1, Registers, LoadsAlike DEF U!Machine
    <3>6. "skyline_cc" \notin host.registered => U!Machine(host) \notin verified
      BY <3>4, <3>5, Zenon DEF StartInv, AllLoad
    <3> QED  BY <3>1, <3>3, <3>6
  <2> QED  BY <2>3, <2>4
<1> QED  BY <1>5, <1>6

(* Taking skyline_cc off the list leaves the host as it is otherwise.      *)
LEMMA DrainStep ==
  ASSUME StartInv, U!Drain \/ U!Stop
  PROVE  StartInv' /\ cc' = U!None /\ enabled' = U!None
<1>1. host \in U!HostRecord
  BY DEF StartInv
<1>2. host' = host \/ \E X \in SUBSET U!Algorithms : host' = [host EXCEPT !.registered = X]
  <2>1. CASE U!Drain
    <3>1. U!Autoload(host, fallback) \ {"skyline_cc"} \in SUBSET U!Algorithms
      BY <1>1, Autoloads
    <3> QED  BY <2>1, <3>1, Zenon DEF U!Drain
  <2>2. CASE U!Stop
    <3>1. host.registered \ {"skyline_cc"} \in SUBSET U!Algorithms
      BY <1>1 DEF U!HostRecord
    <3> QED  BY <2>2, <3>1, Zenon DEF U!Stop
  <2> QED  BY <2>1, <2>2
<1>3. host' \in U!HostRecord /\ host'.interface = host.interface
  <2>1. ASSUME NEW X \in SUBSET U!Algorithms, host' = [host EXCEPT !.registered = X]
        PROVE  host' \in U!HostRecord /\ host'.interface = host.interface
    BY <1>1, <2>1, Registers, Zenon DEF Alike
  <2> QED  BY <1>1, <1>2, <2>1
<1>4. /\ cc' = U!None /\ enabled' = U!None /\ verified' = verified /\ changes' = changes
      /\ unloaded' \in BOOLEAN /\ policy' \in BOOLEAN
  BY Zenon DEF U!Drain, U!Stop, StartInv
<1>5. \/ phase' = "off"
      \/ phase = "serving" /\ phase' = "serving" /\ policy' = policy /\ hook' = hook /\ notes' = notes
  BY DEF U!Drain, U!Stop
<1>6. AllLoad'
  BY <1>4, LoadsStay, Zenon DEF StartInv
<1> QED  BY <1>3, <1>4, <1>5, <1>6, Zenon DEF StartInv, Phases

(* The host changes: algorithms go only in an unload, and the setting of   *)
(* the interface stays.                                                    *)
LEMMA ChangeIs ==
  ASSUME NEW h \in U!HostRecord
  PROVE  /\ \A g \in U!Changes(h) : /\ g \in U!HostRecord /\ h.registered \subseteq g.registered
                                    /\ g.interface = "unset" <=> h.interface = "unset"
         /\ \A g \in U!Unloads(h) : g \in U!HostRecord /\ g.interface = h.interface
<1>1. h.dep \subseteq DOMAIN Provides /\ h.registered \in SUBSET U!Algorithms
  BY DEF U!HostRecord
<1>2. \A m \in h.dep : Provides[m] \subseteq U!Algorithms
  BY <1>1, StartAssumption DEF U!StartAssumption, U!Algorithms
<1>3. ASSUME NEW m \in h.dep
      PROVE  LET g == [h EXCEPT !.registered = @ \cup Provides[m]]
             IN /\ g \in U!HostRecord /\ h.registered \subseteq g.registered
                /\ g.interface = h.interface
  <2>1. h.registered \cup Provides[m] \in SUBSET U!Algorithms
    BY <1>1, <1>2
  <2> QED  BY <2>1, Registers DEF Alike
<1>4. ASSUME NEW m \in h.dep
      PROVE  LET g == [h EXCEPT !.registered = @ \ Provides[m]]
             IN g \in U!HostRecord /\ g.interface = h.interface
  <2>1. h.registered \ Provides[m] \in SUBSET U!Algorithms
    BY <1>1, <1>2
  <2> QED  BY <2>1, Registers DEF Alike
<1>5. LET g == [h EXCEPT !.registered = @ \cup {"skyline_cc"}]
      IN g \in U!HostRecord /\ h.registered \subseteq g.registered /\ g.interface = h.interface
  <2>1. h.registered \cup {"skyline_cc"} \in SUBSET U!Algorithms
    BY <1>1 DEF U!Algorithms
  <2> QED  BY <2>1, Registers DEF Alike
<1>6. LET g == [h EXCEPT !.disabled = TRUE]
      IN g \in U!HostRecord /\ h.registered = g.registered /\ g.interface = h.interface
  BY Zenon DEF U!HostRecord
<1>7. LET g == [h EXCEPT !.dep = {}, !.alias = {}, !.fq = @ \ {"dep"}]
      IN g \in U!HostRecord /\ h.registered = g.registered /\ g.interface = h.interface
  BY Zenon DEF U!HostRecord
<1>8. LET g == [h EXCEPT !.cgroup_path = ~@]
      IN g \in U!HostRecord /\ h.registered = g.registered /\ g.interface = h.interface
  <2>1. \A b \in BOOLEAN : LET g == [h EXCEPT !.cgroup_path = b]
                           IN /\ g \in U!HostRecord /\ h.registered = g.registered
                              /\ g.interface = h.interface
    BY Zenon DEF U!HostRecord
  <2>2. (~h.cgroup_path) \in BOOLEAN
    OBVIOUS
  <2> QED  BY <2>1, <2>2, Zenon
<1>9. ASSUME NEW o \in {[abi |-> "other", txs |-> TRUE], [abi |-> "ours", txs |-> TRUE]}
      PROVE  LET g == [h EXCEPT !.cc = o]
             IN g \in U!HostRecord /\ h.registered = g.registered /\ g.interface = h.interface
  <2>1. o \in [abi : {"ours", "other", "none", "missing"}, txs : BOOLEAN]
    <3>1. /\ [abi |-> "other", txs |-> TRUE] \in [abi : {"ours", "other", "none", "missing"}, txs : BOOLEAN]
          /\ [abi |-> "ours", txs |-> TRUE] \in [abi : {"ours", "other", "none", "missing"}, txs : BOOLEAN]
      OBVIOUS
    <3> QED  BY <1>9, <3>1, Zenon
  <2> QED  BY <2>1 DEF U!HostRecord
<1>10. ASSUME NEW i \in {"ethernet", "tunnel", "missing"}
       PROVE  LET g == [h EXCEPT !.interface = i]
              IN g \in U!HostRecord /\ h.registered = g.registered /\ g.interface = i
  BY DEF U!HostRecord
<1>11. \A g \in U!Unloads(h) : g \in U!HostRecord /\ g.interface = h.interface
  <2>1. \A g \in U!Unloads(h) : \E m \in h.dep : g = [h EXCEPT !.registered = @ \ Provides[m]]
    BY Zenon DEF U!Unloads
  <2>2. ASSUME NEW g \in U!Unloads(h)
        PROVE  g \in U!HostRecord /\ g.interface = h.interface
    <3>1. PICK m \in h.dep : g = [h EXCEPT !.registered = @ \ Provides[m]]
      BY <2>1
    <3> QED  BY <1>4, <3>1
  <2> QED  BY <2>2
<1>12. ASSUME NEW g \in U!Changes(h)
       PROVE  /\ g \in U!HostRecord /\ h.registered \subseteq g.registered
              /\ g.interface = "unset" <=> h.interface = "unset"
  <2>1. \/ \E m \in h.dep : g = [h EXCEPT !.registered = @ \cup Provides[m]]
        \/ g = [h EXCEPT !.disabled = TRUE]
        \/ g = [h EXCEPT !.dep = {}, !.alias = {}, !.fq = @ \ {"dep"}]
        \/ g = [h EXCEPT !.cgroup_path = ~@]
        \/ \E o \in {[abi |-> "other", txs |-> TRUE], [abi |-> "ours", txs |-> TRUE]} :
             g = [h EXCEPT !.cc = o]
        \/ g = [h EXCEPT !.registered = @ \cup {"skyline_cc"}]
        \/ /\ h.interface # "unset"
           /\ \E i \in {"ethernet", "tunnel", "missing"} : g = [h EXCEPT !.interface = i]
    BY <1>12, Zenon DEF U!Changes
  <2>2. CASE g = [h EXCEPT !.registered = @ \cup {"skyline_cc"}]
    BY <1>5, <2>2, Zenon
  <2>3. CASE g = [h EXCEPT !.disabled = TRUE]
    BY <1>6, <2>3, Zenon
  <2>4. CASE g = [h EXCEPT !.dep = {}, !.alias = {}, !.fq = @ \ {"dep"}]
    BY <1>7, <2>4, Zenon
  <2>5. CASE g = [h EXCEPT !.cgroup_path = ~@]
    BY <1>8, <2>5, Zenon
  <2>6. CASE \E o \in {[abi |-> "other", txs |-> TRUE], [abi |-> "ours", txs |-> TRUE]} :
               g = [h EXCEPT !.cc = o]
    BY <1>9, <2>6, Zenon
  <2> QED  BY <1>3, <1>10, <2>1, <2>2, <2>3, <2>4, <2>5, <2>6, Zenon
<1> QED  BY <1>11, <1>12, Zenon

LEMMA HostStep ==
  ASSUME StartInv, U!HostChanges
  PROVE  StartInv'
<1>1. /\ host' \in U!HostRecord /\ (host'.interface = "unset" <=> host.interface = "unset")
      /\ \/ host.registered \subseteq host'.registered /\ unloaded' = unloaded
         \/ unloaded' = TRUE
  <2>1. CASE host' \in U!Changes(host) /\ unloaded' = unloaded
    BY <2>1, ChangeIs, Zenon DEF StartInv
  <2>2. CASE host' \in U!Unloads(host) /\ unloaded' = TRUE
    <3>1. host' \in U!HostRecord /\ host'.interface = host.interface
      BY <2>2, ChangeIs, Zenon DEF StartInv
    <3> QED  BY <2>2, <3>1
  <2> QED  BY <2>1, <2>2, Zenon DEF U!HostChanges
<1>2. /\ changes' = changes + 1 /\ changes \in Nat
      /\ UNCHANGED <<fallback, phase, report, notes, policy, hook, cc, verified, enabled>>
  BY DEF U!HostChanges, StartInv
<1>3. changes' # 0 /\ changes' \in Nat
  BY <1>2
<1>4. unloaded' \in BOOLEAN
  BY <1>1, Zenon DEF StartInv
<1>5. AllLoad'
  BY <1>2, LoadsStay, Zenon DEF StartInv
<1>6. (cc # U!None /\ ~unloaded => fallback \in host.registered)'
  <2>1. CASE host.registered \subseteq host'.registered /\ unloaded' = unloaded
    BY <1>2, <2>1, Zenon DEF StartInv, U!None
  <2>2. CASE unloaded' = TRUE
    BY <2>2
  <2> QED  BY <1>1, <2>1, <2>2, Zenon
<1>7. (phase = "serving" /\ hook = U!None /\ host.interface # "unset" => "tc" \in notes)'
  BY <1>1, <1>2, Zenon DEF StartInv, U!None
<1>8. /\ (phase \in {"tc", "attaching", "serving"} /\ ~policy => "policy" \in notes)'
      /\ phase' \in Phases /\ policy' \in BOOLEAN
  BY <1>2, Zenon DEF StartInv
<1> QED  BY <1>1, <1>3, <1>4, <1>5, <1>6, <1>7, <1>8, Zenon DEF StartInv, Phases

LEMMA RunStep ==
  ASSUME StartInv, U!Run
  PROVE  StartInv'
<1>1. report' = U!ProbeCapabilities(host)'
  BY Zenon DEF U!Run, U!ProbeCapabilities, U!FqIsAvailable, U!FallbackAvailability,
               U!CanLoad, U!SameModule, U!ProbeBtf
<1>2. AllLoad'
  BY LoadsStay, Zenon DEF StartInv, U!Run
<1> QED  BY <1>1, <1>2, Zenon DEF StartInv, U!Run, Phases

LEMMA StartStep ==
  ASSUME StartInv, U!Serve \/ U!StartPolicy \/ U!ReadType \/ U!LoadTcObserver
  PROVE  StartInv'
<1>l. AllLoad'
  BY LoadsStay, Zenon DEF StartInv, U!Serve, U!StartPolicy, U!ReadType, U!LoadTcObserver
<1> USE DEF StartInv, Phases
<1>1. CASE U!Serve
  BY <1>1, <1>l, Zenon DEF U!Serve
<1>2. CASE U!StartPolicy
  <2>1. policy' \in BOOLEAN /\ (~policy' => "policy" \in notes') /\ phase' = "tc"
    BY <1>2 DEF U!StartPolicy
  <2>2. UNCHANGED <<host, fallback, report, hook, cc, verified, unloaded, enabled, changes>>
    BY <1>2, Zenon DEF U!StartPolicy
  <2> QED  BY <1>l, <2>1, <2>2, Zenon
<1>3. CASE U!ReadType
  <2>1. \/ phase' = "attaching" /\ notes' = notes
        \/ phase' = "serving" /\ notes' = notes /\ host.interface = "unset"
        \/ phase' = "serving" /\ notes \subseteq notes' /\ "tc" \in notes'
    BY <1>3 DEF U!ReadType
  <2>2. /\ UNCHANGED <<host, fallback, report, policy, hook, cc, verified, unloaded, enabled, changes>>
        /\ phase = "tc"
    BY <1>3, Zenon DEF U!ReadType
  <2> QED  BY <1>l, <2>1, <2>2, Zenon
<1>4. CASE U!LoadTcObserver
  BY <1>4, <1>l, Zenon DEF U!LoadTcObserver
<1> QED  BY <1>1, <1>2, <1>3, <1>4, Zenon

LEMMA StartStays ==
  ASSUME StartInv, [U!Next]_U!vars
  PROVE  /\ StartInv'
         /\ enabled = U!None /\ enabled' = "refused" /\ "skyline_cc" \notin host.registered
              => U!Machine(host) \notin verified
         /\ cc = U!None /\ cc' # U!None =>
              /\ host.cc.abi = "ours"
              /\ cc' = "skyline_cc_txs" <=> host.cc.txs /\ host.tx_start_op /\ host.btf = "ok"
<1>1. CASE U!Load
  BY <1>1, LoadStep, Zenon
<1>2. CASE U!Drain \/ U!Stop
  <2>1. StartInv' /\ cc' = U!None /\ enabled' = U!None
    BY <1>2, DrainStep, Zenon
  <2>2. U!None # "refused"
    BY DEF U!None
  <2> QED  BY <2>1, <2>2, Zenon
<1>3. CASE U!Run \/ U!ValidateOnly \/ U!Serve \/ U!StartPolicy \/ U!ReadType \/ U!LoadTcObserver \/ U!HostChanges
  <2>1. StartInv'
    <3>1. CASE U!Run \/ U!ValidateOnly
      BY <3>1, RunStep, ValidateOnlyStep, Zenon
    <3>2. CASE U!Serve \/ U!StartPolicy \/ U!ReadType \/ U!LoadTcObserver
      BY <3>2, StartStep, Zenon
    <3>3. CASE U!HostChanges
      BY <3>3, HostStep, Zenon
    <3> QED  BY <1>3, <3>1, <3>2, <3>3, Zenon
  <2>2. cc' = cc /\ enabled' = enabled
    BY <1>3, Zenon DEF U!Run, U!ValidateOnly, U!Serve, U!StartPolicy, U!ReadType, U!LoadTcObserver, U!HostChanges
  <2>3. U!None # "refused"
    BY DEF U!None
  <2> QED  BY <2>1, <2>2, <2>3, Zenon
<1>4. CASE UNCHANGED U!vars
  <2>1. StartInv'
    <3>1. AllLoad'
      BY <1>4, LoadsStay, Zenon DEF StartInv, U!vars
    <3> QED  BY <1>4, <3>1, Zenon
             DEF U!vars, StartInv, Phases, U!ProbeCapabilities, U!FqIsAvailable,
                 U!FallbackAvailability, U!CanLoad, U!SameModule, U!ProbeBtf
  <2>2. cc' = cc /\ enabled' = enabled /\ U!None # "refused"
    BY <1>4 DEF U!vars, U!None
  <2> QED  BY <2>1, <2>2, Zenon
<1> QED  BY <1>1, <1>2, <1>3, <1>4, Zenon DEF U!Next

LEMMA StartHonest ==
  ASSUME StartInv
  PROVE  U!NoUsableHostRefused /\ U!DrainCanHandBack /\ U!NothingMissesSilently
<1>1. U!NoUsableHostRefused
  BY ProbeRight, Zenon DEF StartInv, U!NoUsableHostRefused
<1>2. U!DrainCanHandBack
  <2>1. host \in U!HostRecord /\ (cc # U!None /\ ~unloaded => fallback \in host.registered)
    BY Zenon DEF StartInv
  <2> QED  BY <2>1, Autoloads, Zenon DEF U!DrainCanHandBack, U!KernelTakes
<1>3. U!NothingMissesSilently
  BY Zenon DEF StartInv, U!NothingMissesSilently
<1> QED  BY <1>1, <1>2, <1>3

(* A start on any host (Daemon::new, serve, start_policy, start_tc) and    *)
(* every Enable after it: no host the kernel could serve is refused by the *)
(* probe, what --verify-bpf accepted attaches and through the layout the   *)
(* kernel has, a drain finds fallback_cc, and what was not started is in   *)
(* the notes, whatever else changes on the host meanwhile.                 *)
THEOREM StartIsHonest == U!Spec => StartsHonestly
<1>1. U!Init => StartInv
  BY StartBegin
<1>2. StartInv /\ [U!Next]_U!vars => StartInv'
  BY StartStays
<1>3. StartInv => U!NoUsableHostRefused /\ U!DrainCanHandBack /\ U!NothingMissesSilently
  BY StartHonest
<1>4. StartInv /\ [U!Next]_U!vars
        => [enabled = U!None /\ enabled' = "refused" /\ "skyline_cc" \notin host.registered
              => U!Machine(host) \notin verified]_U!vars
  BY StartStays
<1>5. StartInv /\ [U!Next]_U!vars
        => [cc = U!None /\ cc' # U!None =>
              /\ host.cc.abi = "ours"
              /\ cc' = "skyline_cc_txs" <=> host.cc.txs /\ host.tx_start_op /\ host.btf = "ok"]_U!vars
  BY StartStays
<1> QED  BY <1>1, <1>2, <1>3, <1>4, <1>5, PTL
         DEF StartsHonestly, U!Spec, U!StartsHonestly, U!VerifiedHostAttaches, U!AttachedObjectFits

-----------------------------------------------------------------------------
(* What the requests leave behind, wherever they end.                      *)
PagesInv == /\ attached \in BOOLEAN /\ accelerating \in BOOLEAN /\ draining \in BOOLEAN
            /\ armed \in BOOLEAN /\ rto \in BOOLEAN /\ dscp \in BOOLEAN
            /\ redundancy \in BOOLEAN /\ copying \in BOOLEAN /\ declared \in BOOLEAN
            /\ seen \in BOOLEAN
            /\ default = "skyline_cc" => attached
            /\ armed => attached
            /\ accelerating => attached
            /\ copying => attached /\ tc = "loaded"
            /\ draining => attached /\ ~accelerating /\ ~armed
            /\ dscp => tc = "loaded"
            /\ rto => sockops # "absent"

LEMMA PagesBegin ==
  ASSUME S!Init
  PROVE  PagesInv
BY Zenon DEF S!Init, PagesInv

LEMMA PagesStep ==
  ASSUME PagesInv, [S!Next]_S!vars
  PROVE  PagesInv'
<1> USE DEF PagesInv, S!daemon, S!features, S!start, S!host
<1>1. CASE S!Enable
  BY <1>1, Zenon DEF S!Enable, S!ApplyRedundancy
<1>2. CASE S!EnableNotDefault
  BY <1>2 DEF S!EnableNotDefault
<1>3. CASE S!DrainNotWritten
  BY <1>3, Zenon DEF S!DrainNotWritten
<1>4. CASE S!DrainPolicyFails
  BY <1>4, Zenon DEF S!DrainPolicyFails
<1>5. CASE S!DrainStillCopying
  BY <1>5, Zenon DEF S!DrainStillCopying
<1>6. CASE S!DrainStillAttached
  BY <1>6, Zenon DEF S!DrainStillAttached, S!ApplyRedundancy
<1>7. CASE S!DrainDone
  BY <1>7, Zenon DEF S!DrainDone, S!ApplyRedundancy
<1>8. ASSUME NEW module \in Module, S!DisableModule(module)
      PROVE  PagesInv'
  BY <1>8 DEF S!DisableModule
<1>9. ASSUME NEW on \in BOOLEAN, S!SetRackRto(on)
      PROVE  PagesInv'
  BY <1>9 DEF S!SetRackRto
<1>10. ASSUME NEW on \in BOOLEAN, S!SetRetransmitDscp(on)
      PROVE  PagesInv'
  BY <1>10 DEF S!SetRetransmitDscp
<1>11. ASSUME NEW on \in BOOLEAN, S!SetRedundancy(on)
      PROVE  PagesInv'
  BY <1>11 DEF S!SetRedundancy, S!ApplyRedundancy
<1>12. CASE S!GuardPass
  BY <1>12 DEF S!GuardPass
<1>13. CASE S!Others
  BY <1>13 DEF S!Others
<1>14. CASE S!Connections
  BY <1>14 DEF S!Connections, S!CarryingTraffic
<1>15. CASE UNCHANGED S!vars
  BY <1>15 DEF S!vars
<1> QED
  BY <1>1, <1>2, <1>3, <1>4, <1>5, <1>6, <1>7, <1>8, <1>9, <1>10, <1>11, <1>12,
     <1>13, <1>14, <1>15, Zenon DEF S!Next

(* The verdicts, by what they are of.                                      *)
LEMMA StatusIs ==
  ASSUME PagesInv
  PROVE  /\ S!CarryingTraffic => S!StatusVerdict = "ACCELERATING"
         /\ S!IsDraining => S!StatusVerdict = "DRAINING"
         /\ attached /\ ~S!CarryingTraffic /\ ~S!IsDraining => S!StatusVerdict = "ATTACHED, NOT DEFAULT"
         /\ ~attached => S!StatusVerdict = "STANDBY"
BY DEF PagesInv, S!StatusVerdict, S!CarryingTraffic, S!IsDraining

LEMMA FlowsIs ==
  ASSUME PagesInv
  PROVE  /\ S!CarryingTraffic => S!FlowsVerdict \in {"IDLE", "ACCELERATING"}
         /\ S!IsDraining => S!FlowsVerdict = "DRAINING"
         /\ attached /\ ~S!CarryingTraffic /\ ~S!IsDraining => S!FlowsVerdict = "BYPASSED"
         /\ ~attached => S!FlowsVerdict = "NOT ACCELERATING"
BY DEF PagesInv, S!FlowsVerdict, S!CarryingTraffic, S!IsDraining

LEMMA CopiesIs ==
  ASSUME PagesInv
  PROVE  /\ S!CopiesRow.mark = "Good" <=> copying
         /\ ~copying /\ redundancy /\ attached /\ ~S!IsDraining => S!CopiesRow.mark = "Warn"
         /\ S!CopiesRow.say = "stopped by the drain" => S!IsDraining
BY DEF PagesInv, S!CopiesRow, S!IsDraining

LEMMA Agree ==
  ASSUME PagesInv
  PROVE  S!ReportsAgree
BY StatusIs, FlowsIs, Zenon DEF PagesInv, S!ReportsAgree, S!ActionState, S!CarryingTraffic, S!IsDraining

LEMMA Told ==
  ASSUME PagesInv
  PROVE  /\ "not attached" \in S!Attention <=> ~attached
         /\ "bypassed" \in S!Attention <=> attached /\ ~S!CarryingTraffic /\ ~S!IsDraining
         /\ "not armed" \in S!Attention <=> attached /\ ~armed /\ ~S!IsDraining
         /\ "tc" \in S!Attention <=> tc = "failed"
         /\ "policy" \in S!Attention <=> sockops # "linked"
         /\ "rack_rto" \in S!Attention <=> declared /\ ~rto
         /\ "retransmit_dscp" \in S!Attention <=> declared /\ ~dscp
BY DEF PagesInv, S!Attention, S!DeclaredButOff, S!Notes

LEMMA DrainShown ==
  ASSUME PagesInv
  PROVE  S!DrainIsNeitherMore
<1>1. S!StatusVerdict = "DRAINING" => S!IsDraining
  BY StatusIs DEF PagesInv
<1>2. S!IsDraining => S!Attention \subseteq {"rto sees nothing"} \cup S!DeclaredButOff \cup S!Notes
  BY Zenon DEF PagesInv, S!Attention, S!IsDraining, S!CarryingTraffic
<1>3. draining /\ default = "skyline_cc" => "not armed" \in S!Attention
  BY Told, Zenon DEF PagesInv, S!IsDraining, S!CarryingTraffic
<1> QED  BY <1>1, <1>2, <1>3, Zenon DEF S!DrainIsNeitherMore

LEMMA Quiet ==
  ASSUME PagesInv
  PROVE  S!QuietIsTakenOver
BY Told, StatusIs, Zenon DEF PagesInv, S!QuietIsTakenOver

LEMMA Ticks ==
  ASSUME PagesInv
  PROVE  S!TicksCanAct
<1>1. attached => S!StatusVerdict # "STANDBY"
  BY StatusIs, Zenon DEF PagesInv, S!CarryingTraffic, S!IsDraining
<1> QED  BY <1>1, CopiesIs, Zenon DEF PagesInv, S!TicksCanAct, S!DscpRow, S!RtoRow, S!Ticked

LEMMA Copies ==
  ASSUME PagesInv
  PROVE  S!CopiesRowTrue
BY CopiesIs, Zenon DEF PagesInv, S!CopiesRowTrue, S!IsDraining

LEMMA Alarms ==
  ASSUME PagesInv
  PROVE  S!AlarmsExplained
<1>1. S!DefaultCcRow = "Bad" <=> attached /\ ~S!CarryingTraffic /\ ~S!IsDraining
  BY DEF PagesInv, S!DefaultCcRow, S!IsDraining, S!CarryingTraffic
<1>2. S!GuardCcRow = "Bad" => attached /\ ~S!CarryingTraffic /\ ~S!IsDraining
  BY DEF PagesInv, S!GuardCcRow, S!IsDraining, S!CarryingTraffic
<1>3. attached => (S!ArmedRow = "Warn" <=> attached /\ ~armed /\ ~S!IsDraining)
  BY DEF PagesInv, S!ArmedRow, S!IsDraining, S!CarryingTraffic
<1> QED  BY <1>1, <1>2, <1>3, Told, Zenon DEF S!AlarmsExplained

(* However the requests end and whatever others do to the host, the pages  *)
(* of ssctl (view.rs: status, flows, the line under an action) agree with   *)
(* each other, raise no alarm without its reason and tick nothing that     *)
(* cannot act.                                                             *)
THEOREM PagesAreTrue == S!Spec => []PagesTrue
<1>1. S!Init => PagesInv
  BY PagesBegin
<1>2. PagesInv /\ [S!Next]_S!vars => PagesInv'
  BY PagesStep
<1>3. PagesInv => S!PagesTrue
  BY Agree, DrainShown, Quiet, Ticks, Copies, Alarms DEF S!PagesTrue
<1> QED  BY <1>1, <1>2, <1>3, PTL DEF S!Spec, PagesTrue
=============================================================================
