----------------------------- MODULE PipeProofs -----------------------------
(***************************************************************************)
(* The safety of a pipe for any number of processes, any ring size and any *)
(* width of the counters that the ring size divides.                       *)
(***************************************************************************)
EXTENDS Pipe, TLAPS

-----------------------------------------------------------------------------
\* Remainders, for counters that wrap.
LEMMA DivMod ==
  ASSUME NEW U \in Nat \ {0}, NEW x \in Int
  PROVE  x \div U \in Int /\ x % U \in 0 .. U - 1 /\ x = U * (x \div U) + (x % U)
OBVIOUS

LEMMA ModSmall ==
  ASSUME NEW U \in Nat \ {0}, NEW x \in Int, 0 <= x, x < U
  PROVE  x % U = x
OBVIOUS

LEMMA ModHigh ==
  ASSUME NEW U \in Nat \ {0}, NEW x \in Int, U <= x, x < 2 * U
  PROVE  x % U = x - U
OBVIOUS

LEMMA ModLow ==
  ASSUME NEW U \in Nat \ {0}, NEW x \in Int, x < 0, x >= -U
  PROVE  x % U = x + U
OBVIOUS

\* Multiples of U are at least U apart.
LEMMA Apart ==
  ASSUME NEW U \in Nat \ {0}, NEW a \in Int, NEW b \in Int, a < b
  PROVE  U * a + U <= U * b
<1>1. \E d \in Nat : b = a + 1 + d
  <2>1. b - a - 1 \in Nat /\ b = a + 1 + (b - a - 1)
    OBVIOUS
  <2> QED BY <2>1
<1>2. PICK d \in Nat : b = a + 1 + d
  BY <1>1
<1>3. U * (a + 1 + d) = U * a + U + U * d
  OBVIOUS
<1>4. U * d >= 0
  OBVIOUS
<1>5. U * a \in Int /\ U * d \in Int
  OBVIOUS
<1> QED BY <1>2, <1>3, <1>4, <1>5

LEMMA QuotientUnique ==
  ASSUME NEW U \in Nat \ {0}, NEW q \in Int, NEW s \in Int,
         NEW r \in 0 .. U - 1, NEW t \in 0 .. U - 1, U * q + r = U * s + t
  PROVE  q = s /\ r = t
<1>1. U * q \in Int /\ U * s \in Int
  OBVIOUS
<1>2. ~(q < s)
  BY <1>1, Apart
<1>3. ~(s < q)
  BY <1>1, Apart
<1> QED BY <1>1, <1>2, <1>3

LEMMA ModUnique ==
  ASSUME NEW U \in Nat \ {0}, NEW q \in Int, NEW r \in 0 .. U - 1,
         NEW x \in Int, x = U * q + r
  PROVE  x % U = r
<1>1. PICK s \in Int, t \in 0 .. U - 1 : x = U * s + t /\ t = x % U
  BY DivMod, Zenon
<1>2. U * q + r = U * s + t
  BY <1>1
<1>3. r = t
  BY <1>2, QuotientUnique
<1> QED BY <1>1, <1>3, Zenon

\* Fewer than U consecutive numbers have different remainders.
LEMMA ModDiffers ==
  ASSUME NEW U \in Nat \ {0}, NEW x \in Int, NEW y \in Int, x < y, y < x + U
  PROVE  x % U # y % U
<1> SUFFICES ASSUME x % U = y % U PROVE FALSE
  OBVIOUS
<1>1. PICK q \in Int, r \in 0 .. U - 1 : x = U * q + r /\ r = x % U
  BY DivMod, Zenon
<1>2. PICK s \in Int : y = U * s + r
  BY DivMod, <1>1, Zenon
<1>3. U * q \in Int /\ U * s \in Int
  OBVIOUS
<1>4. ~(q < s)
  BY <1>1, <1>2, <1>3, Apart
<1>5. ~(s < q)
  BY <1>1, <1>2, <1>3, Apart
<1> QED BY <1>1, <1>2, <1>3, <1>4, <1>5

\* A counter that wraps goes on in the ring where it was, since the size of
\* the ring divides the number of its values.
LEMMA ModWraps ==
  ASSUME NEW P \in Nat \ {0}, NEW U \in Nat \ {0}, U % P = 0, NEW x \in Int
  PROVE  (x + U) % P = x % P
<1>1. PICK q \in Int, r \in 0 .. P - 1 : x = P * q + r /\ r = x % P
  BY DivMod, Zenon
<1>2. PICK s \in Int : U = P * s
  <2>1. U \in Int
    OBVIOUS
  <2>2. U \div P \in Int /\ U = P * (U \div P) + (U % P)
    BY <2>1, DivMod
  <2>3. P * (U \div P) \in Int
    BY <2>2
  <2>4. U = P * (U \div P)
    BY <2>2, <2>3
  <2> QED BY <2>2, <2>4
<1>3. P * q \in Int /\ P * s \in Int /\ P * (q + s) = P * q + P * s
  OBVIOUS
<1> DEFINE a == P * q
           b == P * s
           c == P * (q + s)
<1>4. x + U = c + r
  <2>1. a \in Int /\ b \in Int /\ c = a + b /\ x = a + r /\ U = b
    BY <1>1, <1>2, <1>3
  <2> HIDE DEF a, b, c
  <2> QED BY <2>1
<1>5. PICK y \in Int, m \in Int : y = x + U /\ m = q + s
  OBVIOUS
<1>6. y = P * m + r
  BY <1>4, <1>5
<1>7. y % P = r
  BY <1>6, ModUnique
<1> QED BY <1>1, <1>5, <1>7, Zenon

LEMMA ModMod ==
  ASSUME NEW P \in Nat \ {0}, NEW U \in Nat \ {0}, U % P = 0,
         NEW x \in Int, 0 <= x, x < 2 * U
  PROVE  (x % U) % P = x % P
<1>1. CASE x < U
  BY <1>1, ModSmall
<1>2. CASE x >= U
  <2>1. x % U = x - U
    BY <1>2, ModHigh
  <2>2. x - U \in Int /\ x = (x - U) + U
    OBVIOUS
  <2>3. ((x - U) + U) % P = (x - U) % P
    BY <2>2, ModWraps, Zenon
  <2> QED BY <2>1, <2>2, <2>3
<1> QED BY <1>1, <1>2

-----------------------------------------------------------------------------
PipeTypeOK ==
  /\ nread \in 0 .. UMAX - 1 /\ nwrite \in 0 .. UMAX - 1
  /\ data \in [0 .. PIPESIZE - 1 -> Nat]
  /\ sent \in Nat /\ rcvd \in Nat
  /\ state \in [Slot -> {"SLEEPING", "RUNNABLE", "RUNNING", "ZOMBIE"}]
  /\ chan \in [Slot -> {"none", "nread", "nwrite", "other"}]
  /\ ends \in [Slot -> SUBSET End]
  /\ call \in [Slot -> [op : {"none", "read", "write"}, left : Nat]]

\* The ring holds what was written and not read, in order.
RingHolds ==
  /\ Used = sent - rcvd /\ Used <= PIPESIZE
  /\ \A k \in 1 .. Used : ByteAt(k) = rcvd + k

\* A process in a call holds the end it uses, and has something left to do.
CallsHoldEnds ==
  \A p \in Slot :
    /\ call[p].op = "none" => call[p] = NoCall
    /\ call[p].op = "read" => "r" \in ends[p] /\ call[p].left > 0
    /\ call[p].op = "write" => "w" \in ends[p] /\ call[p].left > 0

\* The flags of the pipe tell which ends are held.
OpenIffHeld ==
  /\ readopen <=> \E p \in Slot : "r" \in ends[p]
  /\ writeopen <=> \E p \in Slot : "w" \in ends[p]
  /\ isfree <=> ~(readopen \/ writeopen)

\* Who sleeps on the pipe is in a call, and who has the CPU does not sleep.
SleepersInCall ==
  \A p \in Slot :
    /\ p = proc => state[p] = "RUNNING"
    /\ state[p] = "SLEEPING" /\ chan[p] = "nread" => call[p].op = "read"
    /\ state[p] = "SLEEPING" /\ chan[p] = "nwrite" => call[p].op = "write"

PipeInv ==
  /\ PipeTypeOK /\ RingHolds /\ CallsHoldEnds /\ OpenIffHeld /\ SleepersInCall
  /\ NoLostWakeup

-----------------------------------------------------------------------------
LEMMA CounterFacts ==
  ASSUME PipeTypeOK
  PROVE  /\ UMAX \in Nat \ {0} /\ PIPESIZE \in Nat \ {0} /\ PIPESIZE < UMAX
         /\ UMAX % PIPESIZE = 0
         /\ nwrite \in Nat /\ nread \in Nat /\ nwrite < UMAX /\ nread < UMAX
<1>1. UMAX \in Nat \ {0} /\ PIPESIZE \in Nat \ {0} /\ PIPESIZE < UMAX
  BY PipeAssumption
<1> QED BY <1>1, PipeAssumption DEF PipeTypeOK

\* The counters are apart by Used, or by that and one round.
LEMMA UsedIs ==
  ASSUME PipeTypeOK
  PROVE  Used \in 0 .. UMAX - 1 /\ (nwrite = nread + Used \/ nwrite = nread + Used - UMAX)
<1>1. UMAX \in Nat \ {0} /\ nwrite \in Nat /\ nread \in Nat /\ nwrite < UMAX /\ nread < UMAX
  BY CounterFacts, Zenon
<1>2. PICK x \in Int : x = nwrite - nread /\ Used = x % UMAX
  BY <1>1 DEF Used
<1>3. Used = x \/ Used = x + UMAX
  BY <1>1, <1>2, ModSmall, ModLow
<1>4. Used \in 0 .. UMAX - 1
  BY <1>1, <1>2, DivMod, Zenon
<1> QED BY <1>1, <1>2, <1>3, <1>4

\* Advancing nwrite adds to the bytes in the pipe, advancing nread takes away.
LEMMA AdvanceWrite ==
  ASSUME PipeTypeOK, NEW k \in Nat, Used + k < UMAX
  PROVE  /\ Advance(nwrite, k) \in 0 .. UMAX - 1
         /\ (Advance(nwrite, k) - nread) % UMAX = Used + k
<1>1. UMAX \in Nat \ {0}
  BY CounterFacts, Zenon
<1>2. nwrite \in Nat /\ nread \in Nat /\ nwrite < UMAX /\ nread < UMAX
  BY CounterFacts, Zenon
<1>3. Used \in Nat /\ (nwrite = nread + Used \/ nwrite = nread + Used - UMAX)
  BY UsedIs
<1>4. PICK w \in 0 .. UMAX - 1 : w = Advance(nwrite, k) /\ (w = nwrite + k \/ w = nwrite + k - UMAX)
  BY <1>1, <1>2, <1>3, ModSmall, ModHigh DEF Advance
<1> HIDE DEF Used, Advance
<1>5. w - nread = Used + k \/ w - nread = Used + k - UMAX \/ w - nread = Used + k - 2 * UMAX
  BY <1>1, <1>2, <1>3, <1>4
<1>6. w - nread = Used + k \/ w - nread = Used + k - UMAX
  BY <1>1, <1>2, <1>3, <1>4, <1>5
<1>7. (w - nread) % UMAX = Used + k
  BY <1>1, <1>2, <1>3, <1>4, <1>6, ModSmall, ModLow
<1> QED BY <1>4, <1>7, Zenon

LEMMA AdvanceRead ==
  ASSUME PipeTypeOK, NEW k \in Nat, k <= Used
  PROVE  /\ Advance(nread, k) \in 0 .. UMAX - 1
         /\ (nwrite - Advance(nread, k)) % UMAX = Used - k
<1>1. UMAX \in Nat \ {0}
  BY CounterFacts, Zenon
<1>2. nwrite \in Nat /\ nread \in Nat /\ nwrite < UMAX /\ nread < UMAX
  BY CounterFacts, Zenon
<1>3. Used \in 0 .. UMAX - 1 /\ (nwrite = nread + Used \/ nwrite = nread + Used - UMAX)
  BY UsedIs, Zenon
<1>4. PICK r \in 0 .. UMAX - 1 : r = Advance(nread, k) /\ (r = nread + k \/ r = nread + k - UMAX)
  BY <1>1, <1>2, <1>3, ModSmall, ModHigh DEF Advance
<1> HIDE DEF Used, Advance
<1>5. nwrite - r = Used - k \/ nwrite - r = Used - k - UMAX
  BY <1>1, <1>2, <1>3, <1>4
<1>6. (nwrite - r) % UMAX = Used - k
  BY <1>1, <1>2, <1>3, <1>4, <1>5, ModSmall, ModLow
<1> QED BY <1>4, <1>6, Zenon

\* The place in the ring x bytes after the one to be read next.
Place(x) == (nread + x) % PIPESIZE

LEMMA ReadPlace ==
  ASSUME PipeTypeOK, NEW x \in Nat, x < UMAX
  PROVE  Advance(nread, x) % PIPESIZE = Place(x)
<1>1. PICK y \in Int : y = nread + x /\ 0 <= y /\ y < 2 * UMAX
  BY CounterFacts
<1>2. (y % UMAX) % PIPESIZE = y % PIPESIZE
  BY <1>1, CounterFacts, ModMod, Zenon
<1> QED BY <1>1, <1>2, Zenon DEF Advance, Place

LEMMA WritePlace ==
  ASSUME PipeTypeOK, NEW m \in Nat, m < UMAX
  PROVE  Advance(nwrite, m) % PIPESIZE = Place(Used + m)
<1>1. PICK y \in Int : y = nwrite + m /\ 0 <= y /\ y < 2 * UMAX
  BY CounterFacts
<1>2. (y % UMAX) % PIPESIZE = y % PIPESIZE
  BY <1>1, CounterFacts, ModMod, Zenon
<1>3. PICK u \in Nat : u = Used /\ (nwrite = nread + u \/ nwrite = nread + u - UMAX)
  BY UsedIs
<1>4. PICK z \in Int : z = nread + (u + m) /\ (y = z \/ y + UMAX = z)
  BY <1>1, <1>3, CounterFacts
<1>5. y % PIPESIZE = z % PIPESIZE
  BY <1>4, CounterFacts, ModWraps, Zenon
<1> QED BY <1>1, <1>2, <1>3, <1>4, <1>5, Zenon DEF Advance, Place

LEMMA PlacesDiffer ==
  ASSUME PipeTypeOK, NEW x \in 0 .. PIPESIZE - 1, NEW y \in 0 .. PIPESIZE - 1, x # y
  PROVE  Place(x) # Place(y)
<1>1. PICK a \in Int, b \in Int : a = nread + x /\ b = nread + y
  BY CounterFacts
<1>2. CASE a < b
  BY <1>1, <1>2, CounterFacts, ModDiffers DEF Place
<1>3. CASE b < a
  BY <1>1, <1>3, CounterFacts, ModDiffers DEF Place
<1> QED BY <1>1, <1>2, <1>3, CounterFacts

LEMMA PlaceInRing ==
  ASSUME PipeTypeOK, NEW x \in Nat
  PROVE  Place(x) \in 0 .. PIPESIZE - 1
<1>1. PICK a \in Int : a = nread + x
  BY CounterFacts
<1> QED BY <1>1, CounterFacts, DivMod, Zenon DEF Place

\* k bytes written into the ring follow those that were there, which stay.
LEMMA WriteRing ==
  ASSUME PipeTypeOK, RingHolds, NEW k \in Nat, Used + k <= PIPESIZE,
         nwrite' = Advance(nwrite, k),
         data' = RingAfter(k),
         sent' = sent + k,
         UNCHANGED <<nread, rcvd>>
  PROVE  /\ RingHolds' /\ Used' = Used + k
         /\ nwrite' \in 0 .. UMAX - 1 /\ sent' \in Nat
         /\ data' \in [0 .. PIPESIZE - 1 -> Nat]
<1>1. PICK u \in Nat : u = Used /\ u + k <= PIPESIZE /\ u + k < UMAX /\ u = sent - rcvd
  BY UsedIs, CounterFacts DEF RingHolds
<1>2. nwrite' \in 0 .. UMAX - 1 /\ Used' = u + k
  <2>1. nwrite' \in 0 .. UMAX - 1 /\ (nwrite' - nread) % UMAX = u + k
    BY <1>1, AdvanceWrite, Zenon
  <2> QED BY <2>1, Zenon DEF Used
<1>3. sent \in Nat /\ rcvd \in Nat
  BY Zenon DEF PipeTypeOK
<1>4. \A m \in 0 .. k - 1 : Advance(nwrite, m) % PIPESIZE = Place(u + m)
  BY <1>1, WritePlace, CounterFacts
<1>5. data' = [j \in 0 .. PIPESIZE - 1 |->
                 IF \E m \in 0 .. k - 1 : Place(u + m) = j
                   THEN sent + 1 + (CHOOSE m \in 0 .. k - 1 :
                                      Advance(nwrite, m) % PIPESIZE = j)
                   ELSE data[j]]
  BY <1>4, Zenon DEF RingAfter
<1>6. ASSUME NEW m \in 0 .. k - 1
      PROVE  data'[Place(u + m)] = sent + 1 + m
  <2>1. Place(u + m) \in 0 .. PIPESIZE - 1
    BY <1>1, PlaceInRing
  <2>2. \A n \in 0 .. k - 1 : Advance(nwrite, n) % PIPESIZE = Place(u + m) => n = m
    BY <1>1, <1>4, PlacesDiffer, CounterFacts
  <2>3. (CHOOSE n \in 0 .. k - 1 : Advance(nwrite, n) % PIPESIZE = Place(u + m)) = m
    BY <1>4, <2>2, Zenon
  <2> QED BY <1>5, <2>1, <2>3, Zenon
<1>7. ASSUME NEW x \in 0 .. u - 1
      PROVE  data'[Place(x)] = data[Place(x)]
  <2>1. Place(x) \in 0 .. PIPESIZE - 1
    BY <1>1, PlaceInRing
  <2>2. \A m \in 0 .. k - 1 : Place(u + m) # Place(x)
    BY <1>1, PlacesDiffer, CounterFacts
  <2> QED BY <1>5, <2>1, <2>2, Zenon
<1>8. ASSUME NEW j \in 1 .. PIPESIZE
      PROVE  ByteAt(j) = data[Place(j - 1)] /\ ByteAt(j)' = data'[Place(j - 1)]
  <2>1. PICK x \in Nat : x = j - 1 /\ x < UMAX
    BY CounterFacts
  <2>2. Advance(nread, x) % PIPESIZE = Place(x)
    BY <2>1, ReadPlace, Zenon
  <2>3. (nread' + x) % UMAX = (nread + x) % UMAX
    OBVIOUS
  <2> QED BY <2>1, <2>2, <2>3, Zenon DEF ByteAt, Advance
<1>9. ASSUME NEW j \in 1 .. u + k PROVE ByteAt(j)' = rcvd + j
  <2>1. j \in 1 .. PIPESIZE
    BY <1>1, CounterFacts
  <2>2. CASE j <= u
    <3>1. ByteAt(j) = rcvd + j /\ j - 1 \in 0 .. u - 1
      BY <1>1, <2>2 DEF RingHolds
    <3> QED BY <1>7, <1>8, <2>1, <3>1, Zenon
  <2>3. CASE j > u
    <3>1. j - 1 - u \in 0 .. k - 1 /\ j - 1 = u + (j - 1 - u)
      BY <2>3
    <3>2. PICK m \in 0 .. k - 1 : j - 1 = u + m
      BY <3>1, Zenon
    <3>3. ByteAt(j)' = sent + 1 + m
      BY <1>6, <1>8, <2>1, <3>2, Zenon
    <3>4. sent = rcvd + u
      BY <1>1, <1>3
    <3> QED BY <1>3, <3>2, <3>3, <3>4
  <2> QED BY <2>2, <2>3, <1>1
<1>10. data' \in [0 .. PIPESIZE - 1 -> Nat]
  <2>1. \A j \in 0 .. PIPESIZE - 1 : data'[j] \in Nat
    <3> SUFFICES ASSUME NEW j \in 0 .. PIPESIZE - 1 PROVE data'[j] \in Nat
      OBVIOUS
    <3>1. CASE \E m \in 0 .. k - 1 : Place(u + m) = j
      <4>1. PICK m \in 0 .. k - 1 : Place(u + m) = j
        BY <3>1, Zenon
      <4>2. data'[j] = sent + 1 + m
        BY <1>6, <4>1, Zenon
      <4> QED BY <1>3, <4>2
    <3>2. CASE ~\E m \in 0 .. k - 1 : Place(u + m) = j
      BY <1>5, <3>2, Zenon DEF PipeTypeOK
    <3> QED BY <3>1, <3>2, Zenon
  <2>2. data' = [j \in 0 .. PIPESIZE - 1 |-> data'[j]]
    BY <1>5, Zenon
  <2> QED BY <2>1, <2>2, Zenon
<1> QED BY <1>1, <1>2, <1>3, <1>9, <1>10 DEF RingHolds

\* k bytes read leave the others where they were.
LEMMA ReadRing ==
  ASSUME PipeTypeOK, RingHolds, NEW k \in Nat, k <= Used,
         nread' = Advance(nread, k), rcvd' = rcvd + k,
         UNCHANGED <<nwrite, data, sent>>
  PROVE  /\ RingHolds' /\ Used' = Used - k
         /\ nread' \in 0 .. UMAX - 1 /\ rcvd' \in Nat
<1>1. PICK u \in Nat : u = Used /\ k <= u /\ u <= PIPESIZE /\ u < UMAX /\ u = sent - rcvd
  BY UsedIs, CounterFacts DEF RingHolds
<1>2. nread' \in 0 .. UMAX - 1 /\ Used' = u - k
  <2>1. nread' \in 0 .. UMAX - 1 /\ (nwrite - nread') % UMAX = u - k
    BY <1>1, AdvanceRead, Zenon
  <2> QED BY <2>1, Zenon DEF Used
<1>3. sent \in Nat /\ rcvd \in Nat
  BY Zenon DEF PipeTypeOK
<1>4. nread' = nread + k \/ nread' + UMAX = nread + k
  <2>1. PICK a \in Int : a = nread + k /\ 0 <= a /\ a < 2 * UMAX
    BY <1>1, CounterFacts
  <2>2. a % UMAX = a \/ a % UMAX = a - UMAX
    BY <2>1, CounterFacts, ModSmall, ModHigh
  <2> QED BY <2>1, <2>2, CounterFacts DEF Advance
<1>5. ASSUME NEW j \in 1 .. u - k PROVE ByteAt(j)' = ByteAt(k + j)
  <2>1. PICK y \in Int, x \in Nat :
          y = nread' + (j - 1) /\ 0 <= y /\ y < 2 * UMAX /\ x = k + j - 1 /\ x < UMAX
    BY <1>1, <1>2, CounterFacts
  <2>2. (y % UMAX) % PIPESIZE = y % PIPESIZE
    BY <2>1, CounterFacts, ModMod, Zenon
  <2>3. PICK z \in Int : z = nread + x /\ (y = z \/ y + UMAX = z)
    BY <1>2, <1>4, <2>1, CounterFacts
  <2>4. y % PIPESIZE = z % PIPESIZE
    BY <2>3, CounterFacts, ModWraps, Zenon
  <2>5. Advance(nread, x) % PIPESIZE = z % PIPESIZE
    BY <2>1, <2>3, ReadPlace, Zenon DEF Place
  <2>6. ByteAt(j)' = data[(y % UMAX) % PIPESIZE]
    BY <2>1, Zenon DEF ByteAt, Advance
  <2>7. ByteAt(k + j) = data[Advance(nread, x) % PIPESIZE]
    BY <2>1 DEF ByteAt
  <2> QED BY <2>2, <2>4, <2>5, <2>6, <2>7, Zenon
<1>6. ASSUME NEW j \in 1 .. u - k PROVE ByteAt(j)' = rcvd' + j
  <2>1. k + j \in 1 .. u
    BY <1>1
  <2>2. ByteAt(k + j) = rcvd + (k + j)
    BY <1>1, <2>1, Zenon DEF RingHolds
  <2> QED BY <1>3, <1>5, <2>2
<1>7. Used' = sent' - rcvd' /\ Used' <= PIPESIZE
  BY <1>1, <1>2, <1>3, CounterFacts
<1>8. \A j \in 1 .. Used' : ByteAt(j)' = rcvd' + j
  BY <1>2, <1>6, Zenon
<1> QED BY <1>1, <1>2, <1>3, <1>7, <1>8 DEF RingHolds

-----------------------------------------------------------------------------
\* After a call of scheduler() with states st and channels ch, who sleeps was
\* asleep before, on the same channel, and who has the CPU runs.
Scheduled(st, ch) ==
  /\ state' \in [Slot -> {"SLEEPING", "RUNNABLE", "RUNNING", "ZOMBIE"}]
  /\ chan' \in [Slot -> {"none", "nread", "nwrite", "other"}]
  /\ \A p \in Slot : p = proc' => state'[p] = "RUNNING"
  /\ \A p \in Slot : state'[p] = "SLEEPING" => st[p] = "SLEEPING" /\ chan'[p] = ch[p]

LEMMA SchedulerSchedules ==
  ASSUME NEW st \in [Slot -> {"SLEEPING", "RUNNABLE", "RUNNING", "ZOMBIE"}],
         NEW ch \in [Slot -> {"none", "nread", "nwrite", "other"}],
         scheduler(st, ch)
  PROVE  Scheduled(st, ch)
<1> DEFINE ready == {p \in Slot : st[p] = "RUNNABLE"}
<1>1. CASE ready = {}
  <2>1. proc' = NoProc /\ state' = st /\ chan' = ch
    BY <1>1, Zenon DEF scheduler
  <2>2. NoProc \notin Slot
    BY DEF NoProc, Slot
  <2> QED BY <2>1, <2>2, Zenon DEF Scheduled
<1>2. CASE ready # {}
  <2> DEFINE m == Min(ready)
  <2>1. /\ proc' = m
        /\ state' = [p \in Slot |-> IF p = m THEN "RUNNING" ELSE st[p]]
        /\ chan' = [ch EXCEPT ![m] = "none"]
    BY <1>2, Zenon DEF scheduler
  <2> HIDE DEF m
  <2> QED BY <2>1, Zenon DEF Scheduled
<1> QED BY <1>1, <1>2, Zenon

\* The process that has the CPU keeps it while it wakes others, in states st.
LEMMA KeepRunningSchedules ==
  ASSUME PipeTypeOK, SleepersInCall,
         NEW st \in [Slot -> {"SLEEPING", "RUNNABLE", "RUNNING", "ZOMBIE"}],
         \A p \in Slot : state[p] = "RUNNING" => st[p] = "RUNNING",
         KeepRunning(st)
  PROVE  Scheduled(st, chan)
BY Zenon DEF KeepRunning, Scheduled, PipeTypeOK, SleepersInCall

LEMMA WakeupStates ==
  ASSUME NEW st \in [Slot -> {"SLEEPING", "RUNNABLE", "RUNNING", "ZOMBIE"}], NEW c
  PROVE  /\ wakeup(st, c) \in [Slot -> {"SLEEPING", "RUNNABLE", "RUNNING", "ZOMBIE"}]
         /\ \A p \in Slot : st[p] = "RUNNING" => wakeup(st, c)[p] = "RUNNING"
         /\ \A p \in Slot : wakeup(st, c)[p] = "SLEEPING" =>
              st[p] = "SLEEPING" /\ chan[p] # c
BY Zenon DEF wakeup

LEMMA MinOfTwo ==
  ASSUME NEW a \in Int, NEW b \in Int
  PROVE  Min({a, b}) = IF a <= b THEN a ELSE b
BY DEF Min

-----------------------------------------------------------------------------
\* What a step of p has to do about sleep and calls, so that nobody sleeps
\* whom it should have woken.
LEMMA SleepStep ==
  ASSUME PipeInv, NEW p \in Slot, NEW st, NEW ch, Scheduled(st, ch), 
         \A q \in Slot \ {p} : st[q] = "SLEEPING" => 
            /\ state[q] = "SLEEPING" /\ ch[q] = chan[q]
            /\ ch[q] = "nread" => Used' = 0 /\ writeopen'
            /\ ch[q] = "nwrite" => Used' = PIPESIZE /\ readopen',
         \A q \in Slot \ {p} : call'[q] = call[q],
         st[p] = "SLEEPING" => 
            /\ ch[p] = "nread" => Used' = 0 /\ writeopen' /\ call'[p].op = "read"
            /\ ch[p] = "nwrite" => Used' = PIPESIZE /\ readopen' /\ call'[p].op = "write"
  PROVE  SleepersInCall' /\ NoLostWakeup'
<1>1. SleepersInCall'
  BY DEF SleepersInCall, Scheduled, PipeInv
<1>2. NoLostWakeup'
  BY DEF NoLostWakeup, Scheduled
<1> QED BY <1>1, <1>2, Zenon

LEMMA InitPipeInv == Init => PipeInv
<1> SUFFICES ASSUME Init PROVE PipeInv
  OBVIOUS
<1>1. UMAX \in Nat \ {0} /\ PIPESIZE \in Nat \ {0}
  BY PipeAssumption
<1>2. PipeTypeOK
  BY <1>1, EndsAssumption DEF Init, PipeTypeOK, NoCall
<1>3. Used = 0
  BY <1>1, ModSmall DEF Init, Used
<1>4. RingHolds
  BY <1>1, <1>3 DEF Init, RingHolds
<1>5. CallsHoldEnds /\ SleepersInCall /\ NoLostWakeup
  BY Zenon DEF Init, CallsHoldEnds, SleepersInCall, NoLostWakeup, NoCall
<1>6. OpenIffHeld
  <2>1. readopen = TRUE /\ writeopen = TRUE /\ isfree = FALSE
    BY Zenon DEF Init
  <2>2. /\ \E p \in Slot : "r" \in ends[p]
        /\ \E p \in Slot : "w" \in ends[p]
    BY Zenon DEF Init, End
  <2> QED BY <2>1, <2>2, Zenon DEF OpenIffHeld
<1> QED BY <1>2, <1>4, <1>5, <1>6, Zenon DEF PipeInv

-----------------------------------------------------------------------------
\* pipewrite(), from its start or from a sleep() on: bytes go in behind the
\* others, and readers that sleep are told unless there can be none.
LEMMA WriteKeeps ==
  ASSUME PipeInv, NEW p \in Slot, p = proc, "w" \in ends[p],
         NEW left \in Nat \ {0}, WriteLoop(p, left)
  PROVE  PipeInv'
<1>1. PipeTypeOK /\ RingHolds /\ CallsHoldEnds /\ OpenIffHeld /\ SleepersInCall /\ NoLostWakeup
  BY Zenon DEF PipeInv
<1>2. PICK u \in Nat : u = Used /\ u <= PIPESIZE /\ Room = PIPESIZE - u
  BY <1>1, UsedIs, CounterFacts DEF RingHolds, Room
<1>3. PICK k \in Nat : /\ k = Min({left, Room}) /\ k <= left /\ u + k <= PIPESIZE
                       /\ k < left => u + k = PIPESIZE
  <2>1. left \in Int /\ Room \in Int /\ PIPESIZE \in Nat
    BY <1>1, <1>2, CounterFacts
  <2> QED BY <1>2, <2>1, MinOfTwo
<1>4. /\ nwrite' = Advance(nwrite, k) /\ data' = RingAfter(k) /\ sent' = sent + k
      /\ UNCHANGED <<nread, readopen, writeopen, isfree, ends, rcvd>>
      /\ \/ /\ k = left
            /\ KeepRunning(wakeup(state, "nread"))
            /\ EndCall(p)
         \/ /\ k < left /\ ~readopen
            /\ EndCall(p)
            /\ UNCHANGED sched
         \/ /\ k < left /\ readopen
            /\ SetCall(p, "write", left - k)
            /\ sleep(p, "nwrite", wakeup(state, "nread"))
  BY <1>3, Zenon DEF WriteLoop
<1>5. /\ RingHolds' /\ Used' = u + k
      /\ nwrite' \in 0 .. UMAX - 1 /\ sent' \in Nat
      /\ data' \in [0 .. PIPESIZE - 1 -> Nat]
  BY <1>1, <1>2, <1>3, <1>4, WriteRing, Zenon
<1>6. OpenIffHeld'
  BY <1>1, <1>4, Zenon DEF OpenIffHeld
<1>7. writeopen /\ state[p] = "RUNNING"
  BY <1>1, Zenon DEF OpenIffHeld, SleepersInCall
<1>8. /\ call' \in [Slot -> [op : {"none", "read", "write"}, left : Nat]]
      /\ CallsHoldEnds' 
      /\ \A q \in Slot \ {p} : call'[q] = call[q]
  <2>1. CASE EndCall(p)
    BY <1>1, <1>4, <2>1, Zenon DEF EndCall, NoCall, PipeTypeOK, CallsHoldEnds
  <2>2. CASE k < left /\ SetCall(p, "write", left - k)
    <3>1. left - k \in Nat /\ left - k > 0
      BY <2>2
    <3> QED BY <1>1, <1>4, <2>2, <3>1, Zenon DEF SetCall, PipeTypeOK, CallsHoldEnds
  <2> QED BY <1>4, <2>1, <2>2, Zenon
<1>9. SleepersInCall' /\ NoLostWakeup' /\ \E st, ch : Scheduled(st, ch)
  <2> DEFINE st == wakeup(state, "nread")
  <2>1. /\ st \in [Slot -> {"SLEEPING", "RUNNABLE", "RUNNING", "ZOMBIE"}]
        /\ \A q \in Slot : state[q] = "RUNNING" => st[q] = "RUNNING"
        /\ \A q \in Slot : st[q] = "SLEEPING" => state[q] = "SLEEPING" /\ chan[q] # "nread"
    BY <1>1, WakeupStates, Zenon DEF PipeTypeOK
  <2>2. ASSUME NEW q \in Slot, state[q] = "SLEEPING", chan[q] = "nwrite"
        PROVE  Used' = PIPESIZE /\ readopen'
    <3>1. u = PIPESIZE /\ readopen
      BY <1>1, <1>2, <2>2, Zenon DEF NoLostWakeup
    <3> QED BY <1>3, <1>4, <1>5, <3>1, CounterFacts, <1>1
  <2> HIDE DEF st
  <2>3. CASE KeepRunning(st)
    <3>1. Scheduled(st, chan)
      BY <1>1, <2>1, <2>3, KeepRunningSchedules, Zenon
    <3>2. \A q \in Slot \ {p} : st[q] = "SLEEPING" =>
            /\ state[q] = "SLEEPING" 
            /\ chan[q] = "nread" => Used' = 0 /\ writeopen'
            /\ chan[q] = "nwrite" => Used' = PIPESIZE /\ readopen'
      BY <2>1, <2>2, Zenon
    <3>3. st[p] # "SLEEPING"
      BY <1>7, <2>1, Zenon
    <3> QED BY <1>8, <3>1, <3>2, <3>3, SleepStep, Zenon
  <2>4. CASE ~readopen /\ UNCHANGED sched
    <3>1. Scheduled(state, chan)
      BY <1>1, <2>4, Zenon DEF sched, Scheduled, PipeTypeOK, SleepersInCall
    <3>2. \A q \in Slot : state[q] = "SLEEPING" => chan[q] # "nread"
      BY <1>1, <2>4, Zenon DEF SleepersInCall, CallsHoldEnds, OpenIffHeld
    <3>3. \A q \in Slot \ {p} : state[q] = "SLEEPING" =>
            /\ chan[q] = "nread" => Used' = 0 /\ writeopen'
            /\ chan[q] = "nwrite" => Used' = PIPESIZE /\ readopen'
      BY <2>2, <3>2, Zenon
    <3> QED BY <1>7, <1>8, <3>1, <3>3, SleepStep, Zenon
  <2>5. CASE k < left /\ readopen /\ SetCall(p, "write", left - k) /\ sleep(p, "nwrite", st)
    <3> DEFINE s2 == [q \in Slot |-> IF q = p THEN "SLEEPING" ELSE st[q]]
               c2 == [chan EXCEPT ![p] = "nwrite"]
    <3>1. s2 \in [Slot -> {"SLEEPING", "RUNNABLE", "RUNNING", "ZOMBIE"}]
      BY <2>1, Zenon
    <3>2. c2 \in [Slot -> {"none", "nread", "nwrite", "other"}]
      BY <1>1, Zenon DEF PipeTypeOK
    <3>3. scheduler(s2, c2)
      BY <2>5, Zenon DEF sleep
    <3>4. /\ \A q \in Slot \ {p} : s2[q] = st[q] /\ c2[q] = chan[q]
          /\ s2[p] = "SLEEPING" /\ c2[p] = "nwrite"
      BY <1>1, Zenon DEF PipeTypeOK
    <3> HIDE DEF s2, c2
    <3>5. Scheduled(s2, c2)
      BY <3>1, <3>2, <3>3, SchedulerSchedules, Zenon
    <3>6. call'[p].op = "write"
      BY <1>1, <2>5, Zenon DEF SetCall, PipeTypeOK
    <3>7. Used' = PIPESIZE /\ readopen'
      BY <1>3, <1>4, <1>5, <2>5, Zenon
    <3>8. \A q \in Slot \ {p} : s2[q] = "SLEEPING" =>
            /\ state[q] = "SLEEPING" /\ c2[q] = chan[q]
            /\ c2[q] = "nread" => Used' = 0 /\ writeopen'
            /\ c2[q] = "nwrite" => Used' = PIPESIZE /\ readopen'
      BY <2>1, <3>4, <3>7
    <3> QED BY <1>8, <3>4, <3>5, <3>6, <3>7, <3>8, SleepStep, Zenon
  <2> QED BY <1>4, <2>3, <2>4, <2>5, Zenon DEF st
<1>10. PipeTypeOK'
  BY <1>1, <1>4, <1>5, <1>8, <1>9, Zenon DEF PipeTypeOK, Scheduled
<1> QED BY <1>5, <1>6, <1>8, <1>9, <1>10, Zenon DEF PipeInv

\* piperead(), from its start or from a sleep() on: the reader sleeps on an
\* empty pipe, or takes bytes and tells the writers.
LEMMA ReadKeeps ==
  ASSUME PipeInv, NEW p \in Slot, p = proc, "r" \in ends[p],
         NEW n \in Nat \ {0}, ReadLoop(p, n)
  PROVE  PipeInv'
<1>1. PipeTypeOK /\ RingHolds /\ CallsHoldEnds /\ OpenIffHeld /\ SleepersInCall /\ NoLostWakeup
  BY Zenon DEF PipeInv
<1>2. PICK u \in Nat : u = Used
  BY <1>1, UsedIs
<1>3. UNCHANGED <<nwrite, data, readopen, writeopen, isfree, ends, sent>>
  BY Zenon DEF ReadLoop
<1>4. OpenIffHeld'
  BY <1>1, <1>3, Zenon DEF OpenIffHeld
<1>5. readopen /\ state[p] = "RUNNING"
  BY <1>1, Zenon DEF OpenIffHeld, SleepersInCall
<1>6. CASE /\ Used = 0 /\ writeopen
           /\ SetCall(p, "read", n)
           /\ sleep(p, "nread", state)
           /\ UNCHANGED <<nread, rcvd>>
  <2>1. RingHolds' /\ Used' = Used
    BY <1>1, <1>3, <1>6, Zenon DEF RingHolds, ByteAt, Used
  <2>2. /\ call' \in [Slot -> [op : {"none", "read", "write"}, left : Nat]]
        /\ CallsHoldEnds' /\ call'[p].op = "read"
        /\ \A q \in Slot \ {p} : call'[q] = call[q]
    BY <1>1, <1>3, <1>6 DEF SetCall, PipeTypeOK, CallsHoldEnds
  <2> DEFINE s2 == [q \in Slot |-> IF q = p THEN "SLEEPING" ELSE state[q]]
             c2 == [chan EXCEPT ![p] = "nread"]
  <2>3. s2 \in [Slot -> {"SLEEPING", "RUNNABLE", "RUNNING", "ZOMBIE"}]
    BY <1>1, Zenon DEF PipeTypeOK
  <2>4. c2 \in [Slot -> {"none", "nread", "nwrite", "other"}]
    BY <1>1, Zenon DEF PipeTypeOK
  <2>5. scheduler(s2, c2)
    BY <1>6, Zenon DEF sleep
  <2>6. /\ \A q \in Slot \ {p} : s2[q] = state[q] /\ c2[q] = chan[q]
        /\ s2[p] = "SLEEPING" /\ c2[p] = "nread"
    BY <1>1, Zenon DEF PipeTypeOK
  <2> HIDE DEF s2, c2
  <2>7. Scheduled(s2, c2)
    BY <2>3, <2>4, <2>5, SchedulerSchedules, Zenon
  <2>8. \A q \in Slot \ {p} : s2[q] = "SLEEPING" =>
          /\ state[q] = "SLEEPING" /\ c2[q] = chan[q]
          /\ c2[q] = "nread" => Used' = 0 /\ writeopen'
          /\ c2[q] = "nwrite" => Used' = PIPESIZE /\ readopen'
    BY <1>1, <1>3, <2>1, <2>6, Zenon DEF NoLostWakeup
  <2>9. SleepersInCall' /\ NoLostWakeup'
    BY <1>3, <1>6, <2>1, <2>2, <2>6, <2>7, <2>8, SleepStep, Zenon
  <2>10. PipeTypeOK'
    BY <1>1, <1>3, <1>6, <2>2, <2>7, Zenon DEF PipeTypeOK, Scheduled
  <2> QED BY <1>4, <2>1, <2>2, <2>9, <2>10, Zenon DEF PipeInv
<1>7. CASE (Used # 0 \/ ~writeopen) /\ TakeBytes(p, n)
  <2>1. PICK k \in Nat : /\ k = Min({n, Used}) /\ k <= n /\ k <= u
    BY <1>2, MinOfTwo
  <2>2. /\ nread' = Advance(nread, k) /\ rcvd' = rcvd + k
        /\ KeepRunning(wakeup(state, "nwrite"))
        /\ EndCall(p)
    BY <1>7, <2>1, Zenon DEF TakeBytes
  <2>3. RingHolds' /\ Used' = u - k /\ nread' \in 0 .. UMAX - 1 /\ rcvd' \in Nat
    BY <1>1, <1>2, <1>3, <2>1, <2>2, ReadRing, Zenon
  <2>4. /\ call' \in [Slot -> [op : {"none", "read", "write"}, left : Nat]]
        /\ CallsHoldEnds'
        /\ \A q \in Slot \ {p} : call'[q] = call[q]
    BY <1>1, <1>3, <2>2, Zenon DEF EndCall, NoCall, PipeTypeOK, CallsHoldEnds
  <2> DEFINE st == wakeup(state, "nwrite")
  <2>5. /\ st \in [Slot -> {"SLEEPING", "RUNNABLE", "RUNNING", "ZOMBIE"}]
        /\ \A q \in Slot : state[q] = "RUNNING" => st[q] = "RUNNING"
        /\ \A q \in Slot : st[q] = "SLEEPING" => state[q] = "SLEEPING" /\ chan[q] # "nwrite"
    BY <1>1, WakeupStates, Zenon DEF PipeTypeOK
  <2> HIDE DEF st
  <2>6. Scheduled(st, chan)
    BY <1>1, <2>2, <2>5, KeepRunningSchedules, Zenon DEF st
  <2>7. ASSUME NEW q \in Slot, state[q] = "SLEEPING", chan[q] = "nread"
        PROVE  Used' = 0 /\ writeopen'
    <3>1. u = 0 /\ writeopen
      BY <1>1, <1>2, <2>7, Zenon DEF NoLostWakeup
    <3> QED BY <1>3, <2>1, <2>3, <3>1
  <2>8. \A q \in Slot \ {p} : st[q] = "SLEEPING" =>
          /\ state[q] = "SLEEPING"
          /\ chan[q] = "nread" => Used' = 0 /\ writeopen'
          /\ chan[q] = "nwrite" => Used' = PIPESIZE /\ readopen'
    BY <2>5, <2>7, Zenon
  <2>9. st[p] # "SLEEPING"
    BY <1>5, <2>5, SMTT(30)
  <2>10. SleepersInCall' /\ NoLostWakeup'
    BY <2>4, <2>6, <2>8, <2>9, SleepStep, Zenon
  <2>11. PipeTypeOK'
    BY <1>1, <1>3, <2>3, <2>4, <2>6, Zenon DEF PipeTypeOK, Scheduled
  <2> QED BY <1>4, <2>3, <2>4, <2>10, <2>11, Zenon DEF PipeInv
<1> QED BY <1>6, <1>7, Zenon DEF ReadLoop

-----------------------------------------------------------------------------
\* Closing ends keeps the flags true to who holds what.
LEMMA ClosedFlags ==
  ASSUME PipeTypeOK, OpenIffHeld, NEW p \in Slot, NEW es \in SUBSET End,
         es \subseteq ends[p], CloseEnds(p, es)
  PROVE  /\ OpenIffHeld' /\ ends' \in [Slot -> SUBSET End]
         /\ \A q \in Slot \ {p} : ends'[q] = ends[q]
         /\ readopen' <=> readopen /\ ~("r" \in es /\ LastOf(p, "r"))
         /\ writeopen' <=> writeopen /\ ~("w" \in es /\ LastOf(p, "w"))
<1>1. /\ ends' \in [Slot -> SUBSET End]
      /\ ends'[p] = ends[p] \ es
      /\ \A q \in Slot \ {p} : ends'[q] = ends[q]
  BY Zenon DEF CloseEnds, PipeTypeOK
<1>2. /\ readopen' <=> readopen /\ ~("r" \in es /\ LastOf(p, "r"))
      /\ writeopen' <=> writeopen /\ ~("w" \in es /\ LastOf(p, "w"))
      /\ isfree' <=> isfree \/ ~(readopen' \/ writeopen')
  BY Zenon DEF CloseEnds
<1>3. ASSUME NEW e \in End
      PROVE  (\E q \in Slot : e \in ends'[q]) <=>
             (\E q \in Slot : e \in ends[q]) /\ ~(e \in es /\ LastOf(p, e))
  BY <1>1, Zenon DEF LastOf
<1>4. readopen' <=> \E q \in Slot : "r" \in ends'[q]
  <2>1. "r" \in End
    BY Zenon DEF End
  <2>2. readopen <=> \E q \in Slot : "r" \in ends[q]
    BY Zenon DEF OpenIffHeld
  <2> QED BY <1>2, <1>3, <2>1, <2>2, Zenon
<1>5. writeopen' <=> \E q \in Slot : "w" \in ends'[q]
  <2>1. "w" \in End
    BY Zenon DEF End
  <2>2. writeopen <=> \E q \in Slot : "w" \in ends[q]
    BY Zenon DEF OpenIffHeld
  <2> QED BY <1>2, <1>3, <2>1, <2>2, Zenon
<1>6. isfree' <=> ~(readopen' \/ writeopen')
  <2>1. isfree <=> ~(readopen \/ writeopen)
    BY Zenon DEF OpenIffHeld
  <2> QED BY <1>2, <2>1, Zenon
<1> QED BY <1>1, <1>2, <1>4, <1>5, <1>6, Zenon DEF OpenIffHeld

\* Who still sleeps after CloseEnds has not lost the end that could wake it.
LEMMA CloseWakeupStates ==
  ASSUME PipeTypeOK, NEW p \in Slot, NEW es \in SUBSET End
  PROVE  /\ CloseWakeups(p, es) \in [Slot -> {"SLEEPING", "RUNNABLE", "RUNNING", "ZOMBIE"}]
         /\ \A q \in Slot : state[q] = "RUNNING" => CloseWakeups(p, es)[q] = "RUNNING"
         /\ \A q \in Slot : CloseWakeups(p, es)[q] = "SLEEPING" =>
              /\ state[q] = "SLEEPING"
              /\ chan[q] = "nread" => ~("w" \in es /\ LastOf(p, "w"))
              /\ chan[q] = "nwrite" => ~("r" \in es /\ LastOf(p, "r"))
<1> DEFINE readers == IF "w" \in es /\ LastOf(p, "w") THEN wakeup(state, "nread") ELSE state
<1>1. /\ readers \in [Slot -> {"SLEEPING", "RUNNABLE", "RUNNING", "ZOMBIE"}]
      /\ \A q \in Slot : state[q] = "RUNNING" => readers[q] = "RUNNING"
      /\ \A q \in Slot : readers[q] = "SLEEPING" =>
           state[q] = "SLEEPING" /\ (chan[q] = "nread" => ~("w" \in es /\ LastOf(p, "w")))
  BY WakeupStates, SMTT(30) DEF PipeTypeOK
<1> HIDE DEF readers
<1>2. CloseWakeups(p, es) =
        IF "r" \in es /\ LastOf(p, "r") THEN wakeup(readers, "nwrite") ELSE readers
  BY Zenon DEF CloseWakeups, readers
<1> QED BY <1>1, <1>2, WakeupStates

\* What a step that closes ends of p and leaves the others' calls alone has to
\* ensure: it leaves nobody asleep but those that CloseWakeups leaves asleep.
LEMMA ClosingStep ==
  ASSUME PipeInv, NEW p \in Slot, p = proc, call[p] = NoCall,
         NEW es \in SUBSET End, es \subseteq ends[p], CloseEnds(p, es),
         UNCHANGED <<call, sent, rcvd>>,
         NEW st, Scheduled(st, chan),
         \A q \in Slot : st[q] = "SLEEPING" =>
           CloseWakeups(p, es)[q] = "SLEEPING" /\ q # p
  PROVE  PipeInv'
<1>1. PipeTypeOK /\ RingHolds /\ CallsHoldEnds /\ OpenIffHeld /\ SleepersInCall /\ NoLostWakeup
  BY SMTT(30) DEF PipeInv
<1>2. /\ OpenIffHeld' /\ ends' \in [Slot -> SUBSET End]
      /\ \A q \in Slot \ {p} : ends'[q] = ends[q]
      /\ readopen' <=> readopen /\ ~("r" \in es /\ LastOf(p, "r"))
      /\ writeopen' <=> writeopen /\ ~("w" \in es /\ LastOf(p, "w"))
  BY <1>1, ClosedFlags, Zenon
<1>3. UNCHANGED <<nread, nwrite, data>>
  BY Zenon DEF CloseEnds
<1>4. RingHolds' /\ Used' = Used
  BY <1>1, <1>3, Zenon DEF RingHolds, ByteAt, Used
<1>5. PipeTypeOK'
  BY <1>1, <1>2, <1>3, SMTT(30) DEF PipeTypeOK, Scheduled
<1>6. CallsHoldEnds'
  BY <1>1, <1>2 DEF CallsHoldEnds, NoCall
<1>7. \A q \in Slot : CloseWakeups(p, es)[q] = "SLEEPING" =>
        /\ state[q] = "SLEEPING"
        /\ chan[q] = "nread" => ~("w" \in es /\ LastOf(p, "w"))
        /\ chan[q] = "nwrite" => ~("r" \in es /\ LastOf(p, "r"))
  BY <1>1, CloseWakeupStates, Zenon
<1>8. ASSUME NEW q \in Slot \ {p}, st[q] = "SLEEPING"
      PROVE  /\ state[q] = "SLEEPING"
             /\ chan[q] = "nread" => Used' = 0 /\ writeopen'
             /\ chan[q] = "nwrite" => Used' = PIPESIZE /\ readopen'
  <2>1. state[q] = "SLEEPING" /\ q \in Slot
    BY <1>7, <1>8, Zenon
  <2>2. ASSUME chan[q] = "nread" PROVE Used' = 0 /\ writeopen'
    <3>1. Used = 0 /\ writeopen
      BY <1>1, <2>1, <2>2, Zenon DEF NoLostWakeup
    <3>2. ~("w" \in es /\ LastOf(p, "w"))
      BY <1>7, <1>8, <2>2, Zenon
    <3>3. writeopen'
      BY <1>2, <3>1, <3>2, Zenon
    <3> QED BY <1>4, <3>1, <3>3, Zenon
  <2>3. ASSUME chan[q] = "nwrite" PROVE Used' = PIPESIZE /\ readopen'
    <3>1. Used = PIPESIZE /\ readopen
      BY <1>1, <2>1, <2>3, Zenon DEF NoLostWakeup
    <3>2. ~("r" \in es /\ LastOf(p, "r"))
      BY <1>7, <1>8, <2>3, Zenon
    <3>3. readopen'
      BY <1>2, <3>1, <3>2, Zenon
    <3> QED BY <1>4, <3>1, <3>3, Zenon
  <2> QED BY <2>1, <2>2, <2>3, Zenon
<1>9. SleepersInCall' /\ NoLostWakeup'
  BY <1>8, SleepStep, SMTT(30)
<1> QED BY <1>2, <1>4, <1>5, <1>6, <1>9, SMTT(30) DEF PipeInv

LEMMA CloseKeeps ==
  ASSUME PipeInv, NEW p \in Slot, NEW e \in End, sys_close(p, e)
  PROVE  PipeInv'
<1>1. PipeTypeOK /\ SleepersInCall /\ p = proc /\ call[p] = NoCall
  BY Zenon DEF PipeInv, sys_close, Idle
<1>2. /\ {e} \in SUBSET End /\ {e} \subseteq ends[p] /\ CloseEnds(p, {e})
      /\ UNCHANGED <<call, sent, rcvd>>
  BY Zenon DEF sys_close
<1> DEFINE st == CloseWakeups(p, {e})
<1>3. /\ st \in [Slot -> {"SLEEPING", "RUNNABLE", "RUNNING", "ZOMBIE"}]
      /\ \A q \in Slot : state[q] = "RUNNING" => st[q] = "RUNNING"
  BY <1>1, <1>2, CloseWakeupStates, Zenon
<1>4. Scheduled(st, chan)
  BY <1>1, <1>3, KeepRunningSchedules, Zenon DEF sys_close
<1>5. st[p] = "RUNNING"
  BY <1>1, <1>3, Zenon DEF SleepersInCall
<1>6. \A q \in Slot : st[q] = "SLEEPING" => q # p
  BY <1>5, Zenon
<1> QED BY <1>1, <1>2, <1>4, <1>6, ClosingStep, SMTT(30)

LEMMA ExitKeeps ==
  ASSUME PipeInv, NEW p \in Slot, sys_exit(p)
  PROVE  PipeInv'
<1>1. PipeTypeOK /\ SleepersInCall /\ p = proc /\ call[p] = NoCall
  BY Zenon DEF PipeInv, sys_exit, Idle
<1> DEFINE es == ends[p]
           woken == CloseWakeups(p, es)
<1>2. es \in SUBSET End /\ CloseEnds(p, es) /\ UNCHANGED <<call, sent, rcvd>>
  BY <1>1, Zenon DEF sys_exit, PipeTypeOK
<1>3. PICK parents \in {{}, {q \in Slot : state[q] = "SLEEPING" /\ chan[q] = "other"}} :
        scheduler([q \in Slot |-> IF q = p THEN "ZOMBIE"
                                  ELSE IF q \in parents THEN "RUNNABLE"
                                  ELSE woken[q]],
                  chan)
  BY Zenon DEF sys_exit
<1>4. p \notin parents
  BY <1>1, <1>3, Zenon DEF SleepersInCall
<1>5. woken \in [Slot -> {"SLEEPING", "RUNNABLE", "RUNNING", "ZOMBIE"}]
  BY <1>1, <1>2, CloseWakeupStates, Zenon
<1> HIDE DEF woken
<1> DEFINE st == [q \in Slot |-> IF q = p THEN "ZOMBIE"
                                 ELSE IF q \in parents THEN "RUNNABLE"
                                 ELSE woken[q]]
<1>6. /\ st \in [Slot -> {"SLEEPING", "RUNNABLE", "RUNNING", "ZOMBIE"}]
      /\ \A q \in Slot : st[q] = "SLEEPING" => woken[q] = "SLEEPING" /\ q # p
  BY <1>4, <1>5, Zenon
<1> HIDE DEF st
<1>7. scheduler(st, chan)
  BY <1>3, Zenon DEF st
<1>8. Scheduled(st, chan)
  BY <1>1, <1>6, <1>7, SchedulerSchedules, Zenon DEF PipeTypeOK
<1> QED BY <1>1, <1>2, <1>6, <1>8, ClosingStep DEF woken

\* Sleeping and waking for other reasons does not touch the pipe.
LEMMA ElsewhereKeeps ==
  ASSUME PipeInv, NEW p \in Slot, SleepElsewhere(p) \/ WakeElsewhere(p)
  PROVE  PipeInv'
<1>1. PipeTypeOK /\ RingHolds /\ CallsHoldEnds /\ OpenIffHeld /\ SleepersInCall /\ NoLostWakeup
  BY Zenon DEF PipeInv
<1>2. p = proc /\ call[p] = NoCall /\ UNCHANGED <<pipe, ends, call, sent, rcvd>>
  BY Zenon DEF SleepElsewhere, WakeElsewhere, Idle
<1>3. RingHolds' /\ Used' = Used
  BY <1>1, <1>2, SMTT(30) DEF pipe, RingHolds, ByteAt, Used
<1>4. CallsHoldEnds' /\ OpenIffHeld'
  BY <1>1, <1>2, Zenon DEF pipe, CallsHoldEnds, OpenIffHeld
<1>5. PICK st, ch :
        /\ Scheduled(st, ch)
        /\ \A q \in Slot \ {p} : st[q] = "SLEEPING" => state[q] = "SLEEPING" /\ ch[q] = chan[q]
        /\ st[p] = "SLEEPING" => ch[p] = "other"
  <2>1. CASE sleep(p, "other", state)
    <3> DEFINE s2 == [q \in Slot |-> IF q = p THEN "SLEEPING" ELSE state[q]]
               c2 == [chan EXCEPT ![p] = "other"]
    <3>1. /\ s2 \in [Slot -> {"SLEEPING", "RUNNABLE", "RUNNING", "ZOMBIE"}]
          /\ c2 \in [Slot -> {"none", "nread", "nwrite", "other"}]
          /\ \A q \in Slot \ {p} : s2[q] = state[q] /\ c2[q] = chan[q]
          /\ c2[p] = "other"
      BY <1>1, Zenon DEF PipeTypeOK
    <3>2. scheduler(s2, c2)
      BY <2>1, Zenon DEF sleep
    <3> HIDE DEF s2, c2
    <3>3. Scheduled(s2, c2)
      BY <3>1, <3>2, SchedulerSchedules, Zenon
    <3> QED BY <3>1, <3>3, Zenon
  <2>2. CASE KeepRunning(wakeup(state, "other"))
    <3> DEFINE s2 == wakeup(state, "other")
    <3>1. /\ s2 \in [Slot -> {"SLEEPING", "RUNNABLE", "RUNNING", "ZOMBIE"}]
          /\ \A q \in Slot : state[q] = "RUNNING" => s2[q] = "RUNNING"
          /\ \A q \in Slot : s2[q] = "SLEEPING" => state[q] = "SLEEPING"
      BY <1>1, WakeupStates, Zenon DEF PipeTypeOK
    <3> HIDE DEF s2
    <3>2. Scheduled(s2, chan)
      BY <1>1, <2>2, <3>1, KeepRunningSchedules, Zenon DEF s2
    <3>3. s2[p] = "RUNNING"
      BY <1>1, <1>2, <3>1, Zenon DEF SleepersInCall
    <3> QED BY <3>1, <3>2, <3>3, Zenon
  <2> QED BY <2>1, <2>2, Zenon DEF SleepElsewhere, WakeElsewhere
<1>6. PipeTypeOK'
  BY <1>1, <1>2, <1>5, SMTT(30) DEF pipe, PipeTypeOK, Scheduled
<1>7. \A q \in Slot \ {p} : st[q] = "SLEEPING" =>
        /\ state[q] = "SLEEPING" /\ ch[q] = chan[q]
        /\ ch[q] = "nread" => Used' = 0 /\ writeopen'
        /\ ch[q] = "nwrite" => Used' = PIPESIZE /\ readopen'
  BY <1>1, <1>2, <1>3, <1>5, Zenon DEF NoLostWakeup, pipe
<1>8. SleepersInCall' /\ NoLostWakeup'
  BY <1>2, <1>5, <1>7, SleepStep, Zenon
<1> QED BY <1>3, <1>4, <1>6, <1>8, Zenon DEF PipeInv

LEMMA PipeNextKeeps == PipeInv /\ [Next]_vars => PipeInv'
<1> SUFFICES ASSUME PipeInv, [Next]_vars PROVE PipeInv'
  OBVIOUS
<1>1. CASE UNCHANGED vars
  <2>1. UNCHANGED <<nread, nwrite, data, readopen, writeopen, isfree, proc, state, chan,
                    ends, call, sent, rcvd>>
    BY <1>1, Zenon DEF vars, pipe, sched
  <2> QED BY <2>1, Zenon DEF PipeInv, PipeTypeOK, RingHolds, CallsHoldEnds, OpenIffHeld,
             SleepersInCall, NoLostWakeup, ByteAt, Used
<1>2. ASSUME NEW p \in Slot, NEW n \in Counts, pipewrite(p, n) PROVE PipeInv'
  BY <1>2, WriteKeeps, PipeAssumption, SMTT(30) DEF pipewrite, Idle
<1>3. ASSUME NEW p \in Slot, ResumeWrite(p) PROVE PipeInv'
  BY <1>3, WriteKeeps, SMTT(30) DEF ResumeWrite, PipeInv, PipeTypeOK, CallsHoldEnds
<1>4. ASSUME NEW p \in Slot, NEW n \in Counts, piperead(p, n) PROVE PipeInv'
  BY <1>4, ReadKeeps, PipeAssumption, Zenon DEF piperead, Idle
<1>5. ASSUME NEW p \in Slot, ResumeRead(p) PROVE PipeInv'
  BY <1>5, ReadKeeps DEF ResumeRead, PipeInv, PipeTypeOK, CallsHoldEnds
<1>6. CASE Next
  BY <1>2, <1>3, <1>4, <1>5, <1>6, CloseKeeps, ExitKeeps, ElsewhereKeeps, Zenon DEF Next
<1> QED BY <1>1, <1>6, Zenon

\* What the ring holds, who sleeps and who holds which end fit together in
\* every reachable state.
THEOREM PipeInductive == Spec => []PipeInv
BY InitPipeInv, PipeNextKeeps, PTL DEF Spec

-----------------------------------------------------------------------------
\* No reader sleeps while there is data or nobody left to write, no writer
\* while there is room or nobody left to read, for any number of either.
THEOREM NoPipeWakeupLost == Spec => []NoLostWakeup
<1>1. PipeInv => NoLostWakeup
  BY Zenon DEF PipeInv
<1> QED BY <1>1, PipeInductive, PTL

\* pfree() is only called for a pipe that nobody holds or is blocked in.
THEOREM FreedPipeIsUnused == Spec => []FreedPipeUnused
<1>1. ASSUME PipeInv PROVE FreedPipeUnused
  <2> SUFFICES ASSUME isfree, NEW p \in Slot PROVE ends[p] = {} /\ call[p] = NoCall
    BY Zenon DEF FreedPipeUnused
  <2>1. ~readopen /\ ~writeopen
    BY <1>1, Zenon DEF PipeInv, OpenIffHeld
  <2>2. "r" \notin ends[p] /\ "w" \notin ends[p]
    BY <1>1, <2>1, Zenon DEF PipeInv, OpenIffHeld
  <2>3. ends[p] = {}
    BY <1>1, <2>2, Zenon DEF PipeInv, PipeTypeOK, End
  <2>4. call[p].op \in {"none", "read", "write"}
    BY <1>1, Zenon DEF PipeInv, PipeTypeOK
  <2> QED BY <1>1, <2>2, <2>3, <2>4, Zenon DEF PipeInv, CallsHoldEnds
<1> QED BY <1>1, PipeInductive, PTL

\* A read that takes n bytes, or as many as there are, or goes to sleep.
LEMMA ReadTakes ==
  ASSUME PipeInv, NEW p \in Slot, NEW n \in Nat \ {0}, ReadLoop(p, n)
  PROVE  \/ rcvd' = rcvd /\ call'[p] # NoCall
         \/ \E k \in Nat : /\ rcvd' = rcvd + k
                           /\ k = 0 => ~writeopen /\ sent = rcvd
<1>1. PICK u \in Nat : u = Used /\ u = sent - rcvd
  BY UsedIs DEF PipeInv, RingHolds
<1>2. sent \in Nat /\ rcvd \in Nat
  BY Zenon DEF PipeInv, PipeTypeOK
<1>3. CASE SetCall(p, "read", n) /\ UNCHANGED <<nread, rcvd>>
  BY <1>3, Zenon DEF SetCall, NoCall, PipeInv, PipeTypeOK
<1>4. CASE (Used # 0 \/ ~writeopen) /\ TakeBytes(p, n)
  <2>1. PICK k \in Nat : k = Min({n, Used}) /\ (k = 0 => u = 0)
    BY <1>1, MinOfTwo
  <2>2. rcvd' = rcvd + k
    BY <1>4, <2>1, Zenon DEF TakeBytes
  <2>3. ASSUME k = 0 PROVE ~writeopen /\ sent = rcvd
    <3>1. u = 0
      BY <2>1, <2>3, Zenon
    <3>2. Used = 0 /\ sent = rcvd
      BY <1>1, <1>2, <3>1
    <3> QED BY <1>4, <3>2, Zenon
  <2> QED BY <2>2, <2>3, Zenon
<1> QED BY <1>3, <1>4, Zenon DEF ReadLoop

\* A read returns no bytes only when the write end is closed and all that was
\* written has been read, for any number of readers and writers.
THEOREM EofIsTheEnd == Spec => EofOnlyAtEnd
<1> DEFINE A == \A p \in Slot :
                  ReturnsFromRead(p) /\ rcvd' = rcvd => ~writeopen /\ sent = rcvd
<1>1. ASSUME PipeInv PROVE A
  <2> SUFFICES ASSUME NEW p \in Slot, ReturnsFromRead(p), rcvd' = rcvd
               PROVE  ~writeopen /\ sent = rcvd
    OBVIOUS
  <2>1. PICK n \in Nat \ {0} : ReadLoop(p, n)
    <3>1. CASE ResumeRead(p)
      BY <1>1, <3>1, SMTT(30) DEF ResumeRead, PipeInv, PipeTypeOK, CallsHoldEnds
    <3>2. CASE \E n \in Counts : piperead(p, n)
      BY <3>2, PipeAssumption, Zenon DEF piperead
    <3> QED BY <3>1, <3>2, Zenon DEF ReturnsFromRead
  <2>2. call'[p] = NoCall
    BY Zenon DEF ReturnsFromRead
  <2>3. PICK k \in Nat : rcvd' = rcvd + k /\ (k = 0 => ~writeopen /\ sent = rcvd)
    BY <1>1, <2>1, <2>2, ReadTakes, Zenon
  <2>4. rcvd \in Nat
    BY <1>1, Zenon DEF PipeInv, PipeTypeOK
  <2> QED BY <2>3, <2>4
<1>2. PipeInv /\ [Next]_vars => [A]_vars
  <2> HIDE DEF A
  <2> QED BY <1>1, Zenon
<1> QED BY <1>2, PipeInductive, PTL DEF Spec, EofOnlyAtEnd

-----------------------------------------------------------------------------
\* The queue that the ring stands for.
Queue == [k \in 1 .. Used |-> ByteAt(k)]

\* The bytes from the one after r to the s-th.
Stretch(r, s) == [k \in 1 .. s - r |-> r + k]

QueueShape == Queue = Stretch(rcvd, sent) /\ sent - rcvd \in 0 .. PIPESIZE

LEMMA QueueIs == PipeInv => QueueShape
<1> SUFFICES ASSUME PipeInv PROVE QueueShape
  OBVIOUS
<1>1. Used \in Nat /\ Used = sent - rcvd /\ \A k \in 1 .. Used : ByteAt(k) = rcvd + k
  BY UsedIs DEF PipeInv, RingHolds
<1> HIDE DEF Used, ByteAt
<1> QED BY <1>1 DEF QueueShape, Queue, Stretch, PipeInv, RingHolds

LEMMA NextQueueIs == PipeInv' => QueueShape'
BY QueueIs, PTL

LEMMA StretchLen ==
  ASSUME NEW r \in Nat, NEW s \in Nat, s - r \in Nat
  PROVE  /\ Len(Stretch(r, s)) = s - r
         /\ \A k \in 1 .. s - r : Stretch(r, s)[k] = r + k
BY DEF Stretch

\* More bytes written: the queue grows at its end.
LEMMA StretchGrows ==
  ASSUME NEW r \in Nat, NEW s \in Nat, NEW t \in Nat, s - r \in Nat, s <= t
  PROVE  SubSeq(Stretch(r, t), 1, s - r) = Stretch(r, s)
BY DEF Stretch

\* Bytes read: the queue shrinks from its front.
LEMMA StretchShrinks ==
  ASSUME NEW r \in Nat, NEW s \in Nat, NEW k \in Nat, k <= s - r
  PROVE  SubSeq(Stretch(r, s), k + 1, s - r) = Stretch(r + k, s)
BY DEF Stretch

LEMMA PutRefines ==
  ASSUME PipeInv, PipeInv', writeopen, NEW k \in Nat, sent' = sent + k,
         UNCHANGED <<rcvd, readopen, writeopen>>
  PROVE  [F!FifoNext]_(F!fifoVars)
<1>1. QueueShape /\ QueueShape'
  BY QueueIs, NextQueueIs, Zenon
<1>2. sent \in Nat /\ rcvd \in Nat /\ sent' \in Nat /\ PIPESIZE \in Nat
  BY PipeAssumption, Zenon DEF PipeInv, PipeTypeOK
<1>3. PICK t \in Nat :
        /\ t = sent + k
        /\ Queue = Stretch(rcvd, sent) /\ Queue' = Stretch(rcvd, t)
        /\ sent - rcvd \in Nat /\ t - rcvd \in Nat /\ t - rcvd <= PIPESIZE
  BY <1>1, <1>2 DEF QueueShape, Stretch
<1>4. CASE k = 0
  <2>1. Queue' = Queue
    BY <1>2, <1>3, <1>4
  <2> QED BY <2>1, Zenon DEF F!fifoVars, Queue
<1>5. CASE k > 0
  <2>1. /\ Len(Queue) = sent - rcvd /\ Len(Queue') = t - rcvd
        /\ \A j \in 1 .. t - rcvd : Queue'[j] = rcvd + j
    BY <1>2, <1>3, StretchLen, Zenon
  <2>2. SubSeq(Queue', 1, sent - rcvd) = Queue
    <3>1. sent <= t
      BY <1>2, <1>3
    <3> QED BY <1>2, <1>3, <3>1, StretchGrows, Zenon
  <2>3. \A j \in 1 .. Len(Queue') : Queue'[j] \in Nat \ {0}
    BY <1>2, <1>3, <2>1
  <2>4. Len(Queue') <= PIPESIZE /\ Len(Queue') > Len(Queue)
    BY <1>2, <1>3, <1>5, <2>1
  <2>5. F!Put
    BY <2>1, <2>2, <2>3, <2>4, Zenon DEF F!Put, Queue
  <2> QED BY <2>5, Zenon DEF F!FifoNext
<1> QED BY <1>4, <1>5

LEMMA TakeRefines ==
  ASSUME PipeInv, PipeInv', readopen, NEW k \in Nat, rcvd' = rcvd + k,
         UNCHANGED <<sent, readopen, writeopen>>
  PROVE  [F!FifoNext]_(F!fifoVars)
<1>1. QueueShape /\ QueueShape'
  BY QueueIs, NextQueueIs, Zenon
<1>2. sent \in Nat /\ rcvd \in Nat /\ rcvd' \in Nat
  BY Zenon DEF PipeInv, PipeTypeOK
<1>3. /\ Queue = Stretch(rcvd, sent) /\ Queue' = Stretch(rcvd + k, sent)
      /\ sent - rcvd \in Nat /\ sent - (rcvd + k) \in Nat
  BY <1>1, <1>2 DEF QueueShape, Stretch
<1>4. CASE k = 0
  <2>1. Queue' = Queue
    BY <1>2, <1>3, <1>4
  <2> QED BY <2>1, Zenon DEF F!fifoVars, Queue
<1>5. CASE k > 0
  <2>1. Len(Queue) = sent - rcvd
    BY <1>2, <1>3, StretchLen, Zenon
  <2>2. k \in 1 .. Len(Queue)
    BY <1>2, <1>3, <1>5, <2>1
  <2>3. Queue' = SubSeq(Queue, k + 1, Len(Queue))
    <3>1. k <= sent - rcvd
      BY <2>1, <2>2
    <3>2. SubSeq(Stretch(rcvd, sent), k + 1, sent - rcvd) = Stretch(rcvd + k, sent)
      BY <1>2, <3>1, StretchShrinks, Zenon
    <3> QED BY <1>3, <2>1, <3>2, Zenon
  <2>4. F!Take
    BY <2>2, <2>3, Zenon DEF F!Take, Queue
  <2> QED BY <2>4, Zenon DEF F!FifoNext
<1> QED BY <1>4, <1>5

LEMMA CloseRefines ==
  ASSUME PipeInv, PipeInv', UNCHANGED <<sent, rcvd>>,
         readopen' => readopen, writeopen' => writeopen
  PROVE  F!Close
<1>1. QueueShape /\ QueueShape'
  BY QueueIs, NextQueueIs, Zenon
<1>2. Queue' = Queue
  BY <1>1, Zenon DEF QueueShape, Stretch
<1> QED BY <1>2, Zenon DEF F!Close, Queue

LEMMA PipeStepRefines ==
  PipeInv /\ PipeInv' /\ [Next]_vars => [F!FifoNext]_(F!fifoVars)
<1> SUFFICES ASSUME PipeInv, PipeInv', [Next]_vars
             PROVE  [F!FifoNext]_(F!fifoVars)
  OBVIOUS
<1>1. CASE UNCHANGED <<sent, rcvd>> /\ (readopen' => readopen) /\ (writeopen' => writeopen)
  BY <1>1, CloseRefines, Zenon DEF F!FifoNext
<1>2. ASSUME NEW p \in Slot, "w" \in ends[p], NEW left \in Nat \ {0}, WriteLoop(p, left)
      PROVE  [F!FifoNext]_(F!fifoVars)
  <2>1. writeopen
    BY <1>2, Zenon DEF PipeInv, OpenIffHeld
  <2>2. Room \in Nat
    BY UsedIs, CounterFacts DEF PipeInv, RingHolds, Room
  <2>3. PICK k \in Nat : k = Min({left, Room})
    BY <2>2, MinOfTwo, SMTT(30)
  <2>4. sent' = sent + k /\ UNCHANGED <<rcvd, readopen, writeopen>>
    BY <1>2, <2>3, Zenon DEF WriteLoop
  <2> QED BY <2>1, <2>4, PutRefines, Zenon
<1>3. ASSUME NEW p \in Slot, "r" \in ends[p], NEW n \in Nat \ {0}, ReadLoop(p, n)
      PROVE  [F!FifoNext]_(F!fifoVars)
  <2>1. readopen
    BY <1>3, Zenon DEF PipeInv, OpenIffHeld
  <2>2. UNCHANGED <<sent, readopen, writeopen>>
    BY <1>3, Zenon DEF ReadLoop
  <2>3. CASE rcvd' = rcvd
    BY <1>1, <2>2, <2>3, Zenon
  <2>4. CASE \E k \in Nat : rcvd' = rcvd + k
    BY <2>1, <2>2, <2>4, TakeRefines, Zenon
  <2> QED BY <1>3, <2>3, <2>4, ReadTakes, Zenon
<1>4. ASSUME NEW p \in Slot, NEW n \in Counts, pipewrite(p, n)
      PROVE  [F!FifoNext]_(F!fifoVars)
  BY <1>2, <1>4, PipeAssumption, Zenon DEF pipewrite
<1>5. ASSUME NEW p \in Slot, ResumeWrite(p) PROVE [F!FifoNext]_(F!fifoVars)
  BY <1>2, <1>5 DEF ResumeWrite, PipeInv, PipeTypeOK, CallsHoldEnds
<1>6. ASSUME NEW p \in Slot, NEW n \in Counts, piperead(p, n)
      PROVE  [F!FifoNext]_(F!fifoVars)
  BY <1>3, <1>6, PipeAssumption, Zenon DEF piperead
<1>7. ASSUME NEW p \in Slot, ResumeRead(p) PROVE [F!FifoNext]_(F!fifoVars)
  BY <1>3, <1>7 DEF ResumeRead, PipeInv, PipeTypeOK, CallsHoldEnds
<1>8. ASSUME NEW p \in Slot, NEW e \in End, sys_close(p, e)
      PROVE  [F!FifoNext]_(F!fifoVars)
  BY <1>1, <1>8, Zenon DEF sys_close, CloseEnds
<1>9. ASSUME NEW p \in Slot, sys_exit(p) PROVE [F!FifoNext]_(F!fifoVars)
  BY <1>1, <1>9, Zenon DEF sys_exit, CloseEnds
<1>10. ASSUME NEW p \in Slot, SleepElsewhere(p) \/ WakeElsewhere(p)
       PROVE  [F!FifoNext]_(F!fifoVars)
  BY <1>1, <1>10, Zenon DEF SleepElsewhere, WakeElsewhere, pipe
<1>11. CASE Next
  BY <1>4, <1>5, <1>6, <1>7, <1>8, <1>9, <1>10, <1>11, Zenon DEF Next
<1>12. CASE UNCHANGED vars
  BY <1>1, <1>12, Zenon DEF vars, pipe
<1> QED BY <1>11, <1>12, Zenon

LEMMA PipeInitRefines == Init => F!FifoInit
<1> SUFFICES ASSUME Init PROVE F!FifoInit
  OBVIOUS
<1>1. QueueShape
  BY InitPipeInv, QueueIs, Zenon
<1>2. Queue = <<>>
  BY <1>1 DEF QueueShape, Stretch, Init
<1> QED BY <1>2, Zenon DEF F!FifoInit, Queue, Init

\* The ring with its wrapping counters is a first-in first-out queue of
\* PIPESIZE bytes, for any size that divides the range of the counters and
\* any number of readers and writers.
THEOREM PipeIsFifo == Spec => ImplementsFifo
BY PipeInitRefines, PipeStepRefines, PipeInductive, PTL
   DEF Spec, ImplementsFifo, F!FifoSpec
=============================================================================
