-------------------------- MODULE Containers_proofs --------------------------
(***************************************************************************)
(* What keeps objects and values for others: the pool ring of MsgPoolRing, *)
(* for every capacity, and its constructor in RingCapacity, for every      *)
(* width of ints; the counted objects of ObjRef, for any threads, wrappers *)
(* and keys; the members of RJson, for any keys and values.                *)
(***************************************************************************)
EXTENDS MsgPoolRing, RingCapacity, ObjRef, RJson, NatSets, FiniteSetTheorems,
        SequenceTheorems, TLAPS

-----------------------------------------------------------------------------
(* Residues.                                                               *)

LEMMA DivMod ==
    ASSUME NEW a \in Int, NEW n \in Nat \ {0}
    PROVE  /\ a \div n \in Int
           /\ (a % n) \in 0..n - 1
           /\ a = n * (a \div n) + (a % n)
<1>1. n \in Int /\ n > 0 OBVIOUS
<1>2. a \div n \in Int BY <1>1
<1>3. (a % n) \in 0..n - 1 BY <1>1
<1>4. a = n * (a \div n) + (a % n) BY <1>1
<1> QED BY <1>2, <1>3, <1>4

LEMMA ModUnique ==
    ASSUME NEW n \in Nat \ {0}, NEW q \in Int, NEW p \in Int, NEW r \in 0..n - 1, NEW s \in 0..n - 1,
           n * q + r = n * p + s
    PROVE  r = s /\ q = p
<1>1. CASE q < p
  <2>1. p - q >= 1 /\ p - q \in Int BY <1>1
  <2>2. n * (p - q) >= n BY <2>1
  <2>3. n * (p - q) = n * p - n * q OBVIOUS
  <2>4. n * p \in Int /\ n * q \in Int OBVIOUS
  <2> QED BY <2>2, <2>3, <2>4
<1>2. CASE p < q
  <2>1. q - p >= 1 /\ q - p \in Int BY <1>2
  <2>2. n * (q - p) >= n BY <2>1
  <2>3. n * (q - p) = n * q - n * p OBVIOUS
  <2>4. n * p \in Int /\ n * q \in Int OBVIOUS
  <2> QED BY <2>2, <2>3, <2>4
<1>3. CASE p = q
  <2>1. n * p \in Int OBVIOUS
  <2> QED BY <1>3, <2>1
<1> QED BY <1>1, <1>2, <1>3

\* Adding a multiple of n changes no residue.
LEMMA ModShift ==
    ASSUME NEW n \in Nat \ {0}, NEW k \in Int, NEW q \in Int
    PROVE  (n * k + q) % n = q % n
<1> DEFINE a == n * k + q
           ad == a \div n
           am == a % n
           qd == q \div n
           qm == q % n
<1>1. a \in Int OBVIOUS
<1>2. ad \in Int /\ am \in 0..n - 1 /\ a = n * ad + am BY <1>1, DivMod
<1>3. qd \in Int /\ qm \in 0..n - 1 /\ q = n * qd + qm BY DivMod
<1> HIDE DEF ad, am, qd, qm
<1>4. a = n * (k + qd) + qm
  <2>1. n * (k + qd) = n * k + n * qd BY <1>3
  <2>2. n * k \in Int /\ n * qd \in Int BY <1>3
  <2> QED BY <1>3, <2>1, <2>2
<1>5. k + qd \in Int BY <1>3
<1>6. am = qm BY <1>2, <1>3, <1>4, <1>5, ModUnique
<1> QED BY <1>6 DEF am, qm

\* Fewer than n consecutive integers have distinct residues.
LEMMA ModDistinct ==
    ASSUME NEW n \in Nat \ {0}, NEW a \in Int, NEW b \in Int, a - b < n, b - a < n,
           a % n = b % n
    PROVE  a = b
<1> DEFINE ad == a \div n
           bd == b \div n
           m == a % n
<1>1. ad \in Int /\ m \in 0..n - 1 /\ a = n * ad + m BY DivMod
<1>2. bd \in Int /\ b = n * bd + m BY DivMod
<1> HIDE DEF ad, bd, m
<1>3. n * ad \in Int /\ n * bd \in Int BY <1>1, <1>2
<1>4. CASE ad > bd
  <2>1. ad - bd >= 1 /\ ad - bd \in Int BY <1>1, <1>2, <1>4
  <2>2. n * (ad - bd) >= n BY <2>1
  <2>3. n * (ad - bd) = n * ad - n * bd BY <1>1, <1>2
  <2> QED BY <1>1, <1>2, <1>3, <2>2, <2>3
<1>5. CASE bd > ad
  <2>1. bd - ad >= 1 /\ bd - ad \in Int BY <1>1, <1>2, <1>5
  <2>2. n * (bd - ad) >= n BY <2>1
  <2>3. n * (bd - ad) = n * bd - n * ad BY <1>1, <1>2
  <2> QED BY <1>1, <1>2, <1>3, <2>2, <2>3
<1>6. CASE ad = bd BY <1>1, <1>2, <1>6
<1> QED BY <1>1, <1>2, <1>4, <1>5, <1>6

-----------------------------------------------------------------------------
(* The slots of the window.                                                *)

LEMMA SlotInRing ==
    ASSUME TypeOK, NEW n \in Int
    PROVE  Slot(n) \in 0..Capacity - 1
<1>1. pos + n \in Int BY DEF TypeOK
<1> QED BY <1>1, DivMod, PoolAssumption DEF Slot

LEMMA SlotDistinct ==
    ASSUME TypeOK, NEW n \in 0..Capacity - 1, NEW m \in 0..Capacity - 1, Slot(n) = Slot(m)
    PROVE  n = m
<1> DEFINE a == pos + n
           b == pos + m
<1>1. a \in Int /\ b \in Int /\ a - b = n - m /\ b - a = m - n BY DEF TypeOK
<1>2. a % Capacity = b % Capacity BY DEF Slot
<1>3. n - m < Capacity /\ m - n < Capacity BY PoolAssumption
<1> HIDE DEF a, b
<1>4. a - b < Capacity /\ b - a < Capacity BY <1>1, <1>3
<1>5. Capacity \in Nat \ {0} BY PoolAssumption
<1>6. a = b BY <1>1, <1>2, <1>4, <1>5, ModDistinct
<1> QED BY <1>1, <1>6

LEMMA SlotAtZero ==
    ASSUME pos = 0, NEW n \in 0..Capacity - 1
    PROVE  Slot(n) = n
<1>1. (n % Capacity) \in 0..Capacity - 1 /\ n \div Capacity \in Int
      /\ n = Capacity * (n \div Capacity) + (n % Capacity)
  BY DivMod, PoolAssumption
<1>2. Capacity * 0 + n = n /\ 0 \in Int BY PoolAssumption
<1> DEFINE d == n \div Capacity
           m == n % Capacity
<1>3. Capacity * 0 + n = Capacity * d + m /\ m \in 0..Capacity - 1 /\ d \in Int BY <1>1, <1>2
<1> HIDE DEF d, m
<1>4. n = m BY <1>3, ModUnique, PoolAssumption
<1> QED BY <1>4 DEF m, Slot

\* pos is cut to PosRange, a multiple of Capacity, and the slots do not see it.
LEMMA SlotNext ==
    ASSUME TypeOK, pos' = (pos + 1) % PosRange, NEW n \in Int
    PROVE  Slot(n)' = Slot(n + 1)
<1> DEFINE d == (pos + 1) \div PosRange
           e == PosRange \div Capacity
<1>0. Capacity \in Nat \ {0} /\ PosRange \in Nat \ {0} BY PoolAssumption
<1>1. pos + 1 \in Int /\ pos \in Int BY DEF TypeOK
<1>2. d \in Int /\ pos' \in Int /\ pos + 1 = PosRange * d + pos' BY <1>0, <1>1, DivMod
<1>3. e \in Int /\ PosRange = Capacity * e + 0
  BY <1>0, DivMod, PoolAssumption
<1> HIDE DEF d, e
<1>4. pos + (n + 1) = Capacity * (e * d) + (pos' + n)
  <2>1. Capacity * (e * d) = (Capacity * e) * d BY <1>0, <1>2, <1>3
  <2>2. (Capacity * e) = PosRange BY <1>0, <1>3
  <2>3. PosRange * d \in Int BY <1>0, <1>2
  <2> QED BY <1>1, <1>2, <2>1, <2>2, <2>3
<1>5. e * d \in Int /\ pos' + n \in Int BY <1>2, <1>3
<1>6. (pos + (n + 1)) % Capacity = (pos' + n) % Capacity
  <2> DEFINE x == pos' + n
             y == pos + (n + 1)
             k == e * d
  <2>1. k \in Int /\ x \in Int /\ y = Capacity * k + x BY <1>4, <1>5
  <2> HIDE DEF x, y, k
  <2>2. (Capacity * k + x) % Capacity = x % Capacity BY ONLY <1>0, <2>1, ModShift
  <2>3. y % Capacity = x % Capacity BY <2>1, <2>2
  <2> QED BY <2>3 DEF x, y
<1> QED BY <1>6 DEF Slot

-----------------------------------------------------------------------------
(* The inductive invariant.                                                *)

\* PreAlloc, if called, returns before the pool is shared.
PreFirst == ~PreShared

At(n) == buf[Slot(n)]

\* The window and the hands of the clients are disjoint parts of the heap.
PoolStock ==
    /\ \A n \in 0..size - 1 : At(n) \in heap
    /\ \A n, m \in 0..size - 1 : At(n) = At(m) => n = m
PoolHeld ==
    /\ \A c \in Clients : held[c] \subseteq heap
    /\ \A c, d \in Clients : c # d => held[c] \cap held[d] = {}
    /\ \A c \in Clients, n \in 0..size - 1 : At(n) \notin held[c]

\* One object at most is neither in the window nor with a client.
PoolLoss == \E lost : \A o \in heap : \/ o = lost
                                      \/ \E n \in 0..size - 1 : o = At(n)
                                      \/ \E c \in Clients : o \in held[c]

\* In PreAlloc's loop the slots below i hold the heap, and the last of them is
\* outside the window.
PoolPre ==
    /\ pcPre # "done" => pos = 0 /\ \A c \in Clients : held[c] = {}
    /\ pcPre = "no" => size = 0 /\ heap = {} /\ i = 0
    /\ pcPre = "run" =>
          /\ i = 0 => size = 0
          /\ i > 0 => i = size + 1
          /\ \A j \in 0..i - 1 : buf[j] \in heap
          /\ \A j, k \in 0..i - 1 : buf[j] = buf[k] => j = k
          /\ \A o \in heap : \E j \in 0..i - 1 : o = buf[j]

PoolIInv == TypeOK /\ PoolStock /\ PoolHeld /\ PoolLoss /\ PoolPre

LEMMA PoolInit == Init => PoolIInv
<1> SUFFICES ASSUME Init PROVE PoolIInv
  OBVIOUS
<1>1. TypeOK BY PoolAssumption DEF Init, TypeOK
<1>2. size = 0 /\ heap = {} /\ i = 0 /\ pos = 0 /\ pcPre = "no" /\ \A c \in Clients : held[c] = {}
  BY DEF Init
<1>3. 0..size - 1 = {} BY <1>2
<1>4. PoolStock /\ PoolHeld /\ PoolLoss BY <1>2, <1>3 DEF PoolStock, PoolHeld, PoolLoss
<1>5. PoolPre BY <1>2 DEF PoolPre
<1> QED BY <1>1, <1>4, <1>5 DEF PoolIInv

\* A step that leaves the slots, the stock and the clients alone.
LEMMA PoolIdle ==
    ASSUME PoolIInv, UNCHANGED <<buf, pos, size, heap, held>>, TypeOK', PoolPre'
    PROVE  PoolIInv'
<1>1. \A n \in Int : At(n)' = At(n) BY DEF At, Slot
<1>2. size \in Int BY DEF PoolIInv, TypeOK
<1> HIDE DEF At
<1>3. PoolStock' BY <1>1, <1>2 DEF PoolIInv, PoolStock
<1>4. PoolHeld' BY <1>1, <1>2 DEF PoolIInv, PoolHeld
<1>5. PoolLoss'
  <2>1. PICK lost : \A o \in heap : \/ o = lost
                                    \/ \E n \in 0..size - 1 : o = At(n)
                                    \/ \E c \in Clients : o \in held[c]
    BY DEF PoolIInv, PoolLoss
  <2>2. \A o \in heap' : \/ o = lost
                         \/ \E n \in 0..size' - 1 : o = At(n)'
                         \/ \E c \in Clients : o \in held'[c]
    BY <1>1, <1>2, <2>1
  <2> QED BY <2>2 DEF PoolLoss
<1> QED BY <1>3, <1>4, <1>5 DEF PoolIInv

\* What the steps do to the window.
LEMMA AtPreTurn ==
    ASSUME PoolIInv, PreTurn
    PROVE  \A n \in 0..i - 1 : At(n) = buf[n] /\ At(n)' = buf[n]
<1>1. /\ pos' = pos /\ pos = 0 /\ i < Capacity /\ i \in Nat /\ i \in 0..Capacity - 1
      /\ buf \in [0..Capacity - 1 -> Objs \cup {Null}]
  BY PoolAssumption DEF PoolIInv, PoolPre, TypeOK, PreTurn
<1>2. PICK o \in Objs \ heap : buf' = [buf EXCEPT ![i] = o] BY DEF PreTurn
<1> TAKE n \in 0..i - 1
<1>3. n \in 0..Capacity - 1 /\ n # i BY <1>1, PoolAssumption
<1>4. Slot(n) = n BY <1>1, <1>3, SlotAtZero
<1>5. Slot(n)' = n BY <1>1, <1>4 DEF Slot
<1>6. buf'[n] = buf[n] BY <1>1, <1>2, <1>3
<1> QED BY <1>4, <1>5, <1>6 DEF At

LEMMA AtPreBreak ==
    ASSUME PoolIInv, PreBreak
    PROVE  \A n \in 0..size - 1 : At(n)' = At(n)
<1>1. /\ pos' = pos /\ pos = 0 /\ i \in 0..Capacity - 1 /\ size \in Nat
      /\ (size = 0 \/ i = size + 1) /\ buf' = [buf EXCEPT ![i] = Null]
      /\ buf \in [0..Capacity - 1 -> Objs \cup {Null}]
  BY PoolAssumption DEF PoolIInv, PoolPre, TypeOK, PreBreak
<1> TAKE n \in 0..size - 1
<1>2. n \in 0..Capacity - 1 /\ n # i BY <1>1, PoolAssumption
<1>3. Slot(n) = n BY <1>1, <1>2, SlotAtZero
<1>4. Slot(n)' = n BY <1>1, <1>3 DEF Slot
<1>5. buf'[n] = buf[n] BY <1>1, <1>2
<1> QED BY <1>3, <1>4, <1>5 DEF At

LEMMA AtAllocTake ==
    ASSUME PoolIInv, NEW c \in Clients, AllocTake(c)
    PROVE  \A n \in Int : At(n)' = At(n + 1)
<1> TAKE n \in Int
<1>1. Slot(n)' = Slot(n + 1) BY SlotNext DEF PoolIInv, AllocTake
<1> QED BY <1>1 DEF At, AllocTake

LEMMA AtFreePool ==
    ASSUME PoolIInv, NEW c \in Clients, NEW o \in held[c], FreePool(c, o)
    PROVE  /\ \A n \in 0..size - 1 : At(n)' = At(n)
           /\ \A n \in Nat : n = size => At(n)' = o
<1>1. TypeOK /\ size \in Nat /\ size \in 0..Capacity - 1
  BY PoolAssumption DEF PoolIInv, TypeOK, FreePool
<1>2. buf' = [buf EXCEPT ![Slot(size)] = o] /\ \A n \in Int : Slot(n)' = Slot(n)
  BY DEF FreePool, Slot
<1>3. Slot(size) \in 0..Capacity - 1 BY <1>1, SlotInRing
<1>4. ASSUME NEW n \in 0..size - 1 PROVE At(n)' = At(n)
  <2>1. n \in 0..Capacity - 1 /\ n # size /\ n \in Int BY <1>1, PoolAssumption
  <2>2. Slot(n) \in 0..Capacity - 1 BY <1>1, <2>1, SlotInRing
  <2>3. Slot(n) # Slot(size) BY <1>1, <2>1, SlotDistinct
  <2>4. buf'[Slot(n)] = buf[Slot(n)] BY <1>1, <1>2, <2>2, <2>3 DEF TypeOK
  <2> QED BY <1>2, <2>1, <2>4 DEF At
<1>5. ASSUME NEW n \in Nat, n = size PROVE At(n)' = o
  <2>1. Slot(n)' = Slot(size) BY <1>2, <1>5
  <2>2. buf'[Slot(size)] = o BY <1>1, <1>2, <1>3 DEF TypeOK
  <2> QED BY <2>1, <2>2 DEF At
<1> QED BY <1>4, <1>5

LEMMA PoolPreTurn == PoolIInv /\ PreTurn => PoolIInv'
<1> SUFFICES ASSUME PoolIInv, PreTurn PROVE PoolIInv'
  OBVIOUS
<1>1. TypeOK /\ PoolPre BY DEF PoolIInv
<1>2. PICK o \in Objs \ heap : buf' = [buf EXCEPT ![i] = o] /\ heap' = heap \cup {o}
  BY DEF PreTurn
<1>3. /\ pcPre = "run" /\ pcPre' = "run" /\ i < Capacity /\ size' = i /\ i' = i + 1
      /\ pos' = pos /\ pos = 0 /\ held' = held /\ \A c \in Clients : held[c] = {}
  BY <1>1 DEF PreTurn, PoolPre
<1>4. i \in Nat /\ i \in 0..Capacity - 1 BY <1>1, <1>3, PoolAssumption DEF TypeOK
<1>5. buf'[i] = o /\ \A j \in 0..i - 1 : buf'[j] = buf[j]
  BY <1>1, <1>2, <1>4 DEF TypeOK
<1>6. /\ \A j \in 0..i - 1 : buf[j] \in heap
      /\ \A j, k \in 0..i - 1 : buf[j] = buf[k] => j = k
      /\ \A x \in heap : \E j \in 0..i - 1 : x = buf[j]
  BY <1>1, <1>3 DEF PoolPre
<1>7. \A n \in 0..i - 1 : At(n)' = buf[n] BY AtPreTurn
<1>8. TypeOK'
  <2>1. buf' \in [0..Capacity - 1 -> Objs \cup {Null}] BY <1>1, <1>2, <1>4 DEF TypeOK
  <2> QED BY <1>1, <1>2, <1>3, <1>4, <2>1, PoolAssumption DEF TypeOK
<1> HIDE DEF At
<1>9. PoolStock' BY <1>2, <1>3, <1>6, <1>7 DEF PoolStock
<1>10. PoolHeld' BY <1>3 DEF PoolHeld
<1>11. PoolLoss'
  <2>1. \A x \in heap' : x = o \/ \E n \in 0..size' - 1 : x = At(n)'
    BY <1>2, <1>3, <1>6, <1>7
  <2> QED BY <2>1 DEF PoolLoss
<1>12. PoolPre'
  <2>1. \A j \in 0..i' - 1 : j = i \/ j \in 0..i - 1 BY <1>3, <1>4
  <2>2. \A j \in 0..i - 1 : j \in 0..i' - 1 BY <1>3, <1>4
  <2>3. i \in 0..i' - 1 BY <1>3, <1>4
  <2>4. \A j \in 0..i' - 1 : buf'[j] \in heap' BY <1>2, <1>5, <1>6, <2>1
  <2>5. \A j, k \in 0..i' - 1 : buf'[j] = buf'[k] => j = k BY <1>2, <1>5, <1>6, <2>1
  <2>6. \A x \in heap' : \E j \in 0..i' - 1 : x = buf'[j] BY <1>2, <1>5, <1>6, <2>2, <2>3
  <2>7. i' # 0 /\ i' = size' + 1 BY <1>3, <1>4
  <2> QED BY <1>3, <2>4, <2>5, <2>6, <2>7 DEF PoolPre
<1> QED BY <1>8, <1>9, <1>10, <1>11, <1>12 DEF PoolIInv

LEMMA PoolPreBreak == PoolIInv /\ PreBreak => PoolIInv'
<1> SUFFICES ASSUME PoolIInv, PreBreak PROVE PoolIInv'
  OBVIOUS
<1>1. TypeOK /\ PoolPre BY DEF PoolIInv
<1>2. /\ pcPre = "run" /\ pcPre' = "done" /\ i < Capacity /\ buf' = [buf EXCEPT ![i] = Null]
      /\ UNCHANGED <<pos, size, heap, held, i>>
  BY DEF PreBreak
<1>3. i \in 0..Capacity - 1 /\ i \in Nat /\ size \in Nat /\ pos = 0 /\ (size = 0 \/ i = size + 1)
  BY <1>1, <1>2, PoolAssumption DEF TypeOK, PoolPre
<1>4. \A n \in 0..size - 1 : At(n)' = At(n) BY AtPreBreak
<1>5. TypeOK' BY <1>1, <1>2, <1>3 DEF TypeOK
<1> HIDE DEF At
<1>6. PoolStock' BY <1>2, <1>4 DEF PoolIInv, PoolStock
<1>7. PoolHeld' BY <1>2, <1>4 DEF PoolIInv, PoolHeld
<1>8. PoolLoss'
  <2>1. PICK lost : \A o \in heap : \/ o = lost
                                    \/ \E n \in 0..size - 1 : o = At(n)
                                    \/ \E c \in Clients : o \in held[c]
    BY DEF PoolIInv, PoolLoss
  <2>2. \A o \in heap' : \/ o = lost
                         \/ \E n \in 0..size' - 1 : o = At(n)'
                         \/ \E c \in Clients : o \in held'[c]
    BY <1>2, <1>4, <2>1
  <2> QED BY <2>2 DEF PoolLoss
<1>9. PoolPre' BY <1>2 DEF PoolPre
<1> QED BY <1>5, <1>6, <1>7, <1>8, <1>9 DEF PoolIInv

LEMMA PoolAllocTake ==
    ASSUME PoolIInv, pcPre = "done", NEW c \in Clients, AllocTake(c)
    PROVE  PoolIInv'
<1>1. TypeOK /\ PoolStock /\ PoolHeld BY DEF PoolIInv
<1>2. /\ size > 0 /\ size' = size - 1 /\ pos' = (pos + 1) % PosRange
      /\ held' = [held EXCEPT ![c] = @ \cup {At(0)}]
      /\ UNCHANGED <<buf, heap, pcPre, i>>
  BY DEF AllocTake, At, preVars
<1>3. size \in Nat /\ size > 0 /\ size' = size - 1 /\ size' \in 0..Capacity
  BY <1>1, <1>2, PoolAssumption DEF TypeOK
<1>4. \A n \in Int : At(n)' = At(n + 1) BY AtAllocTake
<1>5. \A n \in 0..size' - 1 : n \in Int /\ n + 1 \in 0..size - 1 /\ n + 1 # 0 BY <1>3
<1>6. 0 \in 0..size - 1 BY <1>3
<1>7. held'[c] = held[c] \cup {At(0)} /\ \A d \in Clients : d # c => held'[d] = held[d]
  BY <1>1, <1>2 DEF TypeOK
<1>8. TypeOK'
  <2>1. At(0) \in Objs BY <1>1, <1>6 DEF PoolStock, TypeOK
  <2>2. (pos + 1) % PosRange \in 0..PosRange - 1
    <3>1. pos + 1 \in Int BY <1>1 DEF TypeOK
    <3> QED BY <3>1, DivMod, PoolAssumption
  <2> HIDE DEF At
  <2>3. held' \in [Clients -> SUBSET (Objs \cup {Null})] BY <1>1, <1>2, <2>1 DEF TypeOK
  <2> QED BY <1>1, <1>2, <1>3, <2>2, <2>3 DEF TypeOK
<1> HIDE DEF At
<1>9. PoolStock'
  <2>1. \A n \in 0..size' - 1 : At(n)' \in heap' BY <1>1, <1>2, <1>4, <1>5 DEF PoolStock
  <2>2. ASSUME NEW n \in 0..size' - 1, NEW m \in 0..size' - 1, At(n)' = At(m)' PROVE n = m
    <3>1. n + 1 = m + 1 BY <1>1, <1>4, <1>5, <2>2 DEF PoolStock
    <3> QED BY <1>5, <3>1
  <2> QED BY <2>1, <2>2 DEF PoolStock
<1>10. PoolHeld'
  <2>1. \A d \in Clients : held'[d] \subseteq heap' BY <1>1, <1>2, <1>6, <1>7 DEF PoolStock, PoolHeld
  <2>2. \A d \in Clients : At(0) \notin held[d] BY <1>1, <1>6 DEF PoolHeld
  <2>3. \A d, e \in Clients : d # e => held'[d] \cap held'[e] = {} BY <1>1, <1>7, <2>2 DEF PoolHeld
  <2>4. ASSUME NEW d \in Clients, NEW n \in 0..size' - 1 PROVE At(n)' \notin held'[d]
    <3>1. At(n + 1) \notin held[d] /\ At(n + 1) # At(0)
      BY <1>1, <1>5, <1>6 DEF PoolStock, PoolHeld
    <3> QED BY <1>4, <1>5, <1>7, <3>1
  <2> QED BY <2>1, <2>3, <2>4 DEF PoolHeld
<1>11. PoolLoss'
  <2>1. PICK lost : \A o \in heap : \/ o = lost
                                    \/ \E n \in 0..size - 1 : o = At(n)
                                    \/ \E d \in Clients : o \in held[d]
    BY DEF PoolIInv, PoolLoss
  <2>2. ASSUME NEW o \in heap', o # lost
        PROVE  (\E n \in 0..size' - 1 : o = At(n)') \/ \E d \in Clients : o \in held'[d]
    <3>1. CASE \E d \in Clients : o \in held[d] BY <1>7, <3>1
    <3>2. ASSUME NEW n \in 0..size - 1, o = At(n)
          PROVE  (\E m \in 0..size' - 1 : o = At(m)') \/ \E d \in Clients : o \in held'[d]
      <4>1. CASE n = 0 BY <1>7, <3>2, <4>1
      <4>2. CASE n # 0
        <5> DEFINE m == n - 1
        <5>1. m \in 0..size' - 1 /\ m \in Int /\ m + 1 = n BY <1>3, <4>2
        <5> HIDE DEF m
        <5>2. At(m)' = At(n) BY <1>4, <5>1
        <5> QED BY <3>2, <5>1, <5>2
      <4> QED BY <4>1, <4>2
    <3> QED BY <1>2, <2>1, <2>2, <3>1, <3>2
  <2> QED BY <2>2 DEF PoolLoss
<1>12. PoolPre' BY <1>2 DEF PoolPre
<1> QED BY <1>8, <1>9, <1>10, <1>11, <1>12 DEF PoolIInv

LEMMA PoolAllocNew ==
    ASSUME PoolIInv, pcPre = "done", NEW c \in Clients, AllocNew(c)
    PROVE  PoolIInv'
<1>1. TypeOK /\ PoolStock /\ PoolHeld BY DEF PoolIInv
<1>2. PICK o \in Objs \ heap : held' = [held EXCEPT ![c] = @ \cup {o}] /\ heap' = heap \cup {o}
  BY DEF AllocNew
<1>3. UNCHANGED <<buf, pos, size, pcPre, i>> /\ size \in Int BY <1>1 DEF AllocNew, preVars, TypeOK
<1>4. \A n \in Int : At(n)' = At(n) BY <1>3 DEF At, Slot
<1>5. held'[c] = held[c] \cup {o} /\ \A d \in Clients : d # c => held'[d] = held[d]
  BY <1>1, <1>2 DEF TypeOK
<1>6. TypeOK' BY <1>1, <1>2, <1>3 DEF TypeOK
<1> HIDE DEF At
<1>7. PoolStock' BY <1>1, <1>2, <1>3, <1>4 DEF PoolStock
<1>8. PoolHeld'
  <2>1. \A d \in Clients : held'[d] \subseteq heap' BY <1>1, <1>2, <1>5 DEF PoolHeld
  <2>2. \A d \in Clients : o \notin held[d] BY <1>1, <1>2 DEF PoolHeld
  <2>3. \A d, e \in Clients : d # e => held'[d] \cap held'[e] = {} BY <1>1, <1>5, <2>2 DEF PoolHeld
  <2>4. \A d \in Clients, n \in 0..size' - 1 : At(n)' \notin held'[d]
    BY <1>1, <1>2, <1>3, <1>4, <1>5 DEF PoolStock, PoolHeld
  <2> QED BY <2>1, <2>3, <2>4 DEF PoolHeld
<1>9. PoolLoss'
  <2>1. PICK lost : \A x \in heap : \/ x = lost
                                    \/ \E n \in 0..size - 1 : x = At(n)
                                    \/ \E d \in Clients : x \in held[d]
    BY DEF PoolIInv, PoolLoss
  <2>2. \A x \in heap' : \/ x = lost
                         \/ \E n \in 0..size' - 1 : x = At(n)'
                         \/ \E d \in Clients : x \in held'[d]
    BY <1>2, <1>3, <1>4, <1>5, <2>1
  <2> QED BY <2>2 DEF PoolLoss
<1>10. PoolPre' BY <1>3 DEF PoolPre
<1> QED BY <1>6, <1>7, <1>8, <1>9, <1>10 DEF PoolIInv

LEMMA PoolFreePool ==
    ASSUME PoolIInv, pcPre = "done", NEW c \in Clients, NEW o \in held[c], FreePool(c, o)
    PROVE  PoolIInv'
<1>1. TypeOK /\ PoolStock /\ PoolHeld BY DEF PoolIInv
<1>2. /\ size < Capacity /\ size' = size + 1
      /\ held' = [held EXCEPT ![c] = @ \ {o}]
      /\ buf' = [buf EXCEPT ![Slot(size)] = o]
      /\ UNCHANGED <<pos, heap, pcPre, i>>
  BY DEF FreePool, preVars
<1>3. size \in Nat /\ size \in 0..Capacity - 1 /\ size' \in 0..Capacity BY <1>1, <1>2, PoolAssumption DEF TypeOK
<1>4. o \in heap /\ o \in Objs BY <1>1 DEF PoolHeld, TypeOK
<1>6. Slot(size) \in 0..Capacity - 1 BY <1>1, <1>3, SlotInRing
<1>7. buf' \in [0..Capacity - 1 -> Objs \cup {Null}] BY <1>1, <1>2, <1>4, <1>6 DEF TypeOK
<1>8. \A n \in 0..size - 1 : At(n)' = At(n) BY AtFreePool
<1> PICK last \in Nat : last = size BY <1>3
<1>9. At(last)' = o BY AtFreePool
<1>10. \A n \in 0..size' - 1 : n \in 0..size - 1 \/ n = last BY <1>2, <1>3
<1>11. last \in 0..size' - 1 /\ \A n \in 0..size - 1 : n \in 0..size' - 1 BY <1>2, <1>3
<1>12. held'[c] = held[c] \ {o} /\ \A d \in Clients : d # c => held'[d] = held[d]
  BY <1>1, <1>2 DEF TypeOK
<1>13. TypeOK' BY <1>1, <1>2, <1>3, <1>7 DEF TypeOK
<1> HIDE DEF At
<1>14. PoolStock'
  <2>1. \A n \in 0..size' - 1 : At(n)' \in heap'
    BY <1>1, <1>2, <1>4, <1>8, <1>9, <1>10 DEF PoolStock
  <2>2. \A n \in 0..size - 1 : At(n) # o BY <1>1 DEF PoolHeld
  <2>3. \A n, m \in 0..size' - 1 : At(n)' = At(m)' => n = m
    BY <1>1, <1>8, <1>9, <1>10, <2>2 DEF PoolStock
  <2> QED BY <2>1, <2>3 DEF PoolStock
<1>15. PoolHeld'
  <2>1. \A d \in Clients : held'[d] \subseteq heap' BY <1>1, <1>2, <1>12 DEF PoolHeld
  <2>2. \A d, e \in Clients : d # e => held'[d] \cap held'[e] = {} BY <1>1, <1>12 DEF PoolHeld
  <2>3. \A d \in Clients : o \notin held'[d] BY <1>1, <1>12 DEF PoolHeld
  <2>4. \A d \in Clients, n \in 0..size' - 1 : At(n)' \notin held'[d]
    BY <1>1, <1>8, <1>9, <1>10, <1>12, <2>3 DEF PoolHeld
  <2> QED BY <2>1, <2>2, <2>4 DEF PoolHeld
<1>16. PoolLoss'
  <2>1. PICK lost : \A x \in heap : \/ x = lost
                                    \/ \E n \in 0..size - 1 : x = At(n)
                                    \/ \E d \in Clients : x \in held[d]
    BY DEF PoolIInv, PoolLoss
  <2>2. ASSUME NEW x \in heap', x # lost
        PROVE  (\E n \in 0..size' - 1 : x = At(n)') \/ \E d \in Clients : x \in held'[d]
    <3>1. CASE \E n \in 0..size - 1 : x = At(n) BY <1>8, <1>11, <3>1
    <3>2. CASE x = o BY <1>9, <1>11, <3>2
    <3>3. CASE x # o /\ \E d \in Clients : x \in held[d] BY <1>12, <3>3
    <3> QED BY <1>2, <2>1, <2>2, <3>1, <3>2, <3>3
  <2> QED BY <2>2 DEF PoolLoss
<1>17. PoolPre' BY <1>2 DEF PoolPre
<1> QED BY <1>13, <1>14, <1>15, <1>16, <1>17 DEF PoolIInv

LEMMA PoolFreeDelete ==
    ASSUME PoolIInv, pcPre = "done", NEW c \in Clients, NEW o \in held[c], FreeDelete(c, o)
    PROVE  PoolIInv'
<1>1. TypeOK /\ PoolStock /\ PoolHeld BY DEF PoolIInv
<1>2. /\ held' = [held EXCEPT ![c] = @ \ {o}] /\ heap' = heap \ {o}
      /\ UNCHANGED <<buf, pos, size, pcPre, i>> /\ size \in Int
  BY <1>1 DEF FreeDelete, preVars, TypeOK
<1>3. \A n \in Int : At(n)' = At(n) BY <1>2 DEF At, Slot
<1>4. held'[c] = held[c] \ {o} /\ \A d \in Clients : d # c => held'[d] = held[d]
  BY <1>1, <1>2 DEF TypeOK
<1>5. TypeOK' BY <1>1, <1>2 DEF TypeOK
<1> HIDE DEF At
<1>6. PoolStock' BY <1>1, <1>2, <1>3 DEF PoolStock, PoolHeld
<1>7. PoolHeld'
  <2>1. \A d \in Clients : held'[d] \subseteq heap' BY <1>1, <1>2, <1>4 DEF PoolHeld
  <2>2. \A d, e \in Clients : d # e => held'[d] \cap held'[e] = {} BY <1>1, <1>4 DEF PoolHeld
  <2>3. \A d \in Clients, n \in 0..size' - 1 : At(n)' \notin held'[d]
    BY <1>1, <1>2, <1>3, <1>4 DEF PoolHeld
  <2> QED BY <2>1, <2>2, <2>3 DEF PoolHeld
<1>8. PoolLoss'
  <2>1. PICK lost : \A x \in heap : \/ x = lost
                                    \/ \E n \in 0..size - 1 : x = At(n)
                                    \/ \E d \in Clients : x \in held[d]
    BY DEF PoolIInv, PoolLoss
  <2>2. \A x \in heap' : \/ x = lost
                         \/ \E n \in 0..size' - 1 : x = At(n)'
                         \/ \E d \in Clients : x \in held'[d]
    BY <1>2, <1>3, <1>4, <2>1
  <2> QED BY <2>2 DEF PoolLoss
<1>9. PoolPre' BY <1>2 DEF PoolPre
<1> QED BY <1>5, <1>6, <1>7, <1>8, <1>9 DEF PoolIInv

LEMMA PoolNext == PreFirst /\ PoolIInv /\ [Next]_vars => PoolIInv'
<1> SUFFICES ASSUME PreFirst, PoolIInv, [Next]_vars PROVE PoolIInv'
  OBVIOUS
<1> USE DEF PreFirst
<1>1. TypeOK /\ PoolPre BY DEF PoolIInv
<1>2. CASE PreBegin
  <2>1. pcPre = "no" /\ pcPre' \in {"run", "done"} /\ UNCHANGED <<buf, pos, size, heap, held, i>>
    BY <1>2 DEF PreBegin
  <2>2. TypeOK' BY <1>1, <2>1 DEF TypeOK
  <2>3. size = 0 /\ heap = {} /\ i = 0 /\ pos = 0 /\ \A c \in Clients : held[c] = {}
    BY <1>1, <2>1 DEF PoolPre
  <2>4. 0..i - 1 = {} BY <2>3
  <2>5. PoolPre' BY <2>1, <2>3, <2>4 DEF PoolPre
  <2> QED BY <2>1, <2>2, <2>5, PoolIdle
<1>3. CASE PreSkip \/ PreEnd
  <2>1. pcPre' = "done" /\ UNCHANGED <<buf, pos, size, heap, held, i>> BY <1>3 DEF PreSkip, PreEnd
  <2>2. TypeOK' BY <1>1, <2>1 DEF TypeOK
  <2>3. PoolPre' BY <2>1 DEF PoolPre
  <2> QED BY <2>1, <2>2, <2>3, PoolIdle
<1>4. CASE PreTurn BY <1>4, PoolPreTurn
<1>5. CASE PreBreak BY <1>5, PoolPreBreak
<1>6. ASSUME NEW c \in Clients, Client(c) PROVE PoolIInv'
  <2>1. pcPre = "done" BY <1>6 DEF Client, AllocTake, AllocNew, FreePool, FreeDelete, Open
  <2>2. CASE AllocTake(c) BY <2>1, <2>2, PoolAllocTake
  <2>3. CASE AllocNew(c) BY <2>1, <2>3, PoolAllocNew
  <2>4. ASSUME NEW o \in held[c], FreePool(c, o) \/ FreeDelete(c, o) PROVE PoolIInv'
    BY <2>1, <2>4, PoolFreePool, PoolFreeDelete
  <2> QED BY <1>6, <2>2, <2>3, <2>4 DEF Client
<1>7. CASE UNCHANGED vars
  <2>1. UNCHANGED <<buf, pos, size, heap, held, pcPre, i>> BY <1>7 DEF vars
  <2>2. TypeOK' BY <1>1, <2>1 DEF TypeOK
  <2>3. PoolPre' BY <1>1, <2>1 DEF PoolPre
  <2> QED BY <2>1, <2>2, <2>3, PoolIdle
<1> QED BY <1>2, <1>3, <1>4, <1>5, <1>6, <1>7 DEF Next, PreAlloc

-----------------------------------------------------------------------------
(* Counting the window, and what is outside it.                            *)

LEMMA PoolCounts == PoolIInv => NoAlias /\ LossBound
<1> SUFFICES ASSUME PoolIInv PROVE NoAlias /\ LossBound
  OBVIOUS
<1> DEFINE I == 0..size - 1
           slots == [n \in I |-> Slot(n)]
           objs == [n \in I |-> At(n)]
<1>1. TypeOK /\ PoolStock /\ PoolHeld BY DEF PoolIInv
<1>2. size \in Nat /\ size <= Capacity /\ Capacity \in Nat BY <1>1, PoolAssumption DEF TypeOK
<1>3. IsFiniteSet(I) /\ Cardinality(I) = size
  <2>1. 0 \in Int /\ size - 1 \in Int /\ (0 > size - 1 => size = 0) /\ size - 1 - 0 + 1 = size BY <1>2
  <2> QED BY <2>1, FS_Interval
<1>4. \A n, m \in I : Slot(n) = Slot(m) => n = m
  <2> TAKE n \in I, m \in I
  <2>1. n \in 0..Capacity - 1 /\ m \in 0..Capacity - 1 BY <1>2
  <2> QED BY <1>1, <2>1, SlotDistinct
<1>5. slots \in Bijection(I, WindowSlots)
  BY <1>4 DEF Bijection, Injection, Surjection, IsInjective, WindowSlots
<1>6. Cardinality(WindowSlots) = size
  BY <1>3, <1>5, FS_Bijection DEF ExistsBijection
<1>7. Window = {At(n) : n \in I} BY DEF Window, WindowSlots, At
<1>8. objs \in Bijection(I, Window)
  BY <1>1, <1>7 DEF Bijection, Injection, Surjection, IsInjective, PoolStock
<1>9. Cardinality(Window) = size
  BY <1>3, <1>8, FS_Bijection DEF ExistsBijection
<1>10. Window \cup Owned \subseteq heap /\ Window \cap Owned = {}
  BY <1>1, <1>7 DEF PoolStock, PoolHeld, Owned
<1>11. NoAlias BY <1>1, <1>6, <1>9, <1>10 DEF NoAlias, PoolHeld
<1>12. LossBound
  <2>1. PICK lost : \A o \in heap : \/ o = lost
                                    \/ \E n \in I : o = At(n)
                                    \/ \E c \in Clients : o \in held[c]
    BY DEF PoolIInv, PoolLoss
  <2>2. heap \ (Window \cup Owned) \in SUBSET {lost} BY <1>7, <2>1 DEF Owned
  <2>3. IsFiniteSet({lost}) /\ Cardinality({lost}) = 1 BY FS_Singleton
  <2> QED BY <2>2, <2>3, FS_Subset DEF LossBound
<1> QED BY <1>11, <1>12

\* If PreAlloc comes first, every object has one owner ...
THEOREM PoolNoAlias == PreFirst => (Spec => []NoAlias)
<1> SUFFICES ASSUME PreFirst PROVE Spec => []NoAlias
  OBVIOUS
<1> QED BY PoolInit, PoolNext, PoolCounts, PTL DEF Spec

\* ... and one object at most is lost.
THEOREM PoolLossBound == PreFirst => (Spec => []LossBound)
<1> SUFFICES ASSUME PreFirst PROVE Spec => []LossBound
  OBVIOUS
<1> QED BY PoolInit, PoolNext, PoolCounts, PTL DEF Spec

-----------------------------------------------------------------------------
(* The refinement.                                                         *)

Stock == [n \in 1..size |-> buf[Slot(n - 1)]]

LEMMA StockIs ==
    ASSUME PoolIInv
    PROVE  /\ Stock \in Seq(Objs)
           /\ Len(Stock) = size
           /\ \A n \in 1..size : Stock[n] = At(n - 1)
<1>1. size \in Nat /\ \A n \in 1..size : n - 1 \in 0..size - 1 /\ n \in Int BY DEF PoolIInv, TypeOK
<1>2. \A n \in 1..size : At(n - 1) \in Objs BY <1>1 DEF PoolIInv, PoolStock, TypeOK
<1>3. Stock = [n \in 1..size |-> At(n - 1)] BY DEF Stock, At
<1> HIDE DEF At
<1> QED BY <1>1, <1>2, <1>3

\* What is in use is part of the heap.
LEMMA InUseIs ==
    ASSUME PoolIInv
    PROVE  /\ Pool!InUse = {At(n) : n \in 0..size - 1} \cup Owned
           /\ Pool!InUse \subseteq heap
<1>1. Pool!ToSet(Stock) = {At(n) : n \in 0..size - 1}
  <2>1. Pool!ToSet(Stock) = {Stock[n] : n \in 1..size} BY DEF Pool!ToSet, Stock
  <2>2. \A n \in 1..size : n - 1 \in 0..size - 1 /\ Stock[n] = At(n - 1)
    BY StockIs DEF PoolIInv, TypeOK
  <2>3. \A n \in 0..size - 1 : n + 1 \in 1..size /\ Stock[n + 1] = At(n)
    BY StockIs DEF PoolIInv, TypeOK
  <2> HIDE DEF At, Stock
  <2> QED BY <2>1, <2>2, <2>3
<1>2. Pool!InUse = Pool!ToSet(Stock) \cup Owned BY DEF Pool!InUse, Stock, Owned
<1>3. {At(n) : n \in 0..size - 1} \subseteq heap /\ Owned \subseteq heap
  BY DEF PoolIInv, PoolStock, PoolHeld, Owned
<1> QED BY <1>1, <1>2, <1>3

LEMMA StockSame ==
    ASSUME PoolIInv, PoolIInv', size' = size, \A n \in 0..size - 1 : At(n)' = At(n)
    PROVE  Stock' = Stock
<1>1. size \in Nat /\ \A n \in 1..size : n - 1 \in 0..size - 1 BY DEF PoolIInv, TypeOK
<1>2. Stock' = [n \in 1..size |-> At(n - 1)'] BY DEF Stock, At
<1>3. Stock = [n \in 1..size |-> At(n - 1)] BY DEF Stock, At
<1> HIDE DEF At, Stock
<1>4. \A n \in 1..size : At(n - 1)' = At(n - 1) BY <1>1
<1> QED BY <1>2, <1>3, <1>4

LEMMA StockGrows ==
    ASSUME PoolIInv, PoolIInv', size' = size + 1, NEW o \in Objs,
           \A n \in 0..size - 1 : At(n)' = At(n), \A n \in Nat : n = size => At(n)' = o
    PROVE  Stock' = Append(Stock, o)
<1>1. size \in Nat /\ \A n \in 1..size : n - 1 \in 0..size - 1 BY DEF PoolIInv, TypeOK
<1>2. Stock' = [n \in 1..size + 1 |-> At(n - 1)'] BY DEF Stock, At
<1>3. Stock = [n \in 1..size |-> At(n - 1)] BY DEF Stock, At
<1>4. /\ Append(Stock, o) \in [1..size + 1 -> Objs]
      /\ \A n \in 1..size + 1 : Append(Stock, o)[n] = IF n = size + 1 THEN o ELSE Stock[n]
  <2>1. Stock \in Seq(Objs) /\ Len(Stock) = size BY StockIs
  <2> HIDE DEF Stock
  <2>2. /\ Append(Stock, o) \in Seq(Objs) /\ Len(Append(Stock, o)) = size + 1
        /\ \A n \in 1..size : Append(Stock, o)[n] = Stock[n]
        /\ Append(Stock, o)[size + 1] = o
    BY <2>1, AppendProperties
  <2>3. \A n \in 1..size + 1 : n = size + 1 \/ n \in 1..size BY <1>1
  <2> QED BY <1>1, <2>2, <2>3, LenProperties
<1> HIDE DEF At, Stock
<1>5. \A n \in 1..size + 1 : At(n - 1)' = IF n = size + 1 THEN o ELSE Stock[n]
  <2> TAKE n \in 1..size + 1
  <2>1. CASE n = size + 1
    <3>1. n - 1 \in Nat /\ n - 1 = size BY <1>1, <2>1
    <3> QED BY <2>1, <3>1
  <2>2. CASE n # size + 1
    <3>1. n \in 1..size BY <1>1, <2>2
    <3> QED BY <1>1, <1>3, <2>2, <3>1
  <2> QED BY <2>1, <2>2
<1> QED BY <1>2, <1>4, <1>5

LEMMA StockShrinks ==
    ASSUME PoolIInv, PoolIInv', size > 0, size' = size - 1,
           \A n \in 0..size - 1 : At(n)' = At(n + 1)
    PROVE  Stock # <<>> /\ Head(Stock) = At(0) /\ Stock' = Tail(Stock)
<1>1. size \in Nat /\ size' \in Nat BY DEF PoolIInv, TypeOK
<1>2. Stock \in Seq(Objs) /\ Len(Stock) = size /\ \A n \in 1..size : Stock[n] = At(n - 1)
  BY StockIs
<1>3. Stock # <<>> BY <1>2
<1>4. Head(Stock) = At(0)
  <2>1. Head(Stock) = Stock[1] BY <1>2
  <2>2. 1 \in 1..size /\ 1 - 1 = 0 BY <1>1
  <2> HIDE DEF At
  <2> QED BY <1>2, <2>1, <2>2
<1>5. Stock' = [n \in 1..size - 1 |-> At(n - 1)'] BY DEF Stock, At
<1>6. /\ Tail(Stock) \in [1..size - 1 -> Objs]
      /\ \A n \in 1..size - 1 : Tail(Stock)[n] = Stock[n + 1]
  BY <1>2, <1>3, HeadTailProperties, LenProperties
<1> HIDE DEF At, Stock
<1>7. \A n \in 1..size - 1 : At(n - 1)' = Stock[n + 1]
  <2> TAKE n \in 1..size - 1
  <2>1. n - 1 \in 0..size - 1 /\ n + 1 \in 1..size /\ (n - 1) + 1 = n /\ (n + 1) - 1 = n BY <1>1
  <2>2. At(n - 1)' = At((n - 1) + 1) BY <2>1
  <2>3. Stock[n + 1] = At((n + 1) - 1) BY <1>2, <2>1
  <2> QED BY <2>1, <2>2, <2>3
<1> QED BY <1>3, <1>4, <1>5, <1>6, <1>7

\* The pool is a bounded first-in first-out stock of free objects.
THEOREM PoolRefinement == PreFirst => (Spec => ImplementsPool)
<1> SUFFICES ASSUME PreFirst PROVE Spec => Pool!Spec
  BY DEF ImplementsPool
<1>1. Init => Pool!Init
  <2> SUFFICES ASSUME Init PROVE Pool!Init
    OBVIOUS
  <2>1. PoolIInv /\ size = 0 BY PoolInit DEF Init
  <2>2. Stock = <<>> BY <2>1, StockIs, EmptySeq
  <2>3. held = [c \in Clients |-> {}] BY DEF Init
  <2> QED BY <2>2, <2>3 DEF Pool!Init, Stock
<1>2. PoolIInv /\ PoolIInv' /\ [Next]_vars => [Pool!Next]_(Pool!vars)
  <2> SUFFICES ASSUME PoolIInv, PoolIInv', [Next]_vars PROVE [Pool!Next]_(Pool!vars)
    OBVIOUS
  <2>1. ASSUME UNCHANGED Stock, UNCHANGED held PROVE UNCHANGED Pool!vars
    BY <2>1 DEF Pool!vars, Stock
  <2>2. ASSUME UNCHANGED <<buf, pos, size>> PROVE UNCHANGED Stock
    BY <2>2 DEF Stock, Slot
  <2>3. size \in Nat /\ size \in 0..Capacity /\ i \in Nat BY DEF PoolIInv, TypeOK
  <2>4. CASE PreBegin \/ PreSkip \/ PreEnd
    BY <2>1, <2>2, <2>4 DEF PreBegin, PreSkip, PreEnd
  <2>5. CASE PreTurn
    <3>1. /\ size' = i /\ held' = held /\ i < Capacity /\ (i = 0 => size = 0) /\ (i > 0 => i = size + 1)
          /\ \A j, k \in 0..i - 1 : buf[j] = buf[k] => j = k
          /\ \A j \in 0..i - 1 : buf[j] \in heap
          /\ \A c \in Clients : held[c] = {}
      BY <2>5 DEF PreTurn, PoolIInv, PoolPre
    <3>2. CASE i = 0
      <4>1. 0..size - 1 = {} /\ size' = size BY <3>1, <3>2
      <4> QED BY <2>1, <3>1, <4>1, StockSame
    <3>3. CASE i > 0
      <4> DEFINE o == buf[size]
      <4>1. size \in 0..i - 1 /\ size' = size + 1 /\ \A n \in 0..size - 1 : n \in 0..i - 1 /\ n # size
        BY <2>3, <3>1, <3>3
      <4>2. o \in Objs BY <3>1, <4>1 DEF PoolIInv, TypeOK
      <4>3. /\ \A n \in 0..size - 1 : At(n)' = At(n) /\ At(n) = buf[n]
            /\ \A n \in Nat : n = size => At(n)' = o
        BY <2>5, <4>1, AtPreTurn
      <4> HIDE DEF At
      <4>4. Stock' = Append(Stock, o) BY <4>1, <4>2, <4>3, StockGrows
      <4>5. o \notin Pool!InUse
        <5>1. Pool!InUse = {At(n) : n \in 0..size - 1} BY <3>1, InUseIs DEF Owned
        <5> QED BY <3>1, <4>1, <4>3, <5>1
      <4>6. Len(Stock) < Capacity BY <2>3, <3>1, <3>3, StockIs, PoolAssumption
      <4>7. Pool!Fill(o) BY <3>1, <4>4, <4>5, <4>6 DEF Pool!Fill, Stock
      <4> QED BY <4>2, <4>7 DEF Pool!Next
    <3> QED BY <2>3, <3>2, <3>3
  <2>6. CASE PreBreak
    <3>1. \A n \in 0..size - 1 : At(n)' = At(n) BY <2>6, AtPreBreak
    <3>2. size' = size /\ held' = held BY <2>6 DEF PreBreak
    <3> QED BY <2>1, <3>1, <3>2, StockSame
  <2>7. ASSUME NEW c \in Clients, AllocTake(c) PROVE Pool!Next
    <3>1. /\ size > 0 /\ size' = size - 1
          /\ held' = [held EXCEPT ![c] = @ \cup {At(0)}]
      BY <2>7 DEF AllocTake, At
    <3>2. \A n \in 0..size - 1 : At(n)' = At(n + 1) BY <2>7, AtAllocTake
    <3>3. Stock # <<>> /\ Head(Stock) = At(0) /\ Stock' = Tail(Stock)
      BY <3>1, <3>2, StockShrinks
    <3>4. Pool!Take(c) BY <3>1, <3>3 DEF Pool!Take, Stock
    <3> QED BY <3>4 DEF Pool!Next
  <2>8. ASSUME NEW c \in Clients, AllocNew(c) PROVE Pool!Next
    <3>1. PICK o \in Objs \ heap : held' = [held EXCEPT ![c] = @ \cup {o}] BY <2>8 DEF AllocNew
    <3>2. UNCHANGED Stock BY <2>2, <2>8 DEF AllocNew
    <3>3. Stock = <<>>
      <4>1. size = 0 BY <2>3, <2>8 DEF AllocNew
      <4> QED BY <4>1, StockIs, EmptySeq
    <3>4. o \in Objs \ Pool!InUse BY <3>1, InUseIs
    <3>5. Pool!Take(c) BY <3>1, <3>2, <3>3, <3>4 DEF Pool!Take, Stock
    <3> QED BY <3>5 DEF Pool!Next
  <2>9. ASSUME NEW c \in Clients, NEW o \in held[c], FreePool(c, o) PROVE Pool!Next
    <3>1. /\ size < Capacity /\ size' = size + 1 /\ held' = [held EXCEPT ![c] = @ \ {o}]
      BY <2>9 DEF FreePool
    <3>2. o \in Objs BY DEF PoolIInv, PoolHeld, TypeOK
    <3>3. Stock' = Append(Stock, o) BY <2>9, <3>1, <3>2, AtFreePool, StockGrows
    <3>4. Len(Stock) < Capacity BY <3>1, StockIs
    <3>5. Pool!Give(c, o) BY <3>1, <3>3, <3>4 DEF Pool!Give, Stock
    <3> QED BY <3>5 DEF Pool!Next
  <2>10. ASSUME NEW c \in Clients, NEW o \in held[c], FreeDelete(c, o) PROVE Pool!Next
    <3>1. size >= Capacity /\ held' = [held EXCEPT ![c] = @ \ {o}] BY <2>10 DEF FreeDelete
    <3>2. UNCHANGED Stock BY <2>2, <2>10 DEF FreeDelete
    <3>3. ~(Len(Stock) < Capacity) BY <2>3, <3>1, StockIs, PoolAssumption
    <3>4. Pool!Give(c, o) BY <3>1, <3>2, <3>3 DEF Pool!Give, Stock
    <3> QED BY <3>4 DEF Pool!Next
  <2>11. CASE UNCHANGED vars BY <2>1, <2>2, <2>11 DEF vars
  <2> QED BY <2>4, <2>5, <2>6, <2>7, <2>8, <2>9, <2>10, <2>11 DEF Next, PreAlloc, Client
<1> QED BY <1>1, <1>2, PoolInit, PoolNext, PTL DEF Spec, Pool!Spec

-----------------------------------------------------------------------------
(* The capacity of the ring.                                               *)

RingSpec == RingInit /\ [][RingNext]_ringVars

\* The function Bit is what its recursion says.
LEMMA BitIs ==
    /\ Bit \in [0..Width -> Nat \ {0}] /\ Bit[0] = 1
    /\ \A n \in 0..Width : n > 0 => n - 1 \in 0..Width /\ Bit[n] = 2 * Bit[n - 1]
<1> DEFINE V == Nat \ {0}
           first == 1
           step == [x \in V \X Nat |-> 2 * x[1]]
           Doubles(f) == f = [n \in 0..Width |-> IF n = 0 THEN 1 ELSE 2 * f[n - 1]]
<1>1. first \in V /\ Width \in Nat BY WidthAssumption
<1>2. step \in [V \X Nat -> V] OBVIOUS
<1>3. PICK g \in [0..Width -> V] : Iterates(g, first, step, Width)
  <2> HIDE DEF V, first, step
  <2> QED BY <1>1, <1>2, PrimitiveRecursion
<1>4. ASSUME NEW k \in 0..Width
      PROVE  g[k] = (IF k = 0 THEN 1 ELSE 2 * g[k - 1]) /\ (k > 0 => k - 1 \in 0..Width)
  <2>1. CASE k = 0
    <3>1. g[k] = 1 BY <1>3, <2>1 DEF Iterates
    <3> QED BY <2>1, <3>1
  <2>2. CASE k > 0
    <3>1. k - 1 \in 0..Width /\ k \in Nat BY <1>1, <2>2
    <3>2. g[k] = step[<<g[k - 1], k>>]
      <4> HIDE DEF V, first, step
      <4>1. k # 0 BY <2>2
      <4> QED BY <1>3, <4>1 DEF Iterates
    <3>3. g[k - 1] \in V BY <1>3, <3>1
    <3>4. step[<<g[k - 1], k>>] = 2 * g[k - 1] BY <3>1, <3>3
    <3> QED BY <2>2, <3>1, <3>2, <3>4
  <2> QED BY <1>1, <2>1, <2>2
<1>5. Doubles(g) BY <1>3, <1>4
<1> HIDE DEF Doubles
<1>6. Doubles(Bit)
  <2>1. Bit = CHOOSE f : Doubles(f) BY DEF Bit, Doubles
  <2> QED BY <1>5, <2>1
<1>7. Bit = [n \in 0..Width |-> IF n = 0 THEN 1 ELSE 2 * Bit[n - 1]] BY <1>6 DEF Doubles
<1>8. \A n \in 0..Width : n > 0 => n - 1 \in 0..Width /\ Bit[n] = 2 * Bit[n - 1] BY <1>4, <1>7
<1>9. 0 \in 0..Width BY <1>1
<1>10. Bit[0] = 1 BY <1>7, <1>9
<1>11. \A n \in 0..Width : Bit[n] \in V
  <2> DEFINE S == {n \in Nat : n <= Width => Bit[n] \in V}
  <2>1. 0 \in S BY <1>10
  <2>2. ASSUME NEW n \in S PROVE n + 1 \in S
    <3>1. n \in Nat /\ n + 1 \in Nat OBVIOUS
    <3>2. ASSUME n + 1 <= Width PROVE Bit[n + 1] \in V
      <4>1. n + 1 \in 0..Width /\ n + 1 > 0 /\ n + 1 - 1 = n BY <1>1, <3>1, <3>2
      <4>2. Bit[n + 1] = 2 * Bit[n] BY <1>8, <4>1
      <4>3. Bit[n] \in V BY <1>1, <3>1, <3>2
      <4> QED BY <4>2, <4>3
    <3> QED BY <3>1, <3>2
  <2>3. S \in SUBSET Nat OBVIOUS
  <2> HIDE DEF S
  <2>4. S = Nat BY <2>1, <2>2, <2>3, NatSetInduction
  <2>5. \A n \in 0..Width : n \in S BY <1>1, <2>4
  <2> QED BY <1>1, <2>5 DEF S
<1>12. Bit \in [0..Width -> V] BY <1>7, <1>11
<1> QED BY <1>8, <1>10, <1>12

LEMMA BitNext ==
    ASSUME NEW n \in 0..Width, n + 1 \in 0..Width
    PROVE  Bit[n] \in Nat \ {0} /\ Bit[n + 1] = 2 * Bit[n]
<1>1. n \in Nat /\ n + 1 > 0 /\ n + 1 - 1 = n BY WidthAssumption
<1>2. Bit[n + 1] = 2 * Bit[n + 1 - 1] BY <1>1, BitIs
<1> QED BY <1>1, <1>2, BitIs

\* A bit is a multiple of every lower one, an even one.
LEMMA BitSplits ==
    ASSUME NEW m \in 0..Width, NEW n \in 0..Width, m <= n
    PROVE  \E e \in Nat \ {0} : /\ Bit[n] = Bit[m] * e
                                /\ m = n => e = 1
                                /\ m < n => \E d \in Nat : e = 2 * d
<1> DEFINE Splits(k) == \E e \in Nat \ {0} : /\ Bit[k] = Bit[m] * e
                                             /\ m = k => e = 1
                                             /\ m < k => \E d \in Nat : e = 2 * d
           S == {j \in Nat : m + j <= Width => Splits(m + j)}
<1>0. Width \in Nat /\ m \in Nat /\ n \in Nat BY WidthAssumption
<1>1. 0 \in S
  <2>1. m + 0 = m BY <1>0
  <2>2. Bit[m] \in Nat BY BitIs
  <2>3. Splits(m)
    <3>1. Bit[m] = Bit[m] * 1 BY <2>2
    <3>2. ~(m < m) BY <1>0
    <3> QED BY <3>1, <3>2
  <2> HIDE DEF Splits
  <2> QED BY <2>1, <2>3
<1>2. ASSUME NEW j \in S PROVE j + 1 \in S
  <2>1. j \in Nat OBVIOUS
  <2>2. ASSUME m + (j + 1) <= Width PROVE Splits(m + (j + 1))
    <3> DEFINE k == m + j
    <3>1. m + j <= Width BY <1>0, <2>1, <2>2
    <3>2. Splits(m + j) BY <3>1
    <3>3. PICK e \in Nat \ {0} : Bit[k] = Bit[m] * e BY <3>2
    <3>4. m + (j + 1) \in 0..Width /\ m + (j + 1) > 0 /\ m + (j + 1) - 1 = k /\ k \in 0..Width
      BY <1>0, <2>1, <2>2
    <3>5. Bit[m + (j + 1)] = 2 * Bit[k] BY <3>4, BitIs
    <3>6. Bit[m] \in Nat /\ Bit[k] \in Nat BY <3>4, BitIs
    <3> HIDE DEF k
    <3>7. 2 * Bit[k] = Bit[m] * (2 * e)
      <4> DEFINE b == Bit[m]
      <4>1. Bit[k] = b * e /\ b \in Nat /\ e \in Nat BY <3>3, <3>6
      <4> HIDE DEF b
      <4>2. 2 * (b * e) = b * (2 * e) BY <4>1
      <4> QED BY <4>1, <4>2 DEF b
    <3>8. 2 * e \in Nat \ {0} /\ m # m + (j + 1) BY <1>0, <2>1
    <3> QED BY <3>5, <3>7, <3>8
  <2> HIDE DEF Splits
  <2> QED BY <2>1, <2>2
<1>3. S \in SUBSET Nat OBVIOUS
<1>4. S = Nat
  <2> HIDE DEF S
  <2> QED BY <1>1, <1>2, <1>3, NatSetInduction
<1>5. n - m \in S /\ m + (n - m) = n /\ n <= Width
  <2> HIDE DEF S
  <2> QED BY <1>0, <1>4
<1>6. Splits(n)
  <2> HIDE DEF Splits
  <2> QED BY <1>5
<1> QED BY <1>6

\* Every positive int below bit w is between one bit and the next.
LEMMA HighestBit ==
    ASSUME NEW w \in 0..Width, NEW x \in 1..Bit[w] - 1
    PROVE  \E n \in 0..w - 1 : Bit[n] <= x /\ x < Bit[n + 1]
<1> DEFINE Between(k, y) == \E n \in 0..k - 1 : Bit[n] <= y /\ y < Bit[n + 1]
           S == {k \in Nat : k <= Width => \A y \in 1..Bit[k] - 1 : Between(k, y)}
<1>0. Width \in Nat BY WidthAssumption
<1>1. 0 \in S BY BitIs
<1>2. ASSUME NEW k \in S PROVE k + 1 \in S
  <2>1. k \in Nat OBVIOUS
  <2>2. ASSUME k + 1 <= Width, NEW y \in 1..Bit[k + 1] - 1 PROVE Between(k + 1, y)
    <3>1. k \in 0..Width /\ k <= Width /\ k + 1 \in 0..Width BY <1>0, <2>1, <2>2
    <3>2. Bit[k] \in Nat /\ Bit[k + 1] \in Nat BY <3>1, BitIs
    <3>3. CASE y < Bit[k]
      <4>1. y \in 1..Bit[k] - 1 BY <3>2, <3>3
      <4>2. Between(k, y) BY <3>1, <4>1
      <4>3. 0..k - 1 \subseteq 0..k + 1 - 1 BY <2>1
      <4> QED BY <4>2, <4>3
    <3>4. CASE y >= Bit[k]
      <4>1. k \in 0..k + 1 - 1 BY <2>1
      <4>2. Bit[k] <= y /\ y < Bit[k + 1] BY <3>2, <3>4
      <4> QED BY <4>1, <4>2
    <3> QED BY <3>2, <3>3, <3>4
  <2> HIDE DEF Between
  <2> QED BY <2>1, <2>2
<1>3. S \in SUBSET Nat OBVIOUS
<1>4. S = Nat
  <2> HIDE DEF S
  <2> QED BY <1>1, <1>2, <1>3, NatSetInduction
<1>5. w \in S /\ w <= Width
  <2> HIDE DEF S
  <2> QED BY <1>0, <1>4
<1>6. Between(w, x)
  <2> HIDE DEF Between
  <2> QED BY <1>5
<1> QED BY <1>6

\* A positive int is an odd multiple of one of its bits.
LEMMA OddPart ==
    ASSUME NEW w \in 0..Width, NEW x \in 1..Bit[w] - 1
    PROVE  \E m \in 0..w - 1 : \E d \in Nat : x = Bit[m] * (2 * d + 1)
<1> DEFINE Odd(k, y) == \E m \in 0..k - 1 : \E d \in Nat : y = Bit[m] * (2 * d + 1)
           S == {k \in Nat : k <= Width => \A y \in 1..Bit[k] - 1 : Odd(k, y)}
<1>0. Width \in Nat BY WidthAssumption
<1>1. 0 \in S BY BitIs
<1>2. ASSUME NEW k \in S PROVE k + 1 \in S
  <2>1. k \in Nat OBVIOUS
  <2>2. ASSUME k + 1 <= Width, NEW y \in 1..Bit[k + 1] - 1 PROVE Odd(k + 1, y)
    <3>1. /\ k \in 0..Width /\ k <= Width /\ k + 1 \in 0..Width /\ k + 1 > 0 /\ k + 1 - 1 = k
          /\ 0 \in 0..k + 1 - 1
      BY <1>0, <2>1, <2>2
    <3>2. Bit[k] \in Nat /\ Bit[k + 1] = 2 * Bit[k] /\ Bit[0] = 1 BY <3>1, BitIs, BitNext
    <3>3. y \in Nat /\ y >= 1 /\ y < 2 * Bit[k] BY <3>2
    <3>4. PICK d \in Nat : y = 2 * d \/ y = 2 * d + 1
      <4>1. y \div 2 \in Nat /\ (y = 2 * (y \div 2) \/ y = 2 * (y \div 2) + 1) BY <3>3
      <4> QED BY <4>1
    <3>5. CASE y = 2 * d + 1
      <4>1. y = Bit[0] * (2 * d + 1) BY <3>2, <3>5
      <4> QED BY <3>1, <4>1
    <3>6. CASE y = 2 * d
      <4>1. d \in 1..Bit[k] - 1 BY <3>2, <3>3, <3>6
      <4>2. Odd(k, d) BY <3>1, <4>1
      <4>3. PICK m \in 0..k - 1, c \in Nat : d = Bit[m] * (2 * c + 1) BY <4>2
      <4>4. m + 1 \in 0..k + 1 - 1 /\ m + 1 \in 0..Width /\ m \in 0..Width
        BY <1>0, <2>1, <3>1
      <4>5. Bit[m + 1] = 2 * Bit[m] /\ Bit[m] \in Nat BY <4>4, BitNext
      <4>6. y = Bit[m + 1] * (2 * c + 1)
        <5> DEFINE b == Bit[m]
        <5>1. b \in Nat /\ d = b * (2 * c + 1) BY <4>3, <4>5
        <5> HIDE DEF b
        <5>2. 2 * (b * (2 * c + 1)) = (2 * b) * (2 * c + 1) BY <5>1
        <5> QED BY <3>6, <4>5, <5>1, <5>2 DEF b
      <4> QED BY <4>4, <4>6
    <3> QED BY <3>4, <3>5, <3>6
  <2> HIDE DEF Odd
  <2> QED BY <2>1, <2>2
<1>3. S \in SUBSET Nat OBVIOUS
<1>4. S = Nat
  <2> HIDE DEF S
  <2> QED BY <1>1, <1>2, <1>3, NatSetInduction
<1>5. w \in S /\ w <= Width
  <2> HIDE DEF S
  <2> QED BY <1>0, <1>4
<1>6. Odd(w, x)
  <2> HIDE DEF Odd
  <2> QED BY <1>5
<1> QED BY <1>6

\* What LowestBit gives is a bit of which x is an odd multiple.
LEMMA LowestBitIs ==
    ASSUME NEW x \in 1..Bit[Width] - 1
    PROVE  \E m \in 0..Width - 1 : \E d \in Nat : /\ LowestBit(x) = Bit[m]
                                                /\ x = Bit[m] * (2 * d + 1)
<1> DEFINE Bits == {Bit[n] : n \in 0..Width - 1}
           Divides(b) == x % b = 0 /\ (x \div b) % 2 = 1
<1>0. Width \in Nat /\ Width \in 0..Width /\ 0..Width - 1 \subseteq 0..Width BY WidthAssumption
<1>1. Bits \subseteq Nat \ {0} BY <1>0, BitIs
<1>9. x \in Nat /\ x > 0 BY <1>0, BitIs
<1>2. \E b \in Bits : Divides(b)
  <2>1. PICK m \in 0..Width - 1, d \in Nat : x = Bit[m] * (2 * d + 1) BY <1>0, OddPart
  <2> DEFINE b == Bit[m]
             q == 2 * d + 1
  <2>2. b \in Nat \ {0} /\ b \in Bits BY <1>1
  <2>3. q \in Nat /\ q % 2 = 1 /\ x = b * q + 0 BY <1>9, <2>1
  <2> HIDE DEF b, q, Bits
  <2>4. x = b * (x \div b) + (x % b) /\ x \div b \in Int /\ (x % b) \in 0..b - 1 
    <3>1. x \in Int BY <1>9
    <3> QED BY ONLY <2>2, <3>1, DivMod
  <2>5. 0 \in 0..b - 1 /\ b * q + 0 = b * (x \div b) + (x % b) BY <2>2, <2>3, <2>4
  <2>6. x % b = 0 /\ x \div b = q
    <3> DEFINE r == x % b
               p == x \div b
    <3>1. r \in 0..b - 1 /\ p \in Int /\ b * q + 0 = b * p + r /\ 0 \in 0..b - 1 /\ q \in Int BY <2>3, <2>4, <2>5
    <3> HIDE DEF r, p
    <3>2. 0 = r /\ q = p BY ONLY <2>2, <3>1, ModUnique
    <3> QED BY <3>2 DEF r, p
  <2> QED BY <2>2, <2>3, <2>6
<1> DEFINE b == LowestBit(x)
<1>3. b \in Bits /\ Divides(b)
  <2>1. b = CHOOSE c \in Bits : Divides(c) BY DEF LowestBit
  <2> HIDE DEF b, Bits, Divides
  <2> QED BY <1>2, <2>1
<1>4. PICK m \in 0..Width - 1 : b = Bit[m] BY <1>3
<1>5. b \in Nat \ {0} BY <1>1, <1>3
<1> HIDE DEF b
<1> DEFINE q == x \div b
<1>6. x = b * q + (x % b) /\ q \in Int BY <1>5, <1>9, DivMod
<1>7. x % b = 0 /\ q % 2 = 1 BY <1>3
<1>8. x = b * q /\ q > 0
  <2> HIDE DEF q
  <2>1. b * q \in Int BY <1>5, <1>6
  <2>2. x = b * q BY <1>6, <1>7, <2>1
  <2>3. q > 0 BY <1>5, <1>6, <1>9, <2>2
  <2> QED BY <2>2, <2>3
<1> HIDE DEF q
<1>10. PICK d \in Nat : q = 2 * d + 1
  <2>1. q = 2 * (q \div 2) + 1 /\ q \div 2 \in Nat BY <1>6, <1>7, <1>8
  <2> QED BY <2>1
<1> QED BY <1>4, <1>8, <1>10 DEF b

-----------------------------------------------------------------------------
(* The loop of the constructor.                                            *)

\* Twice the size has n as its highest bit, which the loop leaves for the last.
Highest(n) ==
    /\ Bit[n] <= 2 * asked /\ 2 * asked < Bit[n + 1] /\ rest \in Nat
    /\ \/ stepR = "loop" /\ Bit[n] <= rest /\ rest < Bit[n + 1]
       \/ stepR \in {"loop", "done"} /\ rest = 0 /\ capacity = Bit[n]

RingIInv ==
    /\ asked \in Nat
    /\ stepR \in {"shift", "loop", "done"}
    /\ stepR = "shift" => rest = asked
    /\ asked \in Representable /\ stepR # "shift" => \E n \in 0..Width - 2 : Highest(n)

\* The loop clears the highest bit only when it is the last.
LEMMA ClearKeeps ==
    ASSUME NEW n \in 0..Width - 2, NEW x \in Nat, Bit[n] <= x, x < Bit[n + 1]
    PROVE  \/ x = Bit[n] /\ LowestBit(x) = Bit[n]
           \/ Bit[n] <= x - LowestBit(x) /\ LowestBit(x) \in Nat \ {0}
<1>0. /\ n \in 0..Width /\ n + 1 \in 0..Width /\ n + 1 <= Width /\ Width \in 0..Width /\ n \in Nat
      /\ 0..Width - 1 \subseteq 0..Width
  BY WidthAssumption
<1>1. Bit[n] \in Nat \ {0} /\ Bit[n + 1] = 2 * Bit[n] BY <1>0, BitNext
<1>2. Bit[n + 1] <= Bit[Width]
  <2>1. PICK e \in Nat \ {0} : Bit[Width] = Bit[n + 1] * e BY <1>0, BitSplits
  <2> DEFINE b == Bit[n + 1]
  <2>2. b \in Nat /\ e >= 1 BY <1>1
  <2> HIDE DEF b
  <2>3. b * e >= b BY <2>2
  <2> QED BY <2>1, <2>3 DEF b
<1>3. x \in 1..Bit[Width] - 1 BY <1>0, <1>1, <1>2, BitIs
<1>4. PICK m \in 0..Width - 1, d \in Nat : LowestBit(x) = Bit[m] /\ x = Bit[m] * (2 * d + 1)
  BY <1>3, LowestBitIs
<1>5. m \in 0..Width /\ Bit[m] \in Nat \ {0} BY <1>0, <1>4, BitIs
<1> DEFINE b == Bit[m]
           h == Bit[n]
<1>6. b \in Nat \ {0} /\ h \in Nat \ {0} /\ h <= x /\ x < 2 * h /\ x = b * (2 * d + 1)
  BY <1>1, <1>4, <1>5
<1> HIDE DEF b, h
<1>7. m <= n
  <2> SUFFICES ASSUME n < m PROVE FALSE BY <1>0, <1>5
  <2>1. n + 1 <= m BY <1>0, <1>5
  <2>2. PICK e \in Nat \ {0} : Bit[m] = Bit[n + 1] * e BY <1>0, <1>5, <2>1, BitSplits
  <2>3. b = (2 * h) * e BY <1>1, <2>2 DEF b, h
  <2>4. e >= 1 /\ 2 * d + 1 >= 1 BY <2>2
  <2>5. (2 * h) * e >= 2 * h BY <1>6, <2>4
  <2>6. b * (2 * d + 1) >= b BY <1>6, <2>4
  <2> QED BY <1>6, <2>3, <2>5, <2>6
<1>8. PICK e \in Nat \ {0} : /\ h = b * e
                             /\ m < n => \E c \in Nat : e = 2 * c
  <2>1. n \in 0..Width /\ m \in 0..Width BY <1>0, <1>5
  <2>2. \E e \in Nat \ {0} : /\ Bit[n] = Bit[m] * e
                             /\ m = n => e = 1
                             /\ m < n => \E c \in Nat : e = 2 * c
    BY ONLY <1>7, <2>1, BitSplits
  <2> QED BY <2>2 DEF b, h
<1>9. CASE m = n
  <2>1. h = b /\ b * (2 * d + 1) < 2 * b BY <1>6, <1>9 DEF b, h
  <2>2. d = 0
    <3> SUFFICES ASSUME d >= 1 PROVE FALSE OBVIOUS
    <3>1. b * (2 * d + 1) >= b * 3 BY <1>6
    <3> QED BY <1>6, <2>1, <3>1
  <2>3. x = h BY <1>6, <2>1, <2>2
  <2> QED BY <1>4, <1>9, <2>1, <2>3 DEF b, h
<1>10. CASE m < n
  <2>1. PICK c \in Nat : e = 2 * c BY <1>8, <1>10
  <2>2. b * (2 * c) <= b * (2 * d + 1) BY <1>6, <1>8, <2>1
  <2>3. c <= d
    <3> SUFFICES ASSUME c >= d + 1 PROVE FALSE OBVIOUS
    <3>1. b * (2 * c) >= b * (2 * d + 2) BY <1>6
    <3>2. b * (2 * d + 2) = b * (2 * d + 1) + b BY <1>6
    <3>3. b * (2 * d + 1) \in Int /\ b * (2 * c) \in Int /\ b * (2 * d + 2) \in Int BY <1>6
    <3> QED BY <1>6, <2>2, <3>1, <3>2, <3>3
  <2>4. b * (2 * c) <= b * (2 * d) BY <1>6, <2>3
  <2>5. b * (2 * d + 1) = b * (2 * d) + b /\ b * (2 * d) \in Int /\ b * (2 * c) \in Int BY <1>6
  <2>6. h <= x - b BY <1>6, <1>8, <2>1, <2>4, <2>5
  <2> QED BY <1>4, <1>6, <2>6 DEF b, h
<1> QED BY <1>0, <1>5, <1>7, <1>9, <1>10

\* For ints of any width the loop of the constructor leaves a power of two with
\* room for what was asked for, and less than twice that.
THEOREM RingCapacityFits == RingSpec => []CapacityFits
<1>0. /\ Width \in 0..Width /\ Width - 1 \in 0..Width /\ Width - 2 \in 0..Width
      /\ Width - 2 + 1 = Width - 1 /\ Width - 1 + 1 = Width /\ Width \in Nat
      /\ 0..Width - 2 \subseteq 0..Width /\ \A n \in 0..Width - 2 : n + 1 \in 0..Width
  BY WidthAssumption
<1>1. /\ Bit[Width - 2] \in Nat \ {0} /\ Bit[Width - 1] = 2 * Bit[Width - 2]
      /\ Bit[Width - 1] \in Nat \ {0} /\ Bit[Width] = 2 * Bit[Width - 1]
  <2>1. Bit[Width - 2] \in Nat \ {0} /\ Bit[Width - 2 + 1] = 2 * Bit[Width - 2] BY <1>0, BitNext
  <2>2. Bit[Width - 1] \in Nat \ {0} /\ Bit[Width - 1 + 1] = 2 * Bit[Width - 1] BY <1>0, BitNext
  <2> QED BY <1>0, <2>1, <2>2
<1>2. RingInit => RingIInv BY <1>1 DEF RingInit, RingIInv
<1>3. RingIInv /\ [RingNext]_ringVars => RingIInv'
  <2> SUFFICES ASSUME RingIInv, [RingNext]_ringVars PROVE RingIInv'
    OBVIOUS
  <2>1. CASE Shift
    <3>1. rest' = (2 * asked) % Bit[Width] /\ stepR' = "loop" /\ asked' = asked /\ asked \in Nat
      BY <2>1 DEF Shift, RingIInv
    <3>2. rest' \in Nat
      <4>1. 2 * asked \in Int /\ Bit[Width] \in Nat \ {0} BY <1>1, <3>1
      <4>2. ((2 * asked) % Bit[Width]) \in 0..Bit[Width] - 1 BY ONLY <4>1, DivMod
      <4> QED BY <3>1, <4>1, <4>2
    <3>3. ASSUME asked \in Representable PROVE \E n \in 0..Width - 2 : Highest(n)'
      <4>1. 2 * asked \in 1..Bit[Width - 1] - 1 BY <1>1, <3>1, <3>3 DEF Representable
      <4>2. PICK n \in 0..Width - 1 - 1 : Bit[n] <= 2 * asked /\ 2 * asked < Bit[n + 1]
        BY <1>0, <4>1, HighestBit
      <4>3. n \in 0..Width - 2 BY <1>0
      <4>4. rest' = 2 * asked
        <5>1. 2 * asked \in Nat /\ 2 * asked < Bit[Width] /\ Bit[Width] \in Nat \ {0} BY <1>1, <4>1
        <5>2. (2 * asked) % Bit[Width] = 2 * asked BY <5>1
        <5> QED BY <3>1, <5>2
      <4> QED BY <3>1, <4>2, <4>3, <4>4 DEF Highest
    <3>4. asked' \in Representable' => asked \in Representable BY <3>1 DEF Representable
    <3> QED BY <3>1, <3>2, <3>3, <3>4 DEF RingIInv
  <2>2. CASE ClearBit
    <3>1. /\ stepR = "loop" /\ rest # 0 /\ capacity' = rest /\ rest' = rest - LowestBit(rest)
          /\ UNCHANGED <<asked, stepR>> /\ asked \in Nat
      BY <2>2 DEF ClearBit, RingIInv
    <3>3. ASSUME asked \in Representable PROVE \E n \in 0..Width - 2 : Highest(n)'
      <4>1. PICK n \in 0..Width - 2 : Highest(n) BY <3>1, <3>3 DEF RingIInv
      <4>2. rest \in Nat /\ Bit[n] <= rest /\ rest < Bit[n + 1] BY <3>1, <4>1 DEF Highest
      <4>3. Bit[n] \in Nat /\ Bit[n + 1] \in Nat BY <1>0, BitIs
      <4>4. \/ rest = Bit[n] /\ rest' = 0
            \/ rest' \in Nat /\ Bit[n] <= rest' /\ rest' < Bit[n + 1]
        BY <3>1, <4>2, <4>3, ClearKeeps
      <4> QED BY <3>1, <4>1, <4>4 DEF Highest
    <3> QED BY <3>1, <3>3 DEF RingIInv, Representable
  <2>3. CASE LoopEnd
    <3>1. stepR = "loop" /\ rest = 0 /\ stepR' = "done" /\ UNCHANGED <<asked, rest, capacity>>
      BY <2>3 DEF LoopEnd
    <3>2. ASSUME NEW n \in 0..Width - 2, Highest(n) PROVE Highest(n)'
      <4>1. Bit[n] \in Nat \ {0} BY <1>0, BitIs
      <4>2. ~(Bit[n] <= rest) BY <3>1, <4>1
      <4> QED BY <3>1, <3>2, <4>2 DEF Highest
    <3> QED BY <3>1, <3>2 DEF RingIInv, Representable
  <2>4. CASE UNCHANGED ringVars BY <2>4 DEF ringVars, RingIInv, Highest, Representable
  <2> QED BY <2>1, <2>2, <2>3, <2>4 DEF RingNext
<1>4. RingIInv => CapacityFits
  <2> SUFFICES ASSUME RingIInv, stepR = "done", asked \in Representable
               PROVE  /\ \E n \in 0..Width - 2 : capacity = Bit[n]
                      /\ asked < capacity /\ capacity <= 2 * asked
    BY DEF CapacityFits
  <2>1. PICK n \in 0..Width - 2 : Highest(n) BY DEF RingIInv
  <2>2. Bit[n] \in Nat /\ Bit[n + 1] = 2 * Bit[n] BY <1>0, BitNext
  <2>3. capacity = Bit[n] /\ Bit[n] <= 2 * asked /\ 2 * asked < Bit[n + 1] BY <2>1 DEF Highest
  <2>4. asked \in Nat BY DEF RingIInv
  <2> QED BY <2>2, <2>3, <2>4
<1> QED BY <1>2, <1>3, <1>4, PTL DEF RingSpec

-----------------------------------------------------------------------------
(* ObjRef: the counts are exact, and what is found under a lock is alive.  *)

ObjTypeOK ==
    /\ ref_cnt \in [Objects -> Int]
    /\ alive \subseteq Objects
    /\ own \in [Threads -> Objects \cup {Nil}]
    /\ dying \in [Threads -> Objects \cup {Nil}]
    /\ obj \in [Wraps -> Objects \cup {Nil}]
    /\ mine \in [Threads -> Wraps \cup {Nil}]
    /\ items \in [Keys -> Wraps \cup {Nil}]
    /\ found \in [Threads -> Wraps \cup {Nil}]

\* A wrapper that is stored or about to be has an object and one place, and a
\* thread that will clone what it found has no reference yet.
WrapHeld ==
    /\ \A t \in Threads : mine[t] # Nil => obj[mine[t]] # Nil
    /\ \A k \in Keys : items[k] # Nil => obj[items[k]] # Nil
    /\ \A t, u \in Threads : mine[t] # Nil /\ mine[t] = mine[u] => t = u
    /\ \A k, l \in Keys : items[k] # Nil /\ items[k] = items[l] => k = l
    /\ \A t \in Threads, k \in Keys : mine[t] # Nil => mine[t] # items[k]
    /\ \A t \in Threads : found[t] # Nil => own[t] = Nil

\* With the lock, what was found is in the map until it has been cloned.
FoundStored == Guarded => \A t \in Threads : found[t] # Nil => \E k \in Keys : items[k] = found[t]

ObjIInv == ObjTypeOK /\ WrapHeld /\ FoundStored /\ CountExact

-----------------------------------------------------------------------------
(* Counting the places of a function that point to an object.              *)

Pointing(S, f, o) == Cardinality({x \in S : f[x] = o})

LEMMA PointingNat ==
    ASSUME NEW S, IsFiniteSet(S), NEW f, NEW o
    PROVE  /\ Pointing(S, f, o) \in Nat
           /\ Pointing(S, f, o) = 0 <=> \A x \in S : f[x] # o
<1>1. IsFiniteSet({x \in S : f[x] = o}) BY FS_Subset
<1> QED BY <1>1, FS_CardinalityType, FS_EmptySet DEF Pointing

LEMMA PointingGain ==
    ASSUME NEW S, IsFiniteSet(S), NEW f, NEW g, NEW a \in S, NEW o,
           \A x \in S : x # a => g[x] = f[x], g[a] = o, f[a] # o
    PROVE  Pointing(S, g, o) = Pointing(S, f, o) + 1
<1> DEFINE F == {x \in S : f[x] = o}
           G == {x \in S : g[x] = o}
<1>1. IsFiniteSet(F) BY FS_Subset
<1>2. G = F \cup {a} /\ a \notin F OBVIOUS
<1> HIDE DEF F, G
<1>3. Cardinality(G) = Cardinality(F) + 1 BY <1>1, <1>2, FS_AddElement
<1> QED BY <1>3 DEF Pointing, F, G

LEMMA PointingSame ==
    ASSUME NEW S, NEW f, NEW g, NEW o, \A x \in S : g[x] = o <=> f[x] = o
    PROVE  Pointing(S, g, o) = Pointing(S, f, o)
<1>1. {x \in S : g[x] = o} = {x \in S : f[x] = o} OBVIOUS
<1> QED BY <1>1 DEF Pointing

LEMMA CountIs ==
    /\ \A o : Count(o) = Pointing(Threads, own, o) + Pointing(Wraps, obj, o)
    /\ \A o : Count(o)' = Pointing(Threads, own', o) + Pointing(Wraps, obj', o)
BY DEF Count, Pointing

LEMMA CountNat ==
    /\ \A o : /\ Count(o) \in Nat
              /\ \A t \in Threads : own[t] = o => Count(o) > 0
              /\ \A w \in Wraps : obj[w] = o => Count(o) > 0
    /\ \A o : Count(o)' \in Nat
BY CountIs, PointingNat, ObjRefAssumption

-----------------------------------------------------------------------------
(* How the actions keep CountExact.                                        *)

\* A step that only moves references.
LEMMA ExactMove ==
    ASSUME CountExact, UNCHANGED <<ref_cnt, alive, dying>>,
           \A o \in Objects : Count(o)' = Count(o), alive \subseteq Objects,
           ObjTypeOK
    PROVE  CountExact'
BY DEF CountExact, ObjTypeOK

\* A step that gives up one reference to p and counts p down.
LEMMA ExactDrop ==
    ASSUME CountExact, ObjTypeOK, NEW t \in Threads, NEW p \in Objects,
           dying[t] = Nil, Drop(t, p), Count(p) > 0,
           \A o \in Objects : Count(o)' = Count(o) - (IF o = p THEN 1 ELSE 0)
    PROVE  CountExact'
<1> USE CountNat DEF Drop, ObjTypeOK
<1>1. (\A o \in Objects : ref_cnt[o] = Count(o))' BY DEF CountExact
<1>2. (\A o \in Objects : Count(o) > 0 => o \in alive)' BY DEF CountExact
<1>3. ref_cnt[p] = 1 <=> Count(p)' = 0 BY DEF CountExact
<1>4. \A u \in Threads : dying[u] # p BY ObjRefAssumption DEF CountExact
<1>5. dying' = [dying EXCEPT ![t] = IF Count(p)' = 0 THEN p ELSE Nil] BY <1>3
<1>6. (\A o \in alive : Count(o) = 0 => \E u \in Threads : dying[u] = o)'
  <2> SUFFICES ASSUME NEW o \in alive, Count(o)' = 0
               PROVE  \E u \in Threads : dying'[u] = o
    OBVIOUS
  <2>1. CASE o = p BY <1>5, <2>1
  <2>2. CASE o # p
    <3>1. Count(o) = 0 BY <2>2
    <3>2. PICK u \in Threads : dying[u] = o BY <3>1 DEF CountExact
    <3> QED BY <1>5, <3>2, ObjRefAssumption
  <2> QED BY <2>1, <2>2
<1>7. ASSUME NEW u \in Threads, NEW v \in Threads, NEW q \in Objects, dying'[u] = q
      PROVE  q \in alive' /\ Count(q)' = 0 /\ (dying'[v] = q => v = u)
  <2>1. CASE u = t
    <3>1. q = p /\ Count(p)' = 0 BY <1>5, <1>7, <2>1, ObjRefAssumption
    <3>2. p \in alive' BY DEF CountExact
    <3>3. v # u => dying'[v] # p BY <1>4, <1>5, <2>1
    <3> QED BY <3>1, <3>2, <3>3
  <2>2. CASE u # t
    <3>1. dying[u] = q /\ q \in alive /\ Count(q) = 0
      BY <1>5, <1>7, <2>2, ObjRefAssumption DEF CountExact
    <3>2. q # p /\ Count(q)' = 0 BY <1>4, <3>1
    <3>3. dying'[v] = q => v = u
      BY <1>5, <2>2, <3>1, <3>2, ObjRefAssumption DEF CountExact
    <3> QED BY <3>1, <3>2, <3>3
  <2> QED BY <2>1, <2>2
<1>8. dying' \in [Threads -> Objects \cup {Nil}] BY <1>5
<1>9. (\A u, v \in Threads : dying[u] # Nil =>
          /\ dying[u] \in alive /\ Count(dying[u]) = 0
          /\ dying[v] = dying[u] => v = u)'
  BY <1>7, <1>8
<1> QED BY <1>1, <1>2, <1>6, <1>9 DEF CountExact

\* A step that counts up an object that somebody has.
LEMMA ExactClone ==
    ASSUME CountExact, ObjTypeOK, NEW p \in Objects, Count(p) > 0,
           ref_cnt' = [ref_cnt EXCEPT ![p] = @ + 1], UNCHANGED <<alive, dying>>,
           \A o \in Objects : Count(o)' = Count(o) + (IF o = p THEN 1 ELSE 0)
    PROVE  CountExact'
<1> USE CountNat DEF ObjTypeOK
<1>1. (\A o \in Objects : ref_cnt[o] = Count(o))' BY DEF CountExact
<1>2. (\A o \in Objects : Count(o) > 0 => o \in alive)' BY DEF CountExact
<1>3. (\A o \in alive : Count(o) = 0 => \E u \in Threads : dying[u] = o)' BY DEF CountExact
<1>4. \A u \in Threads : dying[u] # p BY ObjRefAssumption DEF CountExact
<1>5. \A u \in Threads : dying[u] # Nil => Count(dying[u])' = 0
  BY <1>4 DEF CountExact
<1>6. (\A u, v \in Threads : dying[u] # Nil =>
          /\ dying[u] \in alive /\ Count(dying[u]) = 0
          /\ dying[v] = dying[u] => v = u)'
  BY <1>5 DEF CountExact
<1> QED BY <1>1, <1>2, <1>3, <1>6 DEF CountExact

\* What the count becomes when one thread's reference or one wrapper changes.
LEMMA PointingChange ==
    ASSUME NEW S, IsFiniteSet(S), NEW f, NEW g, NEW a \in S, NEW o,
           \A x \in S : x # a => g[x] = f[x]
    PROVE  Pointing(S, g, o) = Pointing(S, f, o) - (IF f[a] = o THEN 1 ELSE 0)
                                                 + (IF g[a] = o THEN 1 ELSE 0)
<1>1. Pointing(S, f, o) \in Nat /\ Pointing(S, g, o) \in Nat BY PointingNat
<1>2. CASE g[a] = o /\ f[a] # o BY <1>1, <1>2, PointingGain
<1>3. CASE g[a] # o /\ f[a] = o
  <2>1. Pointing(S, f, o) = Pointing(S, g, o) + 1 BY <1>3, PointingGain
  <2> QED BY <1>1, <1>3, <2>1
<1>4. CASE g[a] = o <=> f[a] = o
  <2>1. Pointing(S, f, o) = Pointing(S, g, o) BY <1>4, PointingSame
  <2> QED BY <1>1, <1>4, <2>1
<1> QED BY <1>2, <1>3, <1>4

LEMMA OwnChange ==
    ASSUME NEW t \in Threads, \A x \in Threads : x # t => own'[x] = own[x], obj' = obj
    PROVE  \A o : Count(o)' = Count(o) - (IF own[t] = o THEN 1 ELSE 0)
                                       + (IF own'[t] = o THEN 1 ELSE 0)
<1> SUFFICES ASSUME NEW o
             PROVE  Count(o)' = Count(o) - (IF own[t] = o THEN 1 ELSE 0)
                                         + (IF own'[t] = o THEN 1 ELSE 0)
  OBVIOUS
<1>1. Pointing(Threads, own', o) = Pointing(Threads, own, o)
        - (IF own[t] = o THEN 1 ELSE 0) + (IF own'[t] = o THEN 1 ELSE 0)
  BY PointingChange, ObjRefAssumption
<1>2. /\ Pointing(Threads, own, o) \in Nat /\ Pointing(Wraps, obj, o) \in Nat
      /\ Pointing(Threads, own', o) \in Nat
  BY PointingNat, ObjRefAssumption
<1> QED BY <1>1, <1>2, CountIs

LEMMA ObjChange ==
    ASSUME NEW w \in Wraps, \A x \in Wraps : x # w => obj'[x] = obj[x], own' = own
    PROVE  \A o : Count(o)' = Count(o) - (IF obj[w] = o THEN 1 ELSE 0)
                                       + (IF obj'[w] = o THEN 1 ELSE 0)
<1> SUFFICES ASSUME NEW o
             PROVE  Count(o)' = Count(o) - (IF obj[w] = o THEN 1 ELSE 0)
                                         + (IF obj'[w] = o THEN 1 ELSE 0)
  OBVIOUS
<1>1. Pointing(Wraps, obj', o) = Pointing(Wraps, obj, o)
        - (IF obj[w] = o THEN 1 ELSE 0) + (IF obj'[w] = o THEN 1 ELSE 0)
  <2>1. IsFiniteSet(Wraps) BY ObjRefAssumption
  <2> QED BY <2>1, PointingChange
<1>2. /\ Pointing(Wraps, obj, o) \in Nat /\ Pointing(Threads, own, o) \in Nat
      /\ Pointing(Wraps, obj', o) \in Nat
  BY PointingNat, ObjRefAssumption
<1> QED BY <1>1, <1>2, CountIs

-----------------------------------------------------------------------------
(* The actions.                                                            *)

LEMMA NewPreserves ==
    ASSUME ObjIInv, NEW t \in Threads, NEW o \in Objects, NewObject(t, o)
    PROVE  ObjIInv'
<1> USE ObjRefAssumption DEF ObjIInv, NewObject, wrapVars, Idle
<1>1. ObjTypeOK' BY DEF ObjTypeOK
<1>2. WrapHeld' BY DEF WrapHeld, ObjTypeOK
<1>3. FoundStored' BY DEF FoundStored
<1>4. \A p \in Objects : Count(p)' = Count(p) + (IF p = o THEN 1 ELSE 0)
  <2>1. /\ own'[t] = o /\ own[t] = Nil /\ obj' = obj
        /\ \A x \in Threads : x # t => own'[x] = own[x]
    BY DEF ObjTypeOK
  <2> HIDE DEF NewObject
  <2> QED BY <2>1, OwnChange, CountNat
<1>5. Count(o) = 0 BY CountNat DEF CountExact
<1>6. (\A p \in Objects : ref_cnt[p] = Count(p))'
  BY <1>4, <1>5, CountNat DEF CountExact, ObjTypeOK
<1>7. (\A p \in Objects : Count(p) > 0 => p \in alive)'
  BY <1>4, CountNat DEF CountExact
<1>8. (\A p \in alive : Count(p) = 0 => \E u \in Threads : dying[u] = p)'
  BY <1>4, <1>5, CountNat DEF CountExact, ObjTypeOK
<1>9. \A u \in Threads : dying[u] # o BY DEF CountExact
<1>10. \A u \in Threads : dying[u] # Nil => Count(dying[u])' = 0
  BY <1>4, <1>9, CountNat DEF CountExact, ObjTypeOK
<1>11. (\A u, v \in Threads : dying[u] # Nil =>
          /\ dying[u] \in alive /\ Count(dying[u]) = 0
          /\ dying[v] = dying[u] => v = u)'
  BY <1>10 DEF CountExact
<1>12. CountExact' BY <1>6, <1>7, <1>8, <1>11 DEF CountExact
<1> QED BY <1>1, <1>2, <1>3, <1>12

LEMMA ClonePreserves ==
    ASSUME ObjIInv, NEW t \in Threads,
           CloneFound(t) \/ \E u \in Threads : Clone(t, u)
    PROVE  ObjIInv'
<1> USE ObjRefAssumption DEF ObjIInv, Idle
<1>1. CASE CloneFound(t)
  <2> USE <1>1 DEF CloneFound
  <2> DEFINE p == obj[found[t]]
  <2>1. found[t] \in Wraps /\ p \in Objects /\ own[t] = Nil /\ Count(p) > 0
    BY CountNat DEF ObjTypeOK, WrapHeld
  <2>2. \A o \in Objects : Count(o)' = Count(o) + (IF o = p THEN 1 ELSE 0)
    <3>1. /\ own'[t] = p /\ obj' = obj
          /\ \A x \in Threads : x # t => own'[x] = own[x]
      BY DEF ObjTypeOK
    <3> HIDE DEF CloneFound
    <3> QED BY <2>1, <3>1, OwnChange, CountNat
  <2>3. CountExact' BY <2>1, <2>2, ExactClone
  <2>4. ObjTypeOK' BY <2>1 DEF ObjTypeOK
  <2>5. WrapHeld' BY <2>1 DEF ObjTypeOK, WrapHeld
  <2>6. FoundStored' BY DEF ObjTypeOK, FoundStored
  <2> QED BY <2>3, <2>4, <2>5, <2>6
<1>2. CASE \E u \in Threads : Clone(t, u)
  <2>1. PICK u \in Threads : Clone(t, u) BY <1>2
  <2> USE <2>1 DEF Clone, wrapVars
  <2>2. own[t] \in Objects /\ Count(own[t]) > 0 BY CountNat DEF ObjTypeOK
  <2>3. \A o \in Objects : Count(o)' = Count(o) + (IF o = own[t] THEN 1 ELSE 0)
    <3>1. /\ own'[u] = own[t] /\ own[u] = Nil /\ obj' = obj
          /\ \A x \in Threads : x # u => own'[x] = own[x]
      BY DEF ObjTypeOK
    <3> HIDE DEF Clone
    <3> QED BY <2>2, <3>1, OwnChange, CountNat
  <2>4. CountExact' BY <2>2, <2>3, ExactClone
  <2>5. ObjTypeOK' BY <2>2 DEF ObjTypeOK
  <2>6. WrapHeld' BY DEF ObjTypeOK, WrapHeld
  <2>7. FoundStored' BY DEF FoundStored
  <2> QED BY <2>4, <2>5, <2>6, <2>7
<1> QED BY <1>1, <1>2

LEMMA ReleasePreserves ==
    ASSUME ObjIInv, NEW t \in Threads, ReleaseRef(t)
    PROVE  ObjIInv'
<1> USE ObjRefAssumption DEF ObjIInv, Idle, ReleaseRef, wrapVars
<1>1. own[t] \in Objects /\ Count(own[t]) > 0 BY CountNat DEF ObjTypeOK
<1>2. \A o \in Objects : Count(o)' = Count(o) - (IF o = own[t] THEN 1 ELSE 0)
  <2>1. /\ own'[t] = Nil /\ obj' = obj
        /\ \A x \in Threads : x # t => own'[x] = own[x]
    BY DEF ObjTypeOK
  <2> HIDE DEF ReleaseRef
  <2> QED BY <1>1, <2>1, OwnChange, CountNat
<1>3. CountExact' BY <1>1, <1>2, ExactDrop
<1>4. ObjTypeOK' BY <1>1 DEF ObjTypeOK, Drop
<1>5. WrapHeld' BY DEF ObjTypeOK, WrapHeld
<1>6. FoundStored' BY DEF FoundStored
<1> QED BY <1>3, <1>4, <1>5, <1>6

LEMMA DeletePreserves ==
    ASSUME ObjIInv, NEW t \in Threads, DeleteObject(t)
    PROVE  ObjIInv'
<1> USE ObjRefAssumption DEF ObjIInv, DeleteObject, wrapVars
<1>1. ObjTypeOK' BY DEF ObjTypeOK
<1>2. WrapHeld' BY DEF WrapHeld
<1>3. FoundStored' BY DEF FoundStored
<1>4. \A o : Count(o)' = Count(o) BY DEF Count
<1>5. Count(dying[t]) = 0 /\ \A u \in Threads : dying[u] = dying[t] => u = t
  BY DEF CountExact
<1>6. (\A o \in Objects : ref_cnt[o] = Count(o))' BY <1>4 DEF CountExact
<1>7. (\A o \in Objects : Count(o) > 0 => o \in alive)' BY <1>4, <1>5 DEF CountExact
<1>8. (\A o \in alive : Count(o) = 0 => \E u \in Threads : dying[u] = o)'
  BY <1>4, <1>5 DEF CountExact, ObjTypeOK
<1>9. ASSUME NEW u \in Threads, NEW v \in Threads, NEW q \in Objects, dying'[u] = q
      PROVE  q \in alive' /\ Count(q)' = 0 /\ (dying'[v] = q => v = u)
  <2>1. u # t /\ dying[u] = q BY <1>9 DEF ObjTypeOK
  <2> QED BY <1>4, <1>5, <2>1 DEF CountExact, ObjTypeOK
<1>10. (\A u, v \in Threads : dying[u] # Nil =>
          /\ dying[u] \in alive /\ Count(dying[u]) = 0
          /\ dying[v] = dying[u] => v = u)'
  BY <1>1, <1>9 DEF ObjTypeOK
<1>11. CountExact' BY <1>6, <1>7, <1>8, <1>10 DEF CountExact
<1> QED BY <1>1, <1>2, <1>3, <1>11

LEMMA UniformPreserves ==
    ASSUME ObjIInv, NEW t \in Threads, NEW w \in Wraps, Uniform(t, w)
    PROVE  ObjIInv'
<1> USE ObjRefAssumption DEF ObjIInv, Idle, Uniform
<1> DEFINE p == own[t]
<1>1. ObjTypeOK' BY DEF ObjTypeOK
<1>2. WrapHeld' BY DEF ObjTypeOK, WrapHeld
<1>3. FoundStored' BY DEF FoundStored
<1>4. /\ p \in Objects /\ own'[t] = Nil /\ obj[w] = Nil /\ obj'[w] = p
      /\ \A x \in Threads : x # t => own'[x] = own[x]
      /\ \A x \in Wraps : x # w => obj'[x] = obj[x]
  BY DEF ObjTypeOK
\* The wrapper gets the reference that the thread gives up.
<1>5. ASSUME NEW o \in Objects PROVE Count(o)' = Count(o)
  <2> HIDE DEF Uniform
  <2>1. IsFiniteSet(Threads) /\ IsFiniteSet(Wraps) BY ObjRefAssumption
  <2>2. Pointing(Threads, own', o) = Pointing(Threads, own, o)
          - (IF own[t] = o THEN 1 ELSE 0) + (IF own'[t] = o THEN 1 ELSE 0)
    BY <1>4, <2>1, PointingChange
  <2>3. Pointing(Wraps, obj', o) = Pointing(Wraps, obj, o)
          - (IF obj[w] = o THEN 1 ELSE 0) + (IF obj'[w] = o THEN 1 ELSE 0)
    BY <1>4, <2>1, PointingChange
  <2>4. /\ Pointing(Threads, own, o) \in Nat /\ Pointing(Wraps, obj, o) \in Nat
        /\ Pointing(Threads, own', o) \in Nat /\ Pointing(Wraps, obj', o) \in Nat
    BY <2>1, PointingNat
  <2> QED BY <1>4, <2>2, <2>3, <2>4, CountIs
<1>6. CountExact' BY <1>5, ExactMove DEF ObjTypeOK
<1> QED BY <1>1, <1>2, <1>3, <1>6

\* The steps that neither count nor move a reference to an object.
LEMMA StorePreserves ==
    ASSUME ObjIInv, NEW t \in Threads, NEW k \in Keys, InsertNew(t, k) \/ MapFind(t, k)
    PROVE  ObjIInv'
<1> USE ObjRefAssumption DEF ObjIInv, Idle, countVars
<1>1. UNCHANGED <<ref_cnt, alive, own, dying, obj>> BY DEF InsertNew, MapFind
<1>2. \A o \in Objects : Count(o)' = Count(o) BY <1>1 DEF Count
<1>3. CountExact' BY <1>1, <1>2, ExactMove DEF ObjTypeOK
<1>4. CASE InsertNew(t, k)
  <2> USE <1>4 DEF InsertNew, MayChange
  <2>1. ObjTypeOK' BY DEF ObjTypeOK
  <2>2. WrapHeld' BY DEF ObjTypeOK, WrapHeld
  <2>3. FoundStored' BY DEF ObjTypeOK, FoundStored
  <2> QED BY <1>3, <2>1, <2>2, <2>3
<1>5. CASE MapFind(t, k)
  <2> USE <1>5 DEF MapFind
  <2>1. ObjTypeOK' BY DEF ObjTypeOK
  <2>2. WrapHeld' BY DEF ObjTypeOK, WrapHeld
  <2>3. FoundStored' BY DEF ObjTypeOK, FoundStored
  <2> QED BY <1>3, <2>1, <2>2, <2>3
<1> QED BY <1>4, <1>5

\* The steps that delete a wrapper of the map.
LEMMA MapDelPreserves ==
    ASSUME ObjIInv, NEW t \in Threads, NEW k \in Keys, InsertDelOld(t, k) \/ MapDel(t, k)
    PROVE  ObjIInv'
<1> USE ObjRefAssumption DEF ObjIInv
<1> DEFINE w == items[k]
           p == obj[w]
<1>1. /\ MayChange(t) /\ w # Nil /\ Drop(t, p) /\ own' = own /\ found' = found
      /\ obj' = [obj EXCEPT ![w] = Nil]
  BY DEF InsertDelOld, MapDel
<1>2. w \in Wraps /\ p \in Objects /\ Count(p) > 0
  <2>1. w \in Wraps BY <1>1 DEF ObjTypeOK
  <2>2. p \in Objects BY <1>1, <2>1 DEF ObjTypeOK, WrapHeld
  <2> QED BY <2>1, <2>2, CountNat
<1>3. \A o \in Objects : Count(o)' = Count(o) - (IF o = p THEN 1 ELSE 0)
  <2>1. obj'[w] = Nil /\ \A x \in Wraps : x # w => obj'[x] = obj[x]
    BY <1>1, <1>2 DEF ObjTypeOK
  <2>2. \A o : Count(o)' = Count(o) - (IF obj[w] = o THEN 1 ELSE 0)
                                     + (IF obj'[w] = o THEN 1 ELSE 0)
    <3>1. own' = own BY <1>1
    <3> HIDE DEF w
    <3> QED BY <1>2, <2>1, <3>1, ObjChange
  <2> QED BY <1>2, <2>1, <2>2, CountNat
<1>4. CountExact' BY <1>1, <1>2, <1>3, ExactDrop DEF MayChange, Idle
<1>5. /\ ref_cnt' \in [Objects -> Int] /\ dying' \in [Threads -> Objects \cup {Nil}]
      /\ alive' = alive /\ obj' \in [Wraps -> Objects \cup {Nil}]
  BY <1>1, <1>2 DEF ObjTypeOK, Drop
<1>6. FoundStored' BY <1>1 DEF FoundStored, MayChange
<1>7. CASE InsertDelOld(t, k)
  <2>1. mine[t] # Nil /\ items' = [items EXCEPT ![k] = mine[t]]
        /\ mine' = [mine EXCEPT ![t] = Nil]
    BY <1>7 DEF InsertDelOld
  <2>2. ObjTypeOK' BY <1>1, <1>5, <2>1 DEF ObjTypeOK
  <2>3. WrapHeld' BY <1>1, <1>2, <2>1 DEF ObjTypeOK, WrapHeld
  <2> QED BY <1>4, <1>6, <2>2, <2>3
<1>8. CASE MapDel(t, k)
  <2>1. items' = [items EXCEPT ![k] = Nil] /\ mine' = mine BY <1>8 DEF MapDel
  <2>2. ObjTypeOK' BY <1>1, <1>5, <2>1 DEF ObjTypeOK
  <2>3. WrapHeld' BY <1>1, <1>2, <2>1 DEF ObjTypeOK, WrapHeld
  <2> QED BY <1>4, <1>6, <2>2, <2>3
<1> QED BY <1>7, <1>8

-----------------------------------------------------------------------------
\* A Release through a wrapper changes what a Release of its object does.
LEMMA ReleaseByWrapIs ==
    ASSUME NEW t \in Threads, NEW w \in Wraps, ReleaseByWrap(t, w)
    PROVE  ReleaseRef(t)
BY DEF ReleaseByWrap, ReleaseRef

\* Counts, and the places of wrappers that the counts rest on.
THEOREM ObjInductive == ObjRefSpec => []ObjIInv
<1>1. ObjRefInit => ObjIInv
  <2> SUFFICES ASSUME ObjRefInit PROVE ObjIInv
    OBVIOUS
  <2> USE ObjRefAssumption DEF ObjRefInit
  <2>1. \A o \in Objects : Count(o) = 0 BY PointingNat, CountIs
  <2>2. CountExact BY <2>1 DEF CountExact
  <2> QED BY <2>2 DEF ObjIInv, ObjTypeOK, WrapHeld, FoundStored
<1>2. ObjIInv /\ [ObjRefNext]_objRefVars => ObjIInv'
  <2> SUFFICES ASSUME ObjIInv, [ObjRefNext]_objRefVars PROVE ObjIInv'
    OBVIOUS
  <2>1. CASE UNCHANGED objRefVars
    <3> USE <2>1 DEF objRefVars, countVars, wrapVars, ObjIInv
    <3>1. \A o \in Objects : Count(o)' = Count(o) BY DEF Count
    <3>2. CountExact' BY <3>1, ExactMove DEF ObjTypeOK
    <3> QED BY <3>2 DEF ObjTypeOK, WrapHeld, FoundStored
  <2>2. CASE ObjRefNext
    BY <2>2, NewPreserves, ClonePreserves, ReleasePreserves, ReleaseByWrapIs, DeletePreserves,
       UniformPreserves, StorePreserves, MapDelPreserves
       DEF ObjRefNext, ThreadStep
  <2> QED BY <2>1, <2>2
<1> QED BY <1>1, <1>2, PTL DEF ObjRefSpec

\* ref_cnt of an object is the number of references to it, an object with a
\* reference is not deleted, and one without is deleted once (object.hpp).
THEOREM CountsExact == ObjRefSpec => []CountExact
BY ObjInductive, PTL DEF ObjIInv

\* What MapFind gave is there when it is cloned, if finders and changers of the
\* map share a lock (map.hpp).
THEOREM FoundIsAlive == ASSUME Guarded PROVE ObjRefSpec => []FoundAlive
<1>1. ObjIInv => FoundAlive
  <2> SUFFICES ASSUME ObjIInv, NEW t \in Threads, found[t] # Nil
               PROVE  obj[found[t]] \in alive
    BY DEF FoundAlive
  <2> USE ObjRefAssumption DEF ObjIInv
  <2>1. found[t] \in Wraps /\ obj[found[t]] \in Objects
    BY DEF ObjTypeOK, WrapHeld, FoundStored
  <2> QED BY <2>1, CountNat DEF CountExact
<1> QED BY <1>1, ObjInductive, PTL

-----------------------------------------------------------------------------
(* RJson: the array of members is a map.                                   *)

RJsonSpec == RJsonInit /\ [][RJsonNext]_rjsonVars

\* No document that is read has a key twice.
KeysOnce == \A d \in Documents : \A j, l \in 1..Len(d) : d[j].name = d[l].name => j = l

MemberSet == [name : MemberKeys, val : JsValues]

\* An array of members with different names.
Named(ms) == /\ ms \in Seq(MemberSet)
             /\ \A j, l \in 1..Len(ms) : ms[j].name = ms[l].name => j = l

Names(ms) == {ms[j].name : j \in DOMAIN ms}
Find(ms, k) == SelectInSeq(ms, LAMBDA mb : mb.name = k)
AsMap(ms) == [k \in Names(ms) |-> ms[Find(ms, k)].val]

\* FindMember: the place of the name, or none.
LEMMA FindIs ==
    ASSUME NEW ms, Named(ms), NEW k
    PROVE  /\ k \notin Names(ms) => Find(ms, k) = 0
           /\ k \in Names(ms) => Find(ms, k) \in 1..Len(ms) /\ ms[Find(ms, k)].name = k
           /\ \A j \in 1..Len(ms) : ms[j].name = k => Find(ms, k) = j
<1> DEFINE I == {j \in 1..Len(ms) : ms[j].name = k}
<1>1. Find(ms, k) = IF I # {} THEN Min(I) ELSE 0 BY DEF Find, SelectInSeq
<1>2. DOMAIN ms = 1..Len(ms) /\ Len(ms) \in Nat BY DEF Named
<1>3. ASSUME NEW j \in I PROVE Find(ms, k) = j
  <2>1. I = {j} BY <1>3 DEF Named
  <2>2. j \in Int BY <1>3
  <2>3. \A x \in {j} : \A y \in {j} : x <= y BY <2>2
  <2>4. Min({j}) = j BY <2>3 DEF Min
  <2> HIDE DEF I
  <2> QED BY <1>1, <2>1, <2>4
<1>4. k \in Names(ms) <=> I # {} BY <1>2 DEF Names
<1> QED BY <1>1, <1>3, <1>4

\* The map of an array has the value of each member under its name.
LEMMA MapOf ==
    ASSUME NEW ms, Named(ms)
    PROVE  /\ DOMAIN AsMap(ms) = Names(ms)
           /\ \A j \in 1..Len(ms) : AsMap(ms)[ms[j].name] = ms[j].val
           /\ AsMap(ms) \in [Names(ms) -> JsValues]
           /\ Names(ms) \in SUBSET MemberKeys
<1>1. DOMAIN ms = 1..Len(ms) /\ Len(ms) \in Nat BY DEF Named
<1>2. \A j \in 1..Len(ms) : ms[j].name \in Names(ms) /\ ms[j] \in MemberSet
  BY <1>1 DEF Names, Named
<1>3. \A j \in 1..Len(ms) : Find(ms, ms[j].name) = j BY FindIs
<1>4. \A j \in 1..Len(ms) : AsMap(ms)[ms[j].name] = ms[j].val BY <1>2, <1>3 DEF AsMap
<1>5. ASSUME NEW k \in Names(ms) PROVE k \in MemberKeys /\ ms[Find(ms, k)].val \in JsValues
  <2>1. PICK j \in 1..Len(ms) : ms[j].name = k BY <1>1 DEF Names
  <2> QED BY <1>2, <1>3, <2>1 DEF MemberSet
<1> QED BY <1>4, <1>5 DEF AsMap

\* A function with these names and values is the map.
LEMMA MapEquals ==
    ASSUME NEW ms, Named(ms), NEW S, NEW T, NEW f \in [S -> T], S = Names(ms),
           \A j \in 1..Len(ms) : f[ms[j].name] = ms[j].val
    PROVE  AsMap(ms) = f
<1>1. ASSUME NEW k \in S PROVE f[k] = ms[Find(ms, k)].val
  BY FindIs
<1>2. f = [k \in S |-> f[k]] OBVIOUS
<1> QED BY <1>1, <1>2 DEF AsMap

\* The array without members.
LEMMA MapEmpty == Named(<<>>) /\ Names(<<>>) = {} /\ AsMap(<<>>) = <<>>
<1>1. Named(<<>>) BY DEF Named
<1>2. Names(<<>>) = {} BY DEF Names
<1>3. AsMap(<<>>) = [k \in {} |-> 0] BY <1>2 DEF AsMap
<1>4. <<>> = [k \in {} |-> 0] OBVIOUS
<1> QED BY <1>1, <1>2, <1>3, <1>4

\* What MemberMap does to the map.
Put(f, k, x) == [n \in DOMAIN f \cup {k} |-> IF n = k THEN x ELSE f[n]]
Cut(f, k) == [n \in DOMAIN f \ {k} |-> f[n]]

\* AddMember of rapidjson appends.
LEMMA AppendPuts ==
    ASSUME NEW ms, Named(ms), NEW k \in MemberKeys, NEW x \in JsValues, k \notin Names(ms)
    PROVE  LET ns == Append(ms, [name |-> k, val |-> x]) IN
           Named(ns) /\ AsMap(ns) = Put(AsMap(ms), k, x)
<1> DEFINE e == [name |-> k, val |-> x]
           ns == Append(ms, e)
           L == Len(ms)
           f == Put(AsMap(ms), k, x)
<1>1. e \in MemberSet /\ e.name = k /\ e.val = x BY DEF MemberSet
<1> HIDE DEF e
<1>2. /\ ns \in Seq(MemberSet) /\ Len(ns) = L + 1 /\ L \in Nat /\ DOMAIN ms = 1..L
      /\ DOMAIN ns = 1..L + 1 /\ ns[L + 1] = e /\ \A j \in 1..L : ns[j] = ms[j]
  BY <1>1 DEF Named
<1> HIDE DEF ns
<1>3. \A j \in 1..L : ms[j].name # k BY <1>2 DEF Names
<1>4. ASSUME NEW j \in 1..L + 1, NEW l \in 1..L + 1, ns[j].name = ns[l].name PROVE j = l
  <2>1. CASE j \in 1..L /\ l \in 1..L BY <1>2, <1>4, <2>1 DEF Named
  <2>2. CASE j = L + 1 /\ l \in 1..L BY <1>1, <1>2, <1>3, <1>4, <2>2
  <2>3. CASE j \in 1..L /\ l = L + 1 BY <1>1, <1>2, <1>3, <1>4, <2>3
  <2> QED BY <1>2, <2>1, <2>2, <2>3
<1>5. Named(ns) BY <1>2, <1>4 DEF Named
<1>6. Names(ns) = Names(ms) \cup {k}
  <2>1. \A j \in 1..L : ns[j].name = ms[j].name BY <1>2
  <2>2. ns[L + 1].name = k /\ 1..L + 1 = 1..L \cup {L + 1} BY <1>1, <1>2
  <2> QED BY <1>2, <2>1, <2>2 DEF Names
<1>7. f \in [Names(ns) -> JsValues] BY <1>6, MapOf DEF Put
<1>8. ASSUME NEW j \in 1..Len(ns) PROVE f[ns[j].name] = ns[j].val
  <2>1. CASE j \in 1..L
    <3>1. ns[j] = ms[j] /\ ms[j].name # k /\ ms[j].name \in Names(ms) BY <1>2, <1>3, <2>1 DEF Names
    <3>2. AsMap(ms)[ms[j].name] = ms[j].val /\ DOMAIN AsMap(ms) = Names(ms) BY <2>1, MapOf
    <3> QED BY <3>1, <3>2 DEF Put
  <2>2. CASE j = L + 1 BY <1>1, <1>2, <2>2 DEF Put
  <2> QED BY <1>2, <2>1, <2>2
<1> HIDE DEF f
<1>9. AsMap(ns) = f BY <1>5, <1>7, <1>8, MapEquals
<1> QED BY <1>5, <1>9 DEF ns, f, e

\* A Set function assigns the value of the member it has found.
LEMMA AssignPuts ==
    ASSUME NEW ms, Named(ms), NEW k \in Names(ms), NEW x \in JsValues
    PROVE  LET ns == [ms EXCEPT ![Find(ms, k)].val = x] IN
           Named(ns) /\ AsMap(ns) = Put(AsMap(ms), k, x)
<1> DEFINE at == Find(ms, k)
           ns == [ms EXCEPT ![at].val = x]
           L == Len(ms)
           f == Put(AsMap(ms), k, x)
<1>1. at \in 1..L /\ ms[at].name = k /\ L \in Nat /\ DOMAIN ms = 1..L BY FindIs DEF Named
<1> HIDE DEF at
<1>2. [ms[at] EXCEPT !.val = x] \in MemberSet /\ [ms[at] EXCEPT !.val = x].name = k
      /\ [ms[at] EXCEPT !.val = x].val = x
  <2>1. ms[at] \in MemberSet BY <1>1 DEF Named
  <2> QED BY <1>1, <2>1 DEF MemberSet
<1>3. /\ ns \in Seq(MemberSet) /\ Len(ns) = L /\ DOMAIN ns = 1..L
      /\ \A j \in 1..L : ns[j] = IF j = at THEN [ms[at] EXCEPT !.val = x] ELSE ms[j]
  BY <1>1, <1>2 DEF Named
<1> HIDE DEF ns
<1>4. \A j \in 1..L : ns[j].name = ms[j].name BY <1>1, <1>2, <1>3
<1>5. Named(ns) BY <1>3, <1>4 DEF Named
<1>6. Names(ns) = Names(ms) BY <1>1, <1>3, <1>4 DEF Names
<1>7. f \in [Names(ns) -> JsValues] BY <1>6, MapOf DEF Put
<1>8. ASSUME NEW j \in 1..Len(ns) PROVE f[ns[j].name] = ns[j].val
  <2>1. CASE j = at BY <1>1, <1>2, <1>3, <2>1 DEF Put
  <2>2. CASE j # at
    <3>1. ns[j] = ms[j] /\ ms[j].name # k /\ ms[j].name \in Names(ms) /\ j \in 1..L
      BY <1>1, <1>3, <2>2 DEF Names, Named
    <3>2. AsMap(ms)[ms[j].name] = ms[j].val /\ DOMAIN AsMap(ms) = Names(ms) BY <3>1, MapOf
    <3> QED BY <3>1, <3>2 DEF Put
  <2> QED BY <2>1, <2>2
<1> HIDE DEF f
<1>9. AsMap(ns) = f BY <1>5, <1>7, <1>8, MapEquals
<1> QED BY <1>5, <1>9 DEF ns, f, at

\* ns has the members of ms except the one at at: member j is from[j] of ms.
MovedFrom(ns, ms, at, from) ==
    /\ \A j \in 1..Len(ns) : from[j] \in 1..Len(ms) /\ from[j] # at /\ ns[j] = ms[from[j]]
    /\ \A j, l \in 1..Len(ns) : from[j] = from[l] => j = l
    /\ \A l \in 1..Len(ms) : l # at => \E j \in 1..Len(ns) : from[j] = l

\* An array without one member, whatever the order of the others.
LEMMA MovedCuts ==
    ASSUME NEW ms, Named(ms), NEW at \in 1..Len(ms), NEW ns \in Seq(MemberSet),
           NEW from, MovedFrom(ns, ms, at, from)
    PROVE  Named(ns) /\ AsMap(ns) = Cut(AsMap(ms), ms[at].name)
<1> DEFINE k == ms[at].name
           f == Cut(AsMap(ms), k)
<1>1. DOMAIN ms = 1..Len(ms) /\ DOMAIN ns = 1..Len(ns) BY DEF Named
<1>2. \A j \in 1..Len(ms) : ms[j].name = k => j = at BY DEF Named
<1>3. ASSUME NEW j \in 1..Len(ns), NEW l \in 1..Len(ns), ns[j].name = ns[l].name PROVE j = l
  <2>1. ms[from[j]].name = ms[from[l]].name BY <1>3 DEF MovedFrom
  <2>3. from[j] \in 1..Len(ms) /\ from[l] \in 1..Len(ms) BY DEF MovedFrom
  <2>2. from[j] = from[l] BY <2>1, <2>3 DEF Named
  <2> QED BY <2>2 DEF MovedFrom
<1>4. Named(ns) BY <1>3 DEF Named
<1>5. Names(ns) = Names(ms) \ {k}
  <2>1. ASSUME NEW j \in 1..Len(ns) PROVE ns[j].name \in Names(ms) \ {k}
    <3>1. from[j] \in 1..Len(ms) /\ from[j] # at /\ ns[j] = ms[from[j]] BY DEF MovedFrom
    <3> HIDE DEF k
    <3> QED BY <1>1, <1>2, <3>1 DEF Names
  <2>2. ASSUME NEW l \in 1..Len(ms), ms[l].name # k PROVE ms[l].name \in Names(ns)
    <3>2. l # at BY <2>2
    <3>1. PICK j \in 1..Len(ns) : from[j] = l /\ ns[j] = ms[l] BY <3>2 DEF MovedFrom
    <3> QED BY <1>1, <3>1 DEF Names
  <2>3. Names(ns) \subseteq Names(ms) \ {k} BY <1>1, <2>1 DEF Names
  <2>4. ASSUME NEW n \in Names(ms) \ {k} PROVE n \in Names(ns)
    <3>1. PICK l \in 1..Len(ms) : ms[l].name = n BY <1>1 DEF Names
    <3> HIDE DEF k
    <3> QED BY <2>2, <3>1
  <2> QED BY <2>3, <2>4
<1>6. f \in [Names(ns) -> JsValues] BY <1>5, MapOf DEF Cut
<1>7. ASSUME NEW j \in 1..Len(ns) PROVE f[ns[j].name] = ns[j].val
  <2>1. ns[j].name \in Names(ns) BY <1>1 DEF Names
  <2>2. f[ns[j].name] = AsMap(ms)[ns[j].name] BY <1>5, <2>1, MapOf DEF Cut
  <2>3. from[j] \in 1..Len(ms) /\ ns[j] = ms[from[j]] BY DEF MovedFrom
  <2> QED BY <2>2, <2>3, MapOf
<1> HIDE DEF f
<1>8. AsMap(ns) = f BY <1>4, <1>6, <1>7, MapEquals
<1> QED BY <1>4, <1>8 DEF f

\* RemoveMember moves the last member to the place of the removed one.
LEMMA RemoveMemberCuts ==
    ASSUME NEW ms, Named(ms), NEW at \in 1..Len(ms)
    PROVE  LET ns == Front([ms EXCEPT ![at] = Last(ms)]) IN
           Named(ns) /\ AsMap(ns) = Cut(AsMap(ms), ms[at].name)
<1> DEFINE L == Len(ms)
           es == [ms EXCEPT ![at] = Last(ms)]
           ns == Front(es)
           from == [j \in 1..L - 1 |-> IF j = at THEN L ELSE j]
<1>1. L \in Nat /\ DOMAIN ms = 1..L /\ ms \in Seq(MemberSet) /\ L \in 1..L /\ at \in 1..L
  BY DEF Named
<1>2. Last(ms) = ms[L] /\ ms[L] \in MemberSet BY <1>1 DEF Last
<1>3. /\ es \in Seq(MemberSet) /\ Len(es) = L
      /\ \A j \in 1..L : es[j] = IF j = at THEN ms[L] ELSE ms[j]
  BY <1>1, <1>2
<1> HIDE DEF es
<1>11. Len(es) = L BY <1>3
<1>4. ns = SubSeq(es, 1, L - 1) BY <1>11 DEF Front
<1>5. ns \in Seq(MemberSet) /\ Len(ns) = L - 1 /\ \A j \in 1..L - 1 : ns[j] = es[j]
  <2>1. 1 \in Int /\ L - 1 \in Int /\ \A j \in 1..L - 1 : es[j] \in MemberSet BY <1>1, <1>3
  <2> HIDE DEF ns, L
  <2>2. /\ ns \in Seq(MemberSet) /\ Len(ns) = IF 1 <= L - 1 THEN L - 1 - 1 + 1 ELSE 0
        /\ \A j \in 1..L - 1 - 1 + 1 : ns[j] = es[1 + j - 1]
    BY <1>4, <2>1, SubSeqProperties
  <2>3. \A j \in 1..L - 1 : 1 + j - 1 = j /\ j \in 1..L - 1 - 1 + 1 BY <1>1
  <2>4. Len(ns) = L - 1 BY <1>1, <2>2
  <2> QED BY <2>2, <2>3, <2>4
<1> HIDE DEF ns
<1> HIDE DEF L
<1>10. \A j \in 1..L - 1 : j \in 1..L /\ j # L /\ (j = at => L # at) BY <1>1
<1>6. /\ from \in [1..L - 1 -> 1..L \ {at}]
      /\ \A j, l \in 1..L - 1 : from[j] = from[l] => j = l
  BY <1>1, <1>10
<1>7. ASSUME NEW l \in 1..L \ {at} PROVE \E j \in 1..L - 1 : from[j] = l
  <2>1. CASE l = L
    <3>1. at \in 1..L - 1 /\ from[at] = l BY <1>1, <2>1
    <3> QED BY <3>1
  <2>2. CASE l # L
    <3>1. l \in 1..L - 1 /\ from[l] = l BY <1>1, <2>2
    <3> QED BY <3>1
  <2> QED BY <2>1, <2>2
<1>8. \A j \in 1..L - 1 : ns[j] = ms[from[j]] BY <1>1, <1>3, <1>5
<1> HIDE DEF from
<1>9. Named(ns) /\ AsMap(ns) = Cut(AsMap(ms), ms[at].name)
  <2>1. MovedFrom(ns, ms, at, from) BY <1>5, <1>6, <1>7, <1>8 DEF MovedFrom, L
  <2> QED BY <1>5, <2>1, MovedCuts
<1> QED BY <1>9 DEF ns, es

\* EraseMember moves up what follows the erased one.
LEMMA EraseMemberCuts ==
    ASSUME NEW ms, Named(ms), NEW at \in 1..Len(ms)
    PROVE  Named(RemoveAt(ms, at)) /\ AsMap(RemoveAt(ms, at)) = Cut(AsMap(ms), ms[at].name)
<1> DEFINE L == Len(ms)
           a == SubSeq(ms, 1, at - 1)
           b == SubSeq(ms, at + 1, L)
           ns == a \o b
           from == [j \in 1..L - 1 |-> IF j < at THEN j ELSE j + 1]
<1>1. L \in Nat /\ DOMAIN ms = 1..L /\ ms \in Seq(MemberSet) BY DEF Named
<1>2. RemoveAt(ms, at) = ns BY DEF RemoveAt
<1>3. /\ a \in Seq(MemberSet) /\ Len(a) = at - 1 /\ \A k \in 1..at - 1 : a[k] = ms[k]
  <2>1. 1 \in Int /\ at - 1 \in Int /\ \A k \in 1..at - 1 : ms[k] \in MemberSet BY <1>1
  <2>2. /\ a \in Seq(MemberSet) /\ Len(a) = IF 1 <= at - 1 THEN at - 1 - 1 + 1 ELSE 0
        /\ \A k \in 1..at - 1 - 1 + 1 : a[k] = ms[1 + k - 1]
    BY <2>1, SubSeqProperties
  <2> HIDE DEF a
  <2>3. \A k \in 1..at - 1 : 1 + k - 1 = k /\ k \in 1..at - 1 - 1 + 1 OBVIOUS
  <2> QED BY <2>2, <2>3
<1>4. /\ b \in Seq(MemberSet) /\ Len(b) = L - at /\ \A k \in 1..L - at : b[k] = ms[at + k]
  <2>1. at + 1 \in Int /\ L \in Int /\ \A k \in at + 1..L : ms[k] \in MemberSet BY <1>1
  <2> HIDE DEF L
  <2>2. /\ b \in Seq(MemberSet) /\ Len(b) = IF at + 1 <= L THEN L - (at + 1) + 1 ELSE 0
        /\ \A k \in 1..L - (at + 1) + 1 : b[k] = ms[at + 1 + k - 1]
    BY <2>1, SubSeqProperties
  <2> HIDE DEF b
  <2>5. L - (at + 1) + 1 = L - at /\ (at + 1 <= L \/ L - at = 0) BY <1>1
  <2>3. Len(b) = L - at BY <2>2, <2>5
  <2>4. ASSUME NEW k \in 1..L - at PROVE b[k] = ms[at + k]
    <3>1. b[k] = ms[at + 1 + k - 1] BY <2>2, <2>5
    <3>2. at + 1 + k - 1 = at + k BY <1>1
    <3> QED BY <3>1, <3>2
  <2> QED BY <2>2, <2>3, <2>4
<1> HIDE DEF a, b
<1>5. /\ ns \in Seq(MemberSet) /\ Len(ns) = Len(a) + Len(b)
      /\ \A k \in 1..Len(a) + Len(b) : ns[k] = IF k <= Len(a) THEN a[k] ELSE b[k - Len(a)]
  BY <1>3, <1>4, ConcatProperties
<1> HIDE DEF ns
<1>6. Len(ns) = L - 1 BY <1>1, <1>3, <1>4, <1>5
<1>7. /\ from \in [1..L - 1 -> 1..L \ {at}]
      /\ \A j, l \in 1..L - 1 : from[j] = from[l] => j = l
  BY <1>1
<1>8. ASSUME NEW l \in 1..L \ {at} PROVE \E j \in 1..L - 1 : from[j] = l
  <2>1. CASE l < at
    <3>1. l \in 1..L - 1 /\ from[l] = l BY <1>1, <2>1
    <3> QED BY <3>1
  <2>2. CASE l > at
    <3>1. l - 1 \in 1..L - 1 /\ from[l - 1] = l BY <1>1, <2>2
    <3> QED BY <3>1
  <2> QED BY <2>1, <2>2
<1>9. ASSUME NEW j \in 1..L - 1 PROVE ns[j] = ms[from[j]]
  <2>1. CASE j < at
    <3>1. j <= Len(a) /\ j \in 1..Len(a) + Len(b) /\ j \in 1..at - 1 BY <1>1, <1>3, <1>4, <2>1
    <3>2. ns[j] = ms[j] BY <1>3, <1>5, <3>1
    <3> QED BY <2>1, <3>2
  <2>2. CASE j >= at
    <3>1. ~(j <= Len(a)) /\ j \in 1..Len(a) + Len(b) /\ j - Len(a) \in 1..L - at
          /\ at + (j - Len(a)) = j + 1
      BY <1>1, <1>3, <1>4, <2>2
    <3>2. ns[j] = b[j - Len(a)] BY <1>5, <3>1
    <3>3. b[j - Len(a)] = ms[at + (j - Len(a))] BY <1>4, <3>1
    <3>4. ns[j] = ms[j + 1] BY <3>1, <3>2, <3>3
    <3> QED BY <2>2, <3>4
  <2> QED BY <2>1, <2>2
<1> HIDE DEF from
<1>10. Named(ns) /\ AsMap(ns) = Cut(AsMap(ms), ms[at].name)
  <2>1. MovedFrom(ns, ms, at, from) BY <1>6, <1>7, <1>8, <1>9 DEF MovedFrom
  <2> QED BY <1>5, <2>1, MovedCuts
<1> QED BY <1>2, <1>10

-----------------------------------------------------------------------------
(* The calls.                                                              *)

MapBar == AsMap(members)

\* The mapped variable of the abstract specification.
LEMMA BarIs ==
    /\ [k \in {members[j].name : j \in DOMAIN members} |-> members[FindMember(k)].val] = MapBar
    /\ ([k \in {members[j].name : j \in DOMAIN members} |-> members[FindMember(k)].val])' = MapBar'
BY DEF MapBar, AsMap, Names, Find, FindMember

LEMMA KnownIs ==
    ASSUME Named(members), NEW k
    PROVE  /\ FindMember(k) = Find(members, k)
           /\ FindMember(k) = 0 <=> k \notin DOMAIN MapBar
           /\ FindMember(k) # 0 => /\ FindMember(k) \in 1..Len(members)
                                   /\ members[FindMember(k)].name = k
                                   /\ members[FindMember(k)].val = MapBar[k]
<1>1. FindMember(k) = Find(members, k) BY DEF FindMember, Find
<1>2. DOMAIN MapBar = Names(members) BY MapOf DEF MapBar
<1>3. CASE k \in Names(members)
  <2>1. Find(members, k) \in 1..Len(members) /\ members[Find(members, k)].name = k
    BY <1>3, FindIs
  <2>2. Len(members) \in Nat BY DEF Named
  <2>3. members[Find(members, k)].val = MapBar[k] BY <1>3 DEF MapBar, AsMap
  <2> QED BY <1>1, <1>2, <1>3, <2>1, <2>2, <2>3
<1>4. CASE k \notin Names(members)
  <2>1. Find(members, k) = 0 BY <1>4, FindIs
  <2> QED BY <1>1, <1>2, <1>4, <2>1
<1> QED BY <1>3, <1>4

LEMMA SetMaps ==
    ASSUME Named(members), NEW kind \in JsKinds, NEW k \in MemberKeys, NEW x \in JsValues,
           Set(kind, k, x)
    PROVE  Named(members)' /\ MembersMap!Set
<1> DEFINE at == FindMember(k)
<1>1. CASE at = 0
  <2>1. /\ members' = Append(members, [name |-> k, val |-> x]) /\ k \notin Names(members)
        /\ JsReturns("Set", k, kind, x, "ok") /\ k \notin DOMAIN MapBar
    BY <1>1, KnownIs, MapOf DEF Set, Append1, MapBar
  <2>2. Named(members') /\ AsMap(members') = Put(AsMap(members), k, x) BY <2>1, AppendPuts
  <2>3. Named(members)' /\ MapBar' = Put(MapBar, k, x) BY <2>2 DEF MapBar, Named
  <2> QED BY <2>1, <2>3, BarIs DEF MembersMap!Set, MembersMap!Updated, JsReturns, Put
<1>2. CASE at # 0 /\ Is(kind, members[at].val)
  <2>1. /\ members' = [members EXCEPT ![at].val = x] /\ at = Find(members, k)
        /\ JsReturns("Set", k, kind, x, "ok") /\ k \in DOMAIN MapBar /\ k \in Names(members)
        /\ kind \in KindsOf(MapBar[k])
    BY <1>2, KnownIs, MapOf DEF Set, MapBar, KindsOf
  <2>2. Named(members') /\ AsMap(members') = Put(AsMap(members), k, x) BY <2>1, AssignPuts
  <2>3. Named(members)' /\ MapBar' = Put(MapBar, k, x) BY <2>2 DEF MapBar, Named
  <2> QED BY <2>1, <2>3, BarIs DEF MembersMap!Set, MembersMap!Updated, JsReturns, Put
<1>3. CASE at # 0 /\ ~Is(kind, members[at].val)
  <2>1. /\ members' = members /\ JsReturns("Set", k, kind, x, "cast") /\ k \in DOMAIN MapBar
        /\ kind \notin KindsOf(MapBar[k])
    BY <1>3, KnownIs DEF Set, KindsOf
  <2>2. Named(members)' /\ MapBar' = MapBar BY <2>1 DEF MapBar, Named
  <2> QED BY <2>1, <2>2, BarIs DEF MembersMap!Set, JsReturns
<1> QED BY <1>1, <1>2, <1>3

LEMMA GetMaps ==
    ASSUME Named(members), NEW kind \in JsKinds, NEW k \in MemberKeys, Get(kind, k)
    PROVE  Named(members)' /\ MembersMap!Get
<1> DEFINE at == FindMember(k)
<1>1. members' = members /\ MapBar' = MapBar BY DEF Get, MapBar
<1>2. CASE at # 0 /\ Is(kind, members[at].val)
  <2>1. /\ JsReturns("Get", k, kind, MapBar[k], "ok") /\ k \in DOMAIN MapBar
        /\ kind \in KindsOf(MapBar[k])
    BY <1>2, KnownIs DEF Get, KindsOf
  <2> QED BY <1>1, <2>1, BarIs DEF MembersMap!Get, JsReturns, Named
<1>3. CASE ~(at # 0 /\ Is(kind, members[at].val))
  <2>1. /\ JsReturns("Get", k, kind, "object", "notexist")
        /\ ~(k \in DOMAIN MapBar /\ kind \in KindsOf(MapBar[k]))
    BY <1>3, KnownIs DEF Get, KindsOf
  <2> QED BY <1>1, <2>1, BarIs DEF MembersMap!Get, JsReturns, Named
<1> QED BY <1>2, <1>3

LEMMA AddMaps ==
    ASSUME Named(members), NEW k \in MemberKeys, NEW x \in JsValues, AddMember(k, x)
    PROVE  Named(members)' /\ MembersMap!Add
<1> DEFINE at == FindMember(k)
           ms == RemoveAt(members, at)
<1>1. CASE at = 0
  <2>1. /\ members' = Append(members, [name |-> k, val |-> x]) /\ k \notin Names(members)
        /\ JsReturns("Add", k, "any", x, "ok") /\ k \notin DOMAIN MapBar
    BY <1>1, KnownIs, MapOf DEF AddMember, Append1, MapBar
  <2>2. Named(members') /\ AsMap(members') = Put(AsMap(members), k, x) BY <2>1, AppendPuts
  <2>3. Named(members)' /\ MapBar' = Put(MapBar, k, x) BY <2>2 DEF MapBar, Named
  <2> QED BY <2>1, <2>3, BarIs DEF MembersMap!Add, MembersMap!Updated, JsReturns, Put
<1>2. CASE at # 0 /\ members[at].val \in Containers
  <2>1. /\ members' = Append(ms, [name |-> k, val |-> x])
        /\ at \in 1..Len(members) /\ members[at].name = k
        /\ JsReturns("Add", k, "any", x, "ok") /\ k \in DOMAIN MapBar
        /\ MapBar[k] \in Containers
    BY <1>2, KnownIs DEF AddMember
  <2>2. Named(ms) /\ AsMap(ms) = Cut(MapBar, k)
    BY <2>1, EraseMemberCuts DEF MapBar
  <2> HIDE DEF ms
  <2>3. k \notin Names(ms) BY <2>2, MapOf DEF Cut
  <2>4. Named(members') /\ AsMap(members') = Put(AsMap(ms), k, x) BY <2>1, <2>2, <2>3, AppendPuts
  <2>5. Put(Cut(MapBar, k), k, x) = Put(MapBar, k, x) BY DEF Put, Cut
  <2>6. Named(members)' /\ MapBar' = Put(MapBar, k, x) BY <2>2, <2>4, <2>5 DEF MapBar, Named
  <2> QED BY <2>1, <2>6, BarIs DEF MembersMap!Add, MembersMap!Updated, JsReturns, Put
<1>3. CASE at # 0 /\ members[at].val \notin Containers
  <2>1. /\ members' = members /\ JsReturns("Add", k, "any", x, "cast") /\ k \in DOMAIN MapBar
        /\ MapBar[k] \notin Containers
    BY <1>3, KnownIs DEF AddMember
  <2>2. Named(members)' /\ MapBar' = MapBar BY <2>1 DEF MapBar, Named
  <2> QED BY <2>1, <2>2, BarIs DEF MembersMap!Add, JsReturns
<1> QED BY <1>1, <1>2, <1>3

LEMMA DelMaps ==
    ASSUME Named(members), NEW k \in MemberKeys, DelMember(k)
    PROVE  Named(members)' /\ MembersMap!Del
<1> DEFINE at == FindMember(k)
<1>1. CASE at = 0
  <2>1. /\ members' = members /\ JsReturns("Del", k, "any", "object", "notexist")
        /\ k \notin DOMAIN MapBar
    BY <1>1, KnownIs DEF DelMember
  <2>2. Named(members)' /\ MapBar' = MapBar BY <2>1 DEF MapBar, Named
  <2>3. MapBar = Cut(MapBar, k)
    <3>1. MapBar = [n \in DOMAIN MapBar |-> MapBar[n]] BY DEF MapBar, AsMap
    <3>2. DOMAIN MapBar \ {k} = DOMAIN MapBar BY <2>1
    <3> QED BY <3>1, <3>2 DEF Cut
  <2> QED BY <2>1, <2>2, <2>3, BarIs DEF MembersMap!Del, MembersMap!Without, JsReturns, Cut
<1>2. CASE at # 0
  <2>1. /\ members' = Front([members EXCEPT ![at] = Last(members)])
        /\ at \in 1..Len(members) /\ members[at].name = k
        /\ JsReturns("Del", k, "any", "object", "ok") /\ k \in DOMAIN MapBar
    BY <1>2, KnownIs DEF DelMember
  <2>2. Named(members') /\ AsMap(members') = Cut(AsMap(members), k) BY <2>1, RemoveMemberCuts
  <2>3. Named(members)' /\ MapBar' = Cut(MapBar, k) BY <2>2 DEF MapBar, Named
  <2> QED BY <2>1, <2>3, BarIs DEF MembersMap!Del, MembersMap!Without, JsReturns, Cut
<1> QED BY <1>1, <1>2

LEMMA LoadMaps ==
    ASSUME KeysOnce, Named(members), SetObject \/ Load
    PROVE  Named(members)' /\ MembersMap!Load
<1>1. Named(members')
  <2>1. CASE members' = <<>> BY <2>1, MapEmpty
  <2>2. CASE members' \in Documents
    BY <2>2, RJsonAssumption DEF KeysOnce, Named, MemberSet
  <2>3. CASE members' = members BY <2>3 DEF Named
  <2> QED BY <2>1, <2>2, <2>3 DEF SetObject, Load
<1>2. MapBar' \in [Names(members') -> JsValues] /\ Names(members') \in SUBSET MemberKeys
  <2>1. AsMap(members') \in [Names(members') -> JsValues] /\ Names(members') \in SUBSET MemberKeys
    BY <1>1, MapOf
  <2>2. PICK f : f = AsMap(members') OBVIOUS
  <2>3. MapBar' = f BY <2>2 DEF MapBar
  <2> QED BY <2>1, <2>2, <2>3
<1>3. MapBar' \in UNION {[S -> JsValues] : S \in SUBSET MemberKeys} BY <1>2
<1>4. jsCall'.op = "Load" BY DEF SetObject, Load, JsReturns
<1>5. Named(members)' BY <1>1 DEF Named
<1> QED BY <1>3, <1>4, <1>5, BarIs DEF MembersMap!Load

\* Whatever members are set, read, added, removed and loaded, the array is a
\* map: each call reads or changes the member of its own key, wherever erasing
\* and removing have moved it, if no document that is read has a key twice.
THEOREM JsonRefinement == KeysOnce => (RJsonSpec => ImplementsMap)
<1> SUFFICES ASSUME KeysOnce PROVE RJsonSpec => ImplementsMap OBVIOUS
<1>1. RJsonInit => Named(members) BY MapEmpty DEF RJsonInit
<1>2. RJsonInit => MembersMap!Init
  <2> SUFFICES ASSUME RJsonInit PROVE MembersMap!Init OBVIOUS
  <2>1. MapBar = <<>> /\ jsCall = [op |-> "none"] BY MapEmpty DEF RJsonInit, MapBar
  <2> QED BY <2>1, BarIs DEF MembersMap!Init
<1>3. Named(members) /\ [RJsonNext]_rjsonVars
        => Named(members)' /\ [MembersMap!Next]_(MembersMap!vars)
  <2> SUFFICES ASSUME Named(members), [RJsonNext]_rjsonVars
               PROVE  Named(members)' /\ [MembersMap!Next]_(MembersMap!vars)
    OBVIOUS
  <2>1. CASE UNCHANGED rjsonVars
    <3>1. Named(members)' /\ MapBar' = MapBar BY <2>1 DEF rjsonVars, MapBar, Named
    <3> QED BY <2>1, <3>1, BarIs DEF rjsonVars, MembersMap!vars
  <2>2. CASE SetObject \/ Load BY <2>2, LoadMaps DEF MembersMap!Next
  <2>3. ASSUME NEW k \in MemberKeys, DelMember(k)
        PROVE  Named(members)' /\ MembersMap!Next
    BY <2>3, DelMaps DEF MembersMap!Next
  <2>4. ASSUME NEW k \in MemberKeys, NEW kind \in JsKinds, Get(kind, k)
        PROVE  Named(members)' /\ MembersMap!Next
    BY <2>4, GetMaps DEF MembersMap!Next
  <2>5. ASSUME NEW k \in MemberKeys, NEW x \in JsValues, AddMember(k, x)
        PROVE  Named(members)' /\ MembersMap!Next
    BY <2>5, AddMaps DEF MembersMap!Next
  <2>6. ASSUME NEW k \in MemberKeys, NEW kind \in JsKinds, NEW x \in JsValues, Set(kind, k, x)
        PROVE  Named(members)' /\ MembersMap!Next
    BY <2>6, SetMaps DEF MembersMap!Next
  <2>7. "string" \in JsKinds BY RJsonAssumption
  <2> QED BY <2>1, <2>2, <2>3, <2>4, <2>5, <2>6, <2>7
          DEF RJsonNext, GetString, GetInteger, GetOther, SetString, SetInteger, SetOther
<1> QED BY <1>1, <1>2, <1>3, PTL DEF RJsonSpec, ImplementsMap, MembersMap!Spec
=============================================================================
