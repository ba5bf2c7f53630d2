-------------------------- MODULE PtzSettingsProofs --------------------------
(***************************************************************************)
(* Theorems of PtzSettings, for any settings, values, presets and bounds:  *)
(* an outage leaves nothing behind (OutageForgets), and taking the history *)
(* back leads to what the camera was set to (HistoryLeadsBack).            *)
(*                                                                         *)
(* QueueInv says what the jobs of the queue are; the first needs no more.  *)
(* For the second, LeadInv says what the history leads back from while     *)
(* writes are open: before a write that is made and not recorded, after an *)
(* undo or revert that is recorded and not made.                           *)
(***************************************************************************)
EXTENDS PtzSettings, FiniteSetTheorems, SequenceTheorems, WellFoundedInduction, TLAPS

IsFirst(j)   == j.kind = "read" /\ j.who = "first"
IsUndoing(j) == j.kind = "write" /\ j.who \in {"undo", "revert"}
IsMade(j)    == j.kind = "write" /\ j.stage = "done"

(* A job of this connection or an earlier one; a write made knows what the *)
(* camera was set to, and only the first read has more to ask for.         *)
Fine(j, cn) ==
  /\ j.of <= cn
  /\ IsMade(j) => j.was \in [Prop -> Value]
  /\ j.kind = "read" /\ ~IsFirst(j) => j.rest = <<>>

(* What waits has not met the camera and what runs has; what is late is of *)
(* a connection given up.  The first read is one job at a time, from       *)
(* Identified to the end of "first".                                       *)
QueueInv(pend, run, lat, ph, cn) ==
  /\ pend \in Seq(Job) /\ run \in Job \cup {None} /\ lat \in Job \cup {None}
  /\ \A i \in DOMAIN pend : pend[i].stage = "sent" /\ Fine(pend[i], cn)
  /\ run # None => run.stage # "sent" /\ Fine(run, cn)
  /\ lat # None => Fine(lat, cn) /\ ~IsFirst(lat) /\ (ph = "down" \/ lat.of < cn)
  /\ \A i \in DOMAIN pend : IsFirst(pend[i]) =>
       /\ ph = "first" /\ pend[i].of = cn
       /\ run # None => ~IsFirst(run)
       /\ \A k \in DOMAIN pend : IsFirst(pend[k]) => k = i
  /\ run # None /\ IsFirst(run) => ph = "first" /\ run.of = cn
  /\ pend # <<>> \/ run # None => ph # "down"

SettingsInv == TypeOK /\ QueueInv(pending, running, late, phase, conn)

(* Nothing has happened that leaves the history without a promise. *)
Kept == slips \subseteq {"lateRead"} /\ ~(late # None /\ late.kind = "write")

(* A setting is taken back once. *)
Plain(j) ==
  /\ \A i \in DOMAIN j.rest : j.rest[i].prop # j.prop
  /\ \A i, k \in DOMAIN j.rest : j.rest[i].prop = j.rest[k].prop => i = k

(* There is one undo or revert at a time, and while there is nothing is    *)
(* recorded.                                                               *)
UndoInv(pend, run, susp) ==
  /\ susp <=> \/ run # None /\ IsUndoing(run)
              \/ \E i \in DOMAIN pend : IsUndoing(pend[i])
  /\ run # None /\ IsUndoing(run) => Plain(run) /\ \A i \in DOMAIN pend : ~IsUndoing(pend[i])
  /\ \A i \in DOMAIN pend : IsUndoing(pend[i]) =>
       Plain(pend[i]) /\ \A k \in DOMAIN pend : IsUndoing(pend[k]) => k = i

(* What an undo or revert still has to ask of the camera, and the settings *)
(* it makes of what the camera is set to.                                  *)
Owed(j) ==
  (IF j.stage = "done" THEN {} ELSE {[prop |-> j.prop, value |-> j.value]}) \cup Range(j.rest)
Makes(j, act, b) ==
  \A p \in Prop : /\ \A w \in Owed(j) : w.prop = p => b[p] = w.value
                  /\ (\A w \in Owed(j) : w.prop # p) => b[p] = act[p]

(* The settings the history leads back from: those before a write that is  *)
(* made and not recorded, those after an undo or revert not yet made.      *)
Unrecorded(run) == run # None /\ IsMade(run) /\ ~IsUndoing(run)
Settled(pend, run, act, b) ==
  /\ Unrecorded(run) => b = run.was
  /\ ~Unrecorded(run) =>
       /\ run # None /\ IsUndoing(run) => Makes(run, act, b)
       /\ \A i \in DOMAIN pend : IsUndoing(pend[i]) => Makes(pend[i], act, b)
       /\ ~(run # None /\ IsUndoing(run)) /\ (\A i \in DOMAIN pend : ~IsUndoing(pend[i])) => b = act

(* From b, and back over list as far as place i, setting p comes to be v:  *)
(* the first write of it from there on says so, or it stays.               *)
Led(list, i, p, v, b) ==
  /\ \A j \in Writes(list) :
       /\ i <= j /\ list[j].prop = p
       /\ \A k \in Writes(list) : i <= k /\ k < j => list[k].prop # p
       => v = list[j].from
  /\ (\A k \in Writes(list) : i <= k => list[k].prop # p) => v = b[p]

(* list leads from b back to what each entry was made on. *)
Leads(list, b) ==
  \A i \in DOMAIN list, p \in Prop : Led(list, i, p, list[i].was[p], b)

LeadInv ==
  Kept =>
    /\ UndoInv(pending, running, suspended)
    /\ running # None /\ IsMade(running) =>
         actual = [running.was EXCEPT ![running.prop] = running.value]
    /\ ~(Unrecorded(running) /\ suspended) =>
         \E b \in [Prop -> Value] : Settled(pending, running, actual, b) /\ Leads(history, b)

-----------------------------------------------------------------------------
(* Sets of places in a list. *)
LEMMA LeastOf ==
  ASSUME NEW S \in SUBSET Nat, S # {}
  PROVE  \E n \in S : \A k \in S : n <= k
<1> DEFINE R == OpToRel(<, Nat)
<1>1. IsWellFoundedOn(R, Nat)
  BY NatLessThanWellFounded
<1>2. \A x, y \in Nat : x < y => <<x, y>> \in R
  BY DEF OpToRel
<1> HIDE DEF R
<1>3. PICK n \in S : \A k \in S : <<k, n>> \notin R
  BY <1>1, WFMin
<1>4. \A k \in S : k \in Nat /\ n \in Nat
  OBVIOUS
<1>5. \A k \in S : ~(k < n)
  BY <1>2, <1>3, <1>4
<1> QED
  BY <1>3, <1>4, <1>5

LEMMA NewestIs ==
  ASSUME NEW n \in Nat, NEW S \in SUBSET (1..n), S # {}
  PROVE  Newest(S) \in S /\ \A j \in S : j <= Newest(S)
<1> DEFINE T == {n - i : i \in S}
<1>1. T \in SUBSET Nat /\ T # {}
  <2>1. \A i \in S : i \in Nat /\ i <= n
    OBVIOUS
  <2>2. \A i \in S : n - i \in Nat
    BY <2>1
  <2> QED
    BY <2>2
<1>2. PICK t \in T : \A k \in T : t <= k
  BY <1>1, LeastOf
<1>3. PICK i \in S : t = n - i
  BY <1>2
<1>4. \A j \in S : j <= i
  <2> TAKE j \in S
  <2>1. n - j \in T
    OBVIOUS
  <2> QED
    BY <1>2, <1>3, <2>1
<1> QED
  BY <1>3, <1>4 DEF Newest

LEMMA LengthIs ==
  ASSUME NEW S, NEW s \in Seq(S)
  PROVE  /\ Len(s) \in Nat /\ DOMAIN s = 1..Len(s) /\ \A i \in DOMAIN s : s[i] \in S
         /\ (s = <<>> <=> Len(s) = 0)
  BY LenProperties, EmptySeq, ElementOfSeq

(* The items left are in their order: item k of them is item k of s or the *)
(* one after it.                                                           *)
LEMMA JoinIs ==
  ASSUME NEW S, NEW a \in Seq(S), NEW b \in Seq(S), NEW m \in Nat, Len(a) + Len(b) = m
  PROVE  /\ a \o b \in Seq(S) /\ Len(a \o b) = m
         /\ \A k \in 1..m : (a \o b)[k] = IF k <= Len(a) THEN a[k] ELSE b[k - Len(a)]
BY ConcatProperties

LEMMA RemoveAtIs ==
  ASSUME NEW S, NEW s \in Seq(S), NEW i \in DOMAIN s
  PROVE  /\ RemoveAt(s, i) \in Seq(S) /\ Len(RemoveAt(s, i)) = Len(s) - 1
         /\ DOMAIN RemoveAt(s, i) = 1..(Len(s) - 1)
         /\ \A k \in 1..(Len(s) - 1) : RemoveAt(s, i)[k] = IF k < i THEN s[k] ELSE s[k + 1]
<1> DEFINE n == Len(s)
           a == SubSeq(s, 1, i - 1)
           b == SubSeq(s, i + 1, n)
<1>1. n \in Nat /\ DOMAIN s = 1..n /\ i \in 1..n
  BY LengthIs
<1>2. a \in Seq(S) /\ Len(a) = i - 1 /\ \A k \in 1..(i - 1) : a[k] = s[k]
  BY <1>1, SubSeqProperties
<1>3. b \in Seq(S) /\ Len(b) = n - i /\ \A k \in 1..(n - i) : b[k] = s[i + k]
  BY <1>1, SubSeqProperties
<1> HIDE DEF a, b
<1>4. /\ a \o b \in Seq(S) /\ Len(a \o b) = (i - 1) + (n - i)
      /\ \A k \in 1..(n - 1) : (a \o b)[k] = IF k <= i - 1 THEN a[k] ELSE b[k - (i - 1)]
  <2>1. Len(a) + Len(b) = n - 1 /\ n - 1 \in Nat /\ (i - 1) + (n - i) = n - 1
    BY <1>1, <1>2, <1>3
  <2> HIDE DEF n
  <2>2. /\ a \o b \in Seq(S) /\ Len(a \o b) = n - 1
        /\ \A k \in 1..(n - 1) : (a \o b)[k] = IF k <= Len(a) THEN a[k] ELSE b[k - Len(a)]
    <3>1. a \in Seq(S) /\ b \in Seq(S)
      BY <1>2, <1>3
    <3>2. QED
      BY <2>1, <3>1, JoinIs
  <2> QED
    BY <1>2, <2>1, <2>2
<1>5. DOMAIN (a \o b) = 1..(n - 1)
  <2>1. \A t \in Seq(S) : DOMAIN t = 1..Len(t)
    BY LenProperties
  <2>2. (i - 1) + (n - i) = n - 1
    BY <1>1
  <2> HIDE DEF n
  <2> QED
    BY <1>4, <2>1, <2>2
<1>6. ASSUME NEW k \in 1..(n - 1)
      PROVE  (a \o b)[k] = IF k < i THEN s[k] ELSE s[k + 1]
  <2>1. CASE k < i
    BY <1>1, <1>2, <1>4, <2>1
  <2>2. CASE ~(k < i)
    <3>1. k - (i - 1) \in 1..(n - i) /\ i + (k - (i - 1)) = k + 1 /\ ~(k <= i - 1)
      BY <1>1, <2>2
    <3> QED
      BY <1>3, <1>4, <2>2, <3>1
  <2> QED
    BY <2>1, <2>2
<1>7. RemoveAt(s, i) = a \o b
  BY DEF RemoveAt, a, b
<1>8. (i - 1) + (n - i) = n - 1
  BY <1>1
<1> QED
  BY <1>4, <1>5, <1>6, <1>7, <1>8

(* What is chosen from a sequence, in its order. *)
LEMMA SiftIs ==
  ASSUME NEW S, NEW s \in Seq(S), NEW at \in SUBSET (DOMAIN s)
  PROVE  /\ Sift(s, at) \in Seq(S) /\ Len(Sift(s, at)) <= Len(s)
         /\ \A k \in DOMAIN Sift(s, at) : \E i \in at : Sift(s, at)[k] = s[i]
         /\ \A i \in at : \E k \in DOMAIN Sift(s, at) : Sift(s, at)[k] = s[i]
         /\ IsInjective(s) => IsInjective(Sift(s, at))
<1> DEFINE n       == Len(s)
           upTo(i) == {j \in at : j <= i}
           f       == [i \in at |-> Cardinality(upTo(i))]
           m       == Cardinality(at)
           pick(k) == CHOOSE i \in at : Cardinality(upTo(i)) = k
<1>1. n \in Nat /\ DOMAIN s = 1..n /\ \A i \in 1..n : s[i] \in S
  BY LengthIs
<1>2. IsFiniteSet(1..n) /\ Cardinality(1..n) = n
  <2> HIDE DEF n
  <2> QED
    BY <1>1, FS_Interval
<1>3. IsFiniteSet(at) /\ m \in Nat /\ m <= n
  <2>1. at \in SUBSET (1..n)
    BY <1>1
  <2> HIDE DEF n
  <2> QED
    BY <1>2, <2>1, FS_Subset, FS_CardinalityType
<1>4. ASSUME NEW c \in at
      PROVE  /\ upTo(c) \in SUBSET at /\ IsFiniteSet(upTo(c)) /\ c \in upTo(c)
             /\ Cardinality(upTo(c)) \in 1..m
  <2>1. upTo(c) \in SUBSET at /\ c \in upTo(c)
    BY <1>1
  <2>2. IsFiniteSet(upTo(c)) /\ Cardinality(upTo(c)) <= m
    BY <1>3, <2>1, FS_Subset
  <2>3. Cardinality(upTo(c)) \in Nat /\ Cardinality(upTo(c)) # 0
    BY <2>1, <2>2, FS_CardinalityType, FS_EmptySet
  <2> QED
    BY <1>3, <2>1, <2>2, <2>3
<1>5. ASSUME NEW c \in at, NEW d \in at, c <= d, Cardinality(upTo(c)) = Cardinality(upTo(d))
      PROVE  c = d
  <2>1. upTo(c) \in SUBSET upTo(d)
    BY <1>1, <1>5
  <2>2. upTo(c) = upTo(d)
    <3> HIDE DEF upTo
    <3> QED
      BY <1>4, <1>5, <2>1, FS_Subset
  <2>3. d <= c
    BY <1>4, <2>2
  <2> QED
    BY <1>1, <1>5, <2>3
<1>6. \A c, d \in at : Cardinality(upTo(c)) = Cardinality(upTo(d)) => c = d
  <2> TAKE c, d \in at
  <2>1. c <= d \/ d <= c
    BY <1>1
  <2> QED
    BY <1>5, <2>1
<1>7. f \in Injection(at, 1..m)
  <2>1. f \in [at -> 1..m]
    BY <1>4
  <2> QED
    BY <1>6, <2>1 DEF Injection, IsInjective
<1>8. IsFiniteSet(1..m) /\ Cardinality(1..m) = m
  <2> HIDE DEF m
  <2> QED
    BY <1>3, FS_Interval
<1>9. f \in Surjection(at, 1..m)
  <2> HIDE DEF f
  <2> QED
    BY <1>3, <1>7, <1>8, FS_Injection
<1>10. \A k \in 1..m : pick(k) \in at /\ Cardinality(upTo(pick(k))) = k
  <2> TAKE k \in 1..m
  <2>1. \E i \in at : f[i] = k
    BY <1>9 DEF Surjection
  <2>2. \E i \in at : Cardinality(upTo(i)) = k
    BY <2>1
  <2> HIDE DEF upTo
  <2> QED
    BY <2>2
<1>11. Sift(s, at) = [k \in 1..m |-> s[pick(k)]]
  BY DEF Sift
<1>12. \A i \in at : Cardinality(upTo(i)) \in 1..m /\ pick(Cardinality(upTo(i))) = i
  BY <1>4, <1>6, <1>10
<1> HIDE DEF upTo, pick, m, f
<1>13. \A k \in 1..m : s[pick(k)] \in S
  BY <1>1, <1>10
<1>14. Sift(s, at) \in Seq(S) /\ Len(Sift(s, at)) = m
  BY <1>3, <1>11, <1>13, IsASeq
<1>15. DOMAIN Sift(s, at) = 1..m /\ \A k \in 1..m : Sift(s, at)[k] = s[pick(k)]
  BY <1>11
<1>16. IsInjective(s) => IsInjective(Sift(s, at))
  <2>1. ASSUME IsInjective(s), NEW k \in 1..m, NEW l \in 1..m, s[pick(k)] = s[pick(l)]
        PROVE  k = l
    <3>1. pick(k) = pick(l)
      BY <1>1, <1>10, <2>1 DEF IsInjective
    <3> QED
      BY <1>10, <3>1
  <2> QED
    BY <1>15, <2>1 DEF IsInjective
<1> QED
  BY <1>3, <1>10, <1>12, <1>14, <1>15, <1>16

-----------------------------------------------------------------------------
(* THE HISTORY *)

LEMMA EntryIs ==
  ASSUME NEW e \in Entry
  PROVE  /\ e.kind \in {"write", "mark"} /\ e.was \in [Prop -> Value]
         /\ e.kind = "write" => /\ e.prop \in Prop /\ e.from \in Value /\ e.to \in Value
                                /\ e.of \in Nat
  BY DEF Entry

LEMMA ListIs ==
  ASSUME NEW list \in Seq(Entry)
  PROVE  /\ Len(list) \in Nat /\ DOMAIN list = 1..Len(list) /\ \A i \in DOMAIN list : list[i] \in Entry
         /\ Writes(list) \in SUBSET (1..Len(list)) /\ Marks(list) \in SUBSET (1..Len(list))
         /\ \A i \in DOMAIN list : i \in Writes(list) \/ i \in Marks(list)
<1>1. Len(list) \in Nat /\ DOMAIN list = 1..Len(list) /\ \A i \in DOMAIN list : list[i] \in Entry
  BY LengthIs
<1>2. \A i \in DOMAIN list : list[i].kind \in {"write", "mark"}
  BY <1>1, EntryIs
<1> QED
  BY <1>1, <1>2 DEF Writes, Marks

(* An entry is added at the end, and one may be lost at the beginning. *)
LEMMA PushIs ==
  ASSUME SettingsAssumption, NEW list \in Seq(Entry), Len(list) <= Limit, NEW e \in Entry
  PROVE  /\ Push(list, e) \in Seq(Entry) /\ Len(Push(list, e)) <= Limit
         /\ \E d \in {0, 1} :
              /\ Len(Push(list, e)) = Len(list) + 1 - d /\ Len(list) >= d
              /\ Push(list, e)[Len(list) + 1 - d] = e
              /\ \A i \in 1..(Len(list) - d) : Push(list, e)[i] = list[i + d]
<1>1. Len(list) \in Nat /\ Limit \in Nat /\ Limit > 0 /\ DOMAIN list = 1..Len(list)
  BY ListIs DEF SettingsAssumption
<1>2. CASE Len(list) < Limit
  <2>1. /\ Append(list, e) \in Seq(Entry) /\ Len(Append(list, e)) = Len(list) + 1
        /\ Append(list, e)[Len(list) + 1] = e
        /\ \A i \in 1..Len(list) : Append(list, e)[i] = list[i]
    BY <1>1, AppendProperties
  <2>2. Push(list, e) = Append(list, e)
    BY <1>2 DEF Push
  <2> DEFINE L == Append(list, e)
  <2> HIDE DEF L
  <2>3. Len(list) + 1 - 0 = Len(list) + 1 /\ Len(list) - 0 = Len(list) /\ \A i \in 1..Len(list) : i + 0 = i
    BY <1>1
  <2>4. Len(L) <= Limit /\ Len(list) >= 0
    BY <1>1, <1>2, <2>1 DEF L
  <2> QED
    BY <2>1, <2>2, <2>3, <2>4 DEF L
<1>3. CASE ~(Len(list) < Limit)
  <2>1. list # <<>> /\ Len(list) = Limit
    <3> DEFINE n == Len(list)
    <3>1. n = Limit
      <4>1. n \in Nat /\ Limit \in Nat /\ n <= Limit
        BY <1>1
      <4> HIDE DEF n
      <4>2. ~(n < Limit)
        BY <1>3 DEF n
      <4> QED
        BY <4>1, <4>2
    <3>2. list = <<>> <=> Len(list) = 0
      BY LengthIs
    <3> QED
      BY <1>1, <3>1, <3>2
  <2> DEFINE t == Tail(list)
  <2>2. t \in Seq(Entry) /\ Len(t) = Len(list) - 1 /\ \A i \in 1..(Len(list) - 1) : t[i] = list[i + 1]
    BY <1>1, <2>1, HeadTailProperties
  <2> HIDE DEF t
  <2>3. /\ Append(t, e) \in Seq(Entry) /\ Len(Append(t, e)) = Len(t) + 1
        /\ Append(t, e)[Len(t) + 1] = e
        /\ \A i \in 1..Len(t) : Append(t, e)[i] = t[i]
    BY <2>2, AppendProperties
  <2>4. Push(list, e) = Append(t, e)
    BY <1>3 DEF Push, t
  <2>5. Len(t) + 1 = Len(list) + 1 - 1 /\ Len(t) = Len(list) - 1 /\ Len(list) + 1 - 1 <= Limit
    BY <1>1, <2>1, <2>2
  <2> QED
    BY <1>1, <2>1, <2>2, <2>3, <2>4, <2>5
<1> QED
  BY <1>2, <1>3

(* What is before place i is what the first writes from there on say. *)
LEMMA BeforeIs ==
  ASSUME NEW list \in Seq(Entry), NEW i \in DOMAIN list
  PROVE  /\ \A p \in DOMAIN Before(list, i) :
              /\ p \in Prop /\ Before(list, i)[p] \in Value
              /\ \E j \in Writes(list) :
                   /\ i <= j /\ list[j].prop = p /\ Before(list, i)[p] = list[j].from
                   /\ \A k \in Writes(list) : i <= k /\ k < j => list[k].prop # p
         /\ \A p : p \notin DOMAIN Before(list, i) =>
              \A k \in Writes(list) : i <= k => list[k].prop # p
<1> DEFINE since(p) == {j \in Writes(list) : j >= i /\ list[j].prop = p}
           first(p) == CHOOSE j \in since(p) : \A k \in since(p) : j <= k
           all      == {list[j].prop : j \in {j \in Writes(list) : j >= i}}
<1>1. Before(list, i) = [p \in all |-> list[first(p)].from]
  BY DEF Before
<1>2. Len(list) \in Nat /\ DOMAIN list = 1..Len(list) /\ Writes(list) \in SUBSET (1..Len(list)) /\ i \in Nat
  BY ListIs
<1>3. \A j \in Writes(list) : j \in Nat /\ list[j] \in Entry /\ list[j].kind = "write"
  BY <1>2, ListIs DEF Writes
<1>4. ASSUME NEW p \in all
      PROVE  first(p) \in since(p) /\ \A k \in since(p) : first(p) <= k
  <2>1. since(p) \in SUBSET Nat /\ since(p) # {}
    BY <1>2, <1>3
  <2>2. \E j \in since(p) : \A k \in since(p) : j <= k
    BY <2>1, LeastOf
  <2> HIDE DEF since
  <2> QED
    BY <2>2
<1>5. ASSUME NEW p \in all
      PROVE  /\ p \in Prop /\ list[first(p)].from \in Value
             /\ \E j \in Writes(list) :
                   /\ i <= j /\ list[j].prop = p /\ list[first(p)].from = list[j].from
                   /\ \A k \in Writes(list) : i <= k /\ k < j => list[k].prop # p
  <2> DEFINE j == first(p)
  <2>1. j \in Writes(list) /\ i <= j /\ list[j].prop = p
    <3>1. j \in since(p)
      BY <1>4
    <3> HIDE DEF first, j
    <3> QED
      BY <1>2, <1>3, <3>1
  <2>2. \A k \in Writes(list) : i <= k /\ k < j => list[k].prop # p
    <3>1. \A k \in since(p) : j <= k
      BY <1>4
    <3> HIDE DEF first, j
    <3> QED
      BY <1>2, <1>3, <2>1, <3>1
  <2>3. list[j].prop \in Prop /\ list[j].from \in Value
    <3> HIDE DEF first, j
    <3> QED
      BY <1>3, <2>1, EntryIs
  <2> QED
    BY <2>1, <2>2, <2>3
<1>6. \A p : p \notin all => \A k \in Writes(list) : i <= k => list[k].prop # p
  BY <1>2, <1>3
<1> HIDE DEF all, first
<1>7. DOMAIN Before(list, i) = all /\ \A p \in all : Before(list, i)[p] = list[first(p)].from
  BY <1>1
<1> QED
  BY <1>5, <1>6, <1>7

-----------------------------------------------------------------------------
(* WHERE THE HISTORY LEADS *)

(* There is only one value to which a list leads. *)
LEMMA LedOnce ==
  ASSUME NEW list \in Seq(Entry), NEW i \in DOMAIN list, NEW p, NEW b, NEW v,
         Led(list, i, p, v, b)
  PROVE  v = IF p \in DOMAIN Before(list, i) THEN Before(list, i)[p] ELSE b[p]
<1>1. CASE p \in DOMAIN Before(list, i)
  <2>1. PICK j \in Writes(list) :
          /\ i <= j /\ list[j].prop = p /\ Before(list, i)[p] = list[j].from
          /\ \A k \in Writes(list) : i <= k /\ k < j => list[k].prop # p
    BY <1>1, BeforeIs
  <2>2. v = list[j].from
    BY <2>1 DEF Led
  <2> QED
    BY <1>1, <2>1, <2>2
<1>2. CASE p \notin DOMAIN Before(list, i)
  <2>1. \A k \in Writes(list) : i <= k => list[k].prop # p
    BY <1>2, BeforeIs
  <2>2. v = b[p]
    BY <2>1 DEF Led
  <2> QED
    BY <1>2, <2>2
<1> QED
  BY <1>1, <1>2

(* What is left of a list cut at place m leads from what m was made on. *)
LEMMA LeadCut ==
  ASSUME NEW list \in Seq(Entry), NEW m \in DOMAIN list, NEW b, Leads(list, b),
         NEW left \in Seq(Entry), Len(left) = m - 1, \A i \in 1..(m - 1) : left[i] = list[i]
  PROVE  Leads(left, list[m].was)
<1>1. /\ Len(list) \in Nat /\ DOMAIN list = 1..Len(list) /\ Writes(list) \in SUBSET (1..Len(list))
      /\ m \in 1..Len(list)
  BY ListIs
<1>2. DOMAIN left = 1..(m - 1)
  BY LenProperties
<1>3. /\ \A j \in Writes(left) : j \in Writes(list) /\ j < m /\ j \in Nat /\ left[j] = list[j]
      /\ \A j \in Writes(list) : j < m => j \in Writes(left) /\ left[j] = list[j]
  BY <1>1, <1>2 DEF Writes
<1> DEFINE c == list[m].was
<1>4. SUFFICES ASSUME NEW i \in 1..(m - 1), NEW p \in Prop
               PROVE  Led(left, i, p, list[i].was[p], c)
  BY <1>2 DEF Leads
<1>5. Led(list, i, p, list[i].was[p], b) /\ Led(list, m, p, c[p], b)
  BY <1>1 DEF Leads
<1> HIDE DEF c
<1> DEFINE v == list[i].was[p]
<1> HIDE DEF v
<1>6. Led(list, i, p, v, b)
  BY <1>5 DEF v
<1>7. ASSUME NEW j \in Writes(left), i <= j, left[j].prop = p,
             \A k \in Writes(left) : i <= k /\ k < j => left[k].prop # p
      PROVE  v = left[j].from
  <2>1. j \in Writes(list) /\ list[j].prop = p /\ left[j] = list[j]
    BY <1>3, <1>7
  <2>2. \A k \in Writes(list) : i <= k /\ k < j => list[k].prop # p
    <3> TAKE k \in Writes(list)
    <3> HAVE i <= k /\ k < j
    <3>1. k < m
      BY <1>1, <1>3
    <3> QED
      BY <1>3, <1>7, <3>1
  <2> QED
    BY <1>6, <1>7, <2>1, <2>2 DEF Led
<1>8. ASSUME \A k \in Writes(left) : i <= k => left[k].prop # p
      PROVE  v = c[p]
  <2>1. \A k \in Writes(list) : i <= k /\ k < m => list[k].prop # p
    BY <1>3, <1>8
  <2> DEFINE later == {j \in Writes(list) : m <= j /\ list[j].prop = p}
  <2>2. CASE later = {}
    <3>1. \A k \in Writes(list) : i <= k => list[k].prop # p
      BY <1>1, <2>1, <2>2
    <3>2. \A k \in Writes(list) : m <= k => list[k].prop # p
      BY <2>2
    <3> QED
      BY <1>5, <1>6, <3>1, <3>2 DEF Led
  <2>3. CASE later # {}
    <3>1. later \in SUBSET Nat
      BY <1>1
    <3>2. PICK j \in later : \A k \in later : j <= k
      BY <2>3, <3>1, LeastOf
    <3>3. \A k \in Writes(list) : m <= k /\ k < j => list[k].prop # p
      BY <1>1, <3>1, <3>2
    <3>4. \A k \in Writes(list) : i <= k /\ k < j => list[k].prop # p
      BY <1>1, <2>1, <3>3
    <3>5. i <= j
      BY <1>1, <3>1, <3>2
    <3>6. v = list[j].from /\ c[p] = list[j].from
      BY <1>5, <1>6, <3>2, <3>3, <3>4, <3>5 DEF Led
    <3> QED
      BY <3>6
  <2> QED
    BY <2>2, <2>3
<1> QED
  BY <1>7, <1>8 DEF Led, v

(* A list grows by what was done last, made on what it led from. *)
LEMMA LeadPush ==
  ASSUME SettingsAssumption, NEW list \in Seq(Entry), Len(list) <= Limit, NEW e \in Entry,
         NEW c, Leads(list, e.was),
         e.kind = "write" => /\ e.from = e.was[e.prop]
                             /\ \A p \in Prop \ {e.prop} : c[p] = e.was[p],
         e.kind = "mark" => c = e.was
  PROVE  Leads(Push(list, e), c)
<1> DEFINE L == Push(list, e)
           n == Len(list)
           b == e.was
<1>1. PICK d \in {0, 1} :
        /\ Len(L) = n + 1 - d /\ n >= d
        /\ L[n + 1 - d] = e
        /\ \A i \in 1..(n - d) : L[i] = list[i + d]
  BY PushIs
<1>2. L \in Seq(Entry)
  BY PushIs
<1>3. n \in Nat /\ DOMAIN list = 1..n
  BY ListIs
<1> DEFINE N == n + 1 - d
<1>4. DOMAIN L = 1..N /\ N \in Nat /\ N >= 1
  BY <1>1, <1>2, <1>3, LenProperties
<1>5. e.kind \in {"write", "mark"}
  BY EntryIs
<1> HIDE DEF L
<1>6. /\ \A j \in Writes(L) : j \in 1..N /\ (j = N => e.kind = "write")
      /\ \A j \in Writes(L) : j # N => j + d \in Writes(list) /\ L[j] = list[j + d]
      /\ \A k \in Writes(list) : k > d => k - d \in Writes(L) /\ k - d < N /\ L[k - d] = list[k]
      /\ e.kind = "write" => N \in Writes(L)
  <2>1. \A j \in Writes(L) : j \in 1..N /\ (j = N => e.kind = "write")
    BY <1>1, <1>4 DEF Writes
  <2>2. ASSUME NEW j \in Writes(L), j # N
        PROVE  j + d \in Writes(list) /\ L[j] = list[j + d]
    <3>1. j \in 1..(n - d) /\ L[j].kind = "write"
      BY <1>1, <1>3, <1>4, <2>2 DEF Writes
    <3>2. L[j] = list[j + d] /\ j + d \in 1..n
      BY <1>1, <1>3, <3>1
    <3> QED
      BY <1>3, <3>1, <3>2 DEF Writes
  <2>3. ASSUME NEW k \in Writes(list), k > d
        PROVE  k - d \in Writes(L) /\ k - d < N /\ L[k - d] = list[k]
    <3>1. k \in 1..n /\ list[k].kind = "write"
      BY <1>3 DEF Writes
    <3>2. k - d \in 1..(n - d) /\ k - d \in 1..N /\ k - d < N /\ (k - d) + d = k
      BY <1>1, <1>3, <2>3, <3>1
    <3>3. L[k - d] = list[k]
      BY <1>1, <3>2
    <3> QED
      BY <1>4, <3>1, <3>2, <3>3 DEF Writes
  <2>4. e.kind = "write" => N \in Writes(L)
    BY <1>1, <1>4 DEF Writes
  <2> QED
    BY <2>1, <2>2, <2>3, <2>4
<1>7. SUFFICES ASSUME NEW i \in 1..N, NEW p \in Prop
               PROVE  Led(L, i, p, L[i].was[p], c)
  BY <1>4 DEF Leads, L
<1>8. CASE i = N
  <2>1. L[i] = e
    BY <1>1, <1>8
  <2>2. ASSUME NEW j \in Writes(L), i <= j, L[j].prop = p
        PROVE  e.was[p] = L[j].from
    <3>1. j = N /\ e.kind = "write"
      BY <1>4, <1>6, <1>8, <2>2
    <3> QED
      BY <1>8, <2>1, <2>2, <3>1
  <2>3. ASSUME \A k \in Writes(L) : i <= k => L[k].prop # p
        PROVE  e.was[p] = c[p]
    <3>1. CASE e.kind = "write"
      <4>1. e.prop # p
        BY <1>4, <1>6, <1>8, <2>1, <2>3, <3>1
      <4> QED
        BY <3>1, <4>1
    <3> QED
      BY <1>5, <3>1
  <2> QED
    BY <2>1, <2>2, <2>3 DEF Led
<1>9. CASE i # N
  <2>1. i \in 1..(n - d) /\ L[i] = list[i + d] /\ i + d \in 1..n
    BY <1>1, <1>3, <1>9
  <2> DEFINE v == list[i + d].was[p]
  <2>2. Led(list, i + d, p, v, b)
    BY <1>3, <2>1 DEF Leads
  <2> HIDE DEF v
  <2>3. ASSUME NEW j \in Writes(L), i <= j, L[j].prop = p,
               \A k \in Writes(L) : i <= k /\ k < j => L[k].prop # p
        PROVE  v = L[j].from
    <3>1. \A k \in Writes(list) : i + d <= k /\ k < j + d => list[k].prop # p
      <4> TAKE k \in Writes(list)
      <4> HAVE i + d <= k /\ k < j + d
      <4>1. k \in Nat /\ j \in Nat
        BY <1>3, <1>6 DEF Writes
      <4>2. k > d /\ i <= k - d /\ k - d < j
        BY <4>1
      <4> QED
        BY <1>6, <2>3, <4>2
    <3>2. CASE j # N
      <4>1. j + d \in Writes(list) /\ L[j] = list[j + d] /\ i + d <= j + d
        BY <1>6, <2>3, <3>2
      <4> QED
        BY <2>2, <2>3, <3>1, <4>1 DEF Led
    <3>3. CASE j = N
      <4>1. L[j] = e /\ e.kind = "write"
        BY <1>1, <1>6, <3>3
      <4>2. \A k \in Writes(list) : i + d <= k => list[k].prop # p
        <5>1. \A k \in Writes(list) : k \in 1..n
          BY <1>3 DEF Writes
        <5>2. \A k \in 1..n : k < j + d
          BY <1>1, <1>3, <3>3
        <5> QED
          BY <3>1, <5>1, <5>2
      <4>3. v = b[p]
        BY <2>2, <4>2 DEF Led
      <4> QED
        BY <2>3, <4>1, <4>3
    <3> QED
      BY <3>2, <3>3
  <2>4. ASSUME \A k \in Writes(L) : i <= k => L[k].prop # p
        PROVE  v = c[p]
    <3>1. \A k \in Writes(list) : i + d <= k => list[k].prop # p
      <4> TAKE k \in Writes(list)
      <4> HAVE i + d <= k
      <4>1. k \in Nat
        BY <1>3 DEF Writes
      <4>2. k > d /\ i <= k - d
        BY <4>1
      <4> QED
        BY <1>6, <2>4, <4>2
    <3>2. v = b[p]
      BY <2>2, <3>1 DEF Led
    <3>3. e.kind = "write" => e.prop # p
      <4> SUFFICES ASSUME e.kind = "write"
                   PROVE  e.prop # p
        OBVIOUS
      <4>1. N \in Writes(L) /\ i <= N /\ L[N] = e
        BY <1>1, <1>4, <1>6
      <4> QED
        BY <2>4, <4>1
    <3> QED
      BY <1>5, <3>2, <3>3
  <2> QED
    BY <2>1, <2>3, <2>4 DEF Led, v
<1> QED
  BY <1>8, <1>9

(* A fold changes nothing but the value written. *)
Folded(list, m, to) == [list EXCEPT ![m].to = to]

LEMMA FoldIs ==
  ASSUME NEW list \in Seq(Entry), NEW m \in Writes(list), NEW to \in Value
  PROVE  LET L == Folded(list, m, to) IN
         /\ L \in Seq(Entry) /\ Len(L) = Len(list) /\ DOMAIN L = DOMAIN list
         /\ Writes(L) = Writes(list)
         /\ \A i \in DOMAIN list : L[i].was = list[i].was
         /\ \A i \in Writes(list) :
              L[i].prop = list[i].prop /\ L[i].from = list[i].from /\ L[i].of = list[i].of
<1> DEFINE L == Folded(list, m, to)
<1>1. /\ Len(list) \in Nat /\ DOMAIN list = 1..Len(list) /\ m \in DOMAIN list
      /\ \A i \in DOMAIN list : list[i] \in Entry
  BY ListIs
<1>2. DOMAIN L = DOMAIN list
  BY DEF Folded
<1>3. \A i \in DOMAIN list :
        /\ L[i] \in Entry /\ L[i].kind = list[i].kind /\ L[i].was = list[i].was
        /\ list[i].kind = "write" =>
             L[i].prop = list[i].prop /\ L[i].from = list[i].from /\ L[i].of = list[i].of
  <2> TAKE i \in DOMAIN list
  <2>1. CASE i # m
    <3>1. L[i] = list[i]
      BY <2>1 DEF Folded
    <3> QED
      BY <1>1, <3>1
  <2>2. CASE i = m
    <3> DEFINE e == list[m]
               f == [e EXCEPT !.to = to]
    <3>1. L[i] = f
      BY <1>1, <2>2 DEF Folded
    <3>2. e \in [kind : {"write"}, prop : Prop, from : Value, to : Value, was : [Prop -> Value], of : Nat]
      <4>1. e \in Entry /\ e.kind = "write"
        BY <1>1 DEF Writes
      <4> QED
        BY <4>1 DEF Entry
    <3> HIDE DEF e
    <3>3. /\ f.kind = e.kind /\ f.was = e.was /\ f.prop = e.prop /\ f.from = e.from /\ f.of = e.of
          /\ f \in [kind : {"write"}, prop : Prop, from : Value, to : Value, was : [Prop -> Value], of : Nat]
      BY <3>2
    <3> HIDE DEF f
    <3> QED
      BY <2>2, <3>1, <3>3 DEF e, Entry
  <2> QED
    BY <2>1, <2>2
<1>4. L \in Seq(Entry) /\ Len(L) = Len(list)
  <2> DEFINE n == Len(list)
  <2>1. n \in Nat /\ DOMAIN L = 1..n
    BY <1>1, <1>2
  <2> HIDE DEF n
  <2>2. \A i \in 1..n : L[i] \in Entry
    BY <1>2, <1>3, <2>1
  <2>3. L = [i \in 1..n |-> L[i]]
    BY <1>2, <2>1 DEF Folded
  <2>4. L \in Seq(Entry)
    BY <2>1, <2>2, <2>3, IsASeq
  <2>5. Len(L) = n
    BY <2>1, <2>4, LenProperties
  <2> QED
    BY <2>4, <2>5 DEF n
<1>5. Writes(L) = Writes(list)
  BY <1>2, <1>3 DEF Writes
<1>6. \A i \in Writes(list) :
        L[i].prop = list[i].prop /\ L[i].from = list[i].from /\ L[i].of = list[i].of
  BY <1>3 DEF Writes
<1> QED
  BY <1>2, <1>3, <1>4, <1>5, <1>6

(* The last entry takes a later value of the same setting. *)
SameBut(prop, b, c) == \A p \in Prop \ {prop} : c[p] = b[p]

LEMMA LeadFold ==
  ASSUME NEW list \in Seq(Entry), NEW b, NEW c, NEW to \in Value, Leads(list, b),
         NEW m \in Writes(list), m = Len(list), SameBut(list[m].prop, b, c)
  PROVE  Leads(Folded(list, m, to), c)
<1> DEFINE L == Folded(list, m, to)
<1>1. Len(list) \in Nat /\ DOMAIN list = 1..Len(list) /\ m \in 1..Len(list)
  BY ListIs
<1>2. /\ DOMAIN L = DOMAIN list /\ Writes(L) = Writes(list)
      /\ \A i \in DOMAIN list : L[i].was = list[i].was
      /\ \A i \in Writes(list) : L[i].prop = list[i].prop /\ L[i].from = list[i].from
  BY FoldIs
<1>3. SUFFICES ASSUME NEW i \in DOMAIN list, NEW p \in Prop
               PROVE  Led(L, i, p, list[i].was[p], c)
  BY <1>2 DEF Leads
<1> DEFINE v == list[i].was[p]
<1>4. Led(list, i, p, v, b)
  BY DEF Leads
<1> HIDE DEF v
<1>5. ASSUME NEW j \in Writes(L), i <= j, L[j].prop = p,
             \A k \in Writes(L) : i <= k /\ k < j => L[k].prop # p
      PROVE  v = L[j].from
  BY <1>2, <1>4, <1>5 DEF Led
<1>6. ASSUME \A k \in Writes(L) : i <= k => L[k].prop # p
      PROVE  v = c[p]
  <2>1. \A k \in Writes(list) : i <= k => list[k].prop # p
    BY <1>2, <1>6
  <2>2. v = b[p]
    BY <1>4, <2>1 DEF Led
  <2>3. p # list[m].prop
    BY <1>1, <2>1
  <2> QED
    BY <2>2, <2>3 DEF SameBut
<1> QED
  BY <1>5, <1>6 DEF Led, v

-----------------------------------------------------------------------------
(* THE QUEUE *)

LEMMA JobIs ==
  ASSUME NEW j \in Job
  PROVE  /\ j.kind \in {"read", "write"} /\ j.prop \in Prop /\ j.stage \in Stage /\ j.of \in Nat
         /\ j.kind = "read" => /\ j \in ReadJob /\ j.who \in {"first", "poll", "reread"}
                               /\ j.rest \in Seq(Prop) /\ j.value \in Value \cup {None}
         /\ j.kind = "write" => /\ j \in WriteJob /\ j.who \in {"set", "recall", "undo", "revert"}
                                /\ j.rest \in Seq(Todo) /\ j.value \in Value
                                /\ j.before \in Value \cup {None}
                                /\ j.was \in [Prop -> Value \cup {None}]
  BY DEF Job, ReadJob, WriteJob

(* The sets of jobs the actions look at. *)
LEMMA JobsAre ==
  ASSUME SettingsAssumption, QueueInv(pending, running, late, phase, conn)
  PROVE  /\ \A j \in Jobs : j \in Job
         /\ running # None => running \in Jobs
         /\ late # None => late \in Jobs
         /\ \A i \in DOMAIN pending : pending[i] \in Jobs
         /\ \A j \in Jobs : \/ running # None /\ j = running
                            \/ late # None /\ j = late
                            \/ \E i \in DOMAIN pending : j = pending[i]
<1>1. None \notin Job /\ \A i \in DOMAIN pending : pending[i] \in Job
  BY ElementOfSeq, LengthIs DEF SettingsAssumption, QueueInv
<1>2. \A j \in Range(pending) : \E i \in DOMAIN pending : j = pending[i]
  BY DEF Range
<1>3. \A i \in DOMAIN pending : pending[i] \in Range(pending)
  BY DEF Range
<1>4. running \in Job \cup {None} /\ late \in Job \cup {None}
  BY DEF QueueInv
<1>5. \A j : j \in Jobs <=> j # None /\ (j = running \/ j = late \/ j \in Range(pending))
  BY DEF Jobs
<1> QED
  BY <1>1, <1>2, <1>3, <1>4, <1>5

LEMMA ForemostIn ==
  ASSUME NEW S, pending \in Seq(S), pending # <<>>
  PROVE  Foremost \in DOMAIN pending
<1> DEFINE urgent == {i \in DOMAIN pending : ~Polled(pending[i])}
           ready  == IF urgent # {} THEN urgent ELSE DOMAIN pending
<1>1. Len(pending) \in Nat /\ Len(pending) # 0 /\ DOMAIN pending = 1..Len(pending)
  BY LengthIs
<1>2. ready \in SUBSET Nat /\ ready # {} /\ ready \in SUBSET (DOMAIN pending)
  BY <1>1
<1>3. \E i \in ready : \A k \in ready : i <= k
  BY <1>2, LeastOf
<1>4. Foremost = CHOOSE i \in ready : \A k \in ready : i <= k
  BY DEF Foremost
<1> HIDE DEF ready
<1>5. Foremost \in ready
  BY <1>3, <1>4
<1> QED
  BY <1>2, <1>5

(* The jobs the actions make. *)
LEMMA ReadIs ==
  ASSUME NEW who \in {"first", "poll", "reread"}, NEW props \in Seq(Prop), props # <<>>, conn \in Nat
  PROVE  /\ Read(who, props) \in Job /\ Read(who, props).kind = "read" /\ Read(who, props).who = who
         /\ Read(who, props).stage = "sent" /\ Read(who, props).of = conn
         /\ Read(who, props).rest = Tail(props)
<1>1. Head(props) \in Prop /\ Tail(props) \in Seq(Prop)
  BY HeadTailProperties
<1> QED
  BY <1>1 DEF Read, Job, ReadJob, Stage

LEMMA WriteIs ==
  ASSUME NEW p \in Prop, NEW v \in Value, NEW before \in Value \cup {None},
         NEW rest \in Seq(Todo), conn \in Nat, NEW who
  PROVE  /\ who \in {"set", "recall", "undo", "revert"} => Write(who, p, v, before, rest) \in Job
         /\ Write(who, p, v, before, rest).kind = "write" /\ Write(who, p, v, before, rest).who = who
         /\ Write(who, p, v, before, rest).stage = "sent" /\ Write(who, p, v, before, rest).of = conn
         /\ Write(who, p, v, before, rest).prop = p /\ Write(who, p, v, before, rest).value = v
         /\ Write(who, p, v, before, rest).rest = rest
<1>1. Nothing \in [Prop -> Value \cup {None}]
  BY DEF Nothing
<1> QED
  BY <1>1 DEF Write, Job, WriteJob, Stage

LEMMA NewJobs ==
  ASSUME NEW S, NEW s \in Seq(S), NEW t \in Seq(S)
  PROVE  /\ s \o t \in Seq(S) /\ Len(s \o t) = Len(s) + Len(t) /\ DOMAIN (s \o t) = 1..(Len(s) + Len(t))
         /\ \A i \in DOMAIN (s \o t) :
              \/ i \in DOMAIN s /\ (s \o t)[i] = s[i]
              \/ i - Len(s) \in DOMAIN t /\ (s \o t)[i] = t[i - Len(s)]
         /\ \A i \in DOMAIN s : i \in DOMAIN (s \o t) /\ (s \o t)[i] = s[i]
         /\ \A i \in DOMAIN t : i + Len(s) \in DOMAIN (s \o t) /\ (s \o t)[i + Len(s)] = t[i]
<1>1. Len(s) \in Nat /\ Len(t) \in Nat /\ DOMAIN s = 1..Len(s) /\ DOMAIN t = 1..Len(t)
  BY LengthIs
<1>2. /\ s \o t \in Seq(S) /\ Len(s \o t) = Len(s) + Len(t)
      /\ \A i \in 1..(Len(s) + Len(t)) : (s \o t)[i] = IF i <= Len(s) THEN s[i] ELSE t[i - Len(s)]
  BY ConcatProperties
<1> DEFINE m == Len(s)
           n == Len(t)
           u == s \o t
<1>3. DOMAIN u = 1..(m + n)
  <2>1. DOMAIN u = 1..Len(u)
    BY <1>2, LenProperties
  <2> QED
    BY <1>2, <2>1
<1> HIDE DEF m, n, u
<1>4. /\ \A i \in 1..(m + n) : \/ i \in 1..m /\ u[i] = s[i]
                               \/ i - m \in 1..n /\ u[i] = t[i - m]
      /\ \A i \in 1..m : i \in 1..(m + n) /\ u[i] = s[i]
      /\ \A i \in 1..n : i + m \in 1..(m + n) /\ u[i + m] = t[i]
  <2>1. m \in Nat /\ n \in Nat /\ \A i \in 1..(m + n) : u[i] = IF i <= m THEN s[i] ELSE t[i - m]
    BY <1>1, <1>2 DEF m, n, u
  <2>2. \A i \in 1..n : i + m \in 1..(m + n) /\ ~(i + m <= m) /\ (i + m) - m = i
    BY <2>1
  <2>3. \A i \in 1..n : u[i + m] = t[i]
    BY <2>1, <2>2
  <2> QED
    BY <2>1, <2>2, <2>3
<1> QED
  BY <1>1, <1>2, <1>3, <1>4 DEF m, n, u

LEMMA AddJobs ==
  ASSUME NEW pend, NEW run, NEW lat, NEW ph, NEW cn, QueueInv(pend, run, lat, ph, cn), ph # "down",
         NEW new \in Seq(Job),
         \A i \in DOMAIN new : new[i].stage = "sent" /\ Fine(new[i], cn) /\ ~IsFirst(new[i])
  PROVE  QueueInv(pend \o new, run, lat, ph, cn)
<1> DEFINE all == pend \o new
<1>0. pend \in Seq(Job)
  BY DEF QueueInv
<1>1. /\ all \in Seq(Job)
      /\ \A i \in DOMAIN all : \/ i \in DOMAIN pend /\ all[i] = pend[i]
                               \/ i - Len(pend) \in DOMAIN new /\ all[i] = new[i - Len(pend)]
  BY <1>0, NewJobs
<1> HIDE DEF all
<1>2. \A i \in DOMAIN all : all[i].stage = "sent" /\ Fine(all[i], cn)
  BY <1>1 DEF QueueInv
<1>3. \A i \in DOMAIN all : IsFirst(all[i]) => i \in DOMAIN pend /\ all[i] = pend[i]
  BY <1>1
<1>4. \A i \in DOMAIN all : IsFirst(all[i]) =>
        /\ ph = "first" /\ all[i].of = cn
        /\ run # None => ~IsFirst(run)
        /\ \A k \in DOMAIN all : IsFirst(all[k]) => k = i
  BY <1>3 DEF QueueInv
<1> QED
  BY <1>1, <1>2, <1>4 DEF QueueInv, all

LEMMA AddJob ==
  ASSUME NEW pend, NEW run, NEW lat, NEW ph, NEW cn, QueueInv(pend, run, lat, ph, cn), ph # "down",
         NEW j \in Job, j.stage = "sent", Fine(j, cn), ~IsFirst(j)
  PROVE  QueueInv(Append(pend, j), run, lat, ph, cn)
<1>0. pend \in Seq(Job)
  BY DEF QueueInv
<1> DEFINE new == <<j>>
<1>1. new \in Seq(Job) /\ DOMAIN new = {1} /\ new[1] = j
  OBVIOUS
<1> HIDE DEF new
<1>2. QueueInv(pend \o new, run, lat, ph, cn)
  BY <1>1, AddJobs
<1>3. Append(pend, j) = pend \o new
  BY <1>0, AppendIsConcat DEF new
<1> QED
  BY <1>2, <1>3

LEMMA AddFirst ==
  ASSUME NEW pend, NEW run, NEW lat, NEW cn, QueueInv(pend, run, lat, "first", cn),
         NEW j \in Job, j.stage = "sent", Fine(j, cn), IsFirst(j), j.of = cn,
         run # None => ~IsFirst(run), \A i \in DOMAIN pend : ~IsFirst(pend[i])
  PROVE  QueueInv(Append(pend, j), run, lat, "first", cn)
<1>0. pend \in Seq(Job) /\ Len(pend) \in Nat /\ DOMAIN pend = 1..Len(pend)
  BY LengthIs DEF QueueInv
<1> DEFINE n   == Len(pend)
           all == Append(pend, j)
<1>1. /\ all \in Seq(Job) /\ DOMAIN all = 1..(n + 1) /\ all[n + 1] = j
      /\ \A i \in 1..n : all[i] = pend[i]
  <2>1. all \in Seq(Job) /\ Len(all) = n + 1 /\ all[n + 1] = j /\ \A i \in 1..n : all[i] = pend[i]
    BY <1>0, AppendProperties
  <2> HIDE DEF all, n
  <2> QED
    BY <2>1, LenProperties
<1>2. n \in Nat /\ DOMAIN pend = 1..n
  BY <1>0
<1> HIDE DEF n, all
<1>3. \A i \in DOMAIN all : i = n + 1 \/ (i \in DOMAIN pend /\ all[i] = pend[i])
  BY <1>1, <1>2
<1>4. \A i \in DOMAIN all : all[i].stage = "sent" /\ Fine(all[i], cn)
  BY <1>1, <1>3 DEF QueueInv
<1>5. \A i \in DOMAIN all : IsFirst(all[i]) => i = n + 1
  BY <1>1, <1>3
<1>6. \A i \in DOMAIN all : IsFirst(all[i]) =>
        /\ "first" = "first" /\ all[i].of = cn
        /\ run # None => ~IsFirst(run)
        /\ \A k \in DOMAIN all : IsFirst(all[k]) => k = i
  BY <1>1, <1>5
<1> QED
  BY <1>1, <1>4, <1>6 DEF QueueInv, all

(* A waiting job starts, and meets the camera. *)
LEMMA StartJob ==
  ASSUME NEW pend, NEW lat, NEW ph, NEW cn, QueueInv(pend, None, lat, ph, cn),
         NEW i \in DOMAIN pend, NEW j \in Job, j.stage # "sent", Fine(j, cn),
         j.kind = pend[i].kind, j.who = pend[i].who, j.of = pend[i].of
  PROVE  QueueInv(RemoveAt(pend, i), j, lat, ph, cn)
<1>0. pend \in Seq(Job) /\ Len(pend) \in Nat /\ DOMAIN pend = 1..Len(pend)
  BY LengthIs DEF QueueInv
<1> DEFINE n    == Len(pend)
           left == RemoveAt(pend, i)
<1>1. /\ left \in Seq(Job) /\ DOMAIN left = 1..(n - 1)
      /\ \A k \in 1..(n - 1) : left[k] = IF k < i THEN pend[k] ELSE pend[k + 1]
  BY <1>0, RemoveAtIs
<1>2. n \in Nat /\ DOMAIN pend = 1..n
  BY <1>0
<1> HIDE DEF n, left
<1> DEFINE at(k) == IF k < i THEN k ELSE k + 1
<1>3. \A k \in DOMAIN left : at(k) \in DOMAIN pend /\ at(k) # i /\ left[k] = pend[at(k)]
  BY <1>1, <1>2
<1>4. \A k, l \in DOMAIN left : at(k) = at(l) => k = l
  BY <1>1, <1>2
<1>5. IsFirst(j) <=> IsFirst(pend[i])
  BY DEF IsFirst
<1> HIDE DEF at
<1>6. \A k \in DOMAIN left : left[k].stage = "sent" /\ Fine(left[k], cn)
  BY <1>3 DEF QueueInv
<1>7. \A k \in DOMAIN left : IsFirst(left[k]) =>
        /\ ph = "first" /\ left[k].of = cn
        /\ ~IsFirst(j)
        /\ \A l \in DOMAIN left : IsFirst(left[l]) => l = k
  <2> TAKE k \in DOMAIN left
  <2> HAVE IsFirst(left[k])
  <2>1. at(k) \in DOMAIN pend /\ at(k) # i /\ left[k] = pend[at(k)]
    BY <1>3
  <2>2. /\ ph = "first" /\ pend[at(k)].of = cn
        /\ \A l \in DOMAIN pend : IsFirst(pend[l]) => l = at(k)
    BY <2>1 DEF QueueInv
  <2>3. ~IsFirst(j)
    BY <1>5, <2>1, <2>2
  <2>4. \A l \in DOMAIN left : IsFirst(left[l]) => l = k
    BY <1>3, <1>4, <2>2
  <2> QED
    BY <2>1, <2>2, <2>3, <2>4
<1>8. IsFirst(j) => ph = "first" /\ j.of = cn
  BY <1>5 DEF QueueInv
<1>9. ph # "down"
  <2>1. pend # <<>>
    BY <1>0, LengthIs
  <2> QED
    BY <2>1 DEF QueueInv
<1> QED
  BY <1>1, <1>6, <1>7, <1>8, <1>9 DEF QueueInv, left

LEMMA EndJob ==
  ASSUME NEW pend, NEW run, NEW lat, NEW ph, NEW cn, QueueInv(pend, run, lat, ph, cn)
  PROVE  QueueInv(pend, None, lat, ph, cn) /\ QueueInv(pend, run, None, ph, cn)
  BY DEF QueueInv

(* The queue is closed; what it leaves on the wire is no first read. *)
LEMMA CloseQueue ==
  ASSUME NEW lat \in Job \cup {None}, NEW cn, lat # None => Fine(lat, cn) /\ ~IsFirst(lat)
  PROVE  QueueInv(<<>>, None, lat, "down", cn)
<1>1. <<>> \in Seq(Job) /\ DOMAIN <<>> = {}
  OBVIOUS
<1> QED
  BY <1>1 DEF QueueInv

-----------------------------------------------------------------------------
(* WHAT THE ACTIONS DO TO THE HISTORY *)

(* The writes there are to record. *)
Made == [kind : {"write"}, prop : Prop, from : Value \cup {None}, to : Value,
         was : [Prop -> Value], of : Nat]

LEMMA RecordIs ==
  ASSUME SettingsAssumption, NEW list \in Seq(Entry), Len(list) <= Limit, NEW soon, NEW w \in Made
  PROVE  /\ Record(list, w, soon) \in Seq(Entry) /\ Len(Record(list, w, soon)) <= Limit
         /\ \A i \in Writes(Record(list, w, soon)) :
              \/ Record(list, w, soon)[i].of = w.of
              \/ \E k \in Writes(list) : Record(list, w, soon)[i].of = list[k].of
<1> DEFINE v == w.to
<1>1. Len(list) \in Nat /\ DOMAIN list = 1..Len(list) /\ Writes(list) \in SUBSET (1..Len(list))
  BY ListIs
<1>2. v \in Value
  BY DEF Made
<1>3. CASE Folds(list, w, soon)
  <2> DEFINE m == Newest(Foldable(list, w.prop))
             L == Folded(list, m, v)
  <2>1. m \in Writes(list)
    <3>1. Foldable(list, w.prop) \in SUBSET (1..Len(list)) /\ Foldable(list, w.prop) # {}
      BY <1>1, <1>3 DEF Folds, Foldable
    <3>2. m \in Foldable(list, w.prop)
      BY <1>1, <3>1, NewestIs
    <3> QED
      BY <3>2 DEF Foldable
  <2>2. Record(list, w, soon) = L
    BY <1>3 DEF Record, Folded
  <2> HIDE DEF m, v, L
  <2>3. /\ L \in Seq(Entry) /\ Len(L) = Len(list) /\ Writes(L) = Writes(list)
        /\ \A i \in Writes(list) : L[i].of = list[i].of
    BY <1>2, <2>1, FoldIs DEF L
  <2> QED
    BY <2>2, <2>3
<1>4. CASE ~Folds(list, w, soon) /\ (w.from = None \/ w.from = w.to)
  <2>1. Record(list, w, soon) = list
    BY <1>4 DEF Record
  <2> QED
    BY <2>1
<1>5. CASE ~Folds(list, w, soon) /\ ~(w.from = None \/ w.from = w.to)
  <2> DEFINE L == Push(list, w)
  <2>1. Record(list, w, soon) = L
    BY <1>5 DEF Record
  <2>2. w.from \in Value
    BY <1>5 DEF Made
  <2>3. w \in Entry
    <3>1. w \in [kind : {"write"}, prop : Prop, from : Value, to : Value, was : [Prop -> Value], of : Nat]
      BY <2>2 DEF Made
    <3> QED
      BY <3>1 DEF Entry
  <2>4. L \in Seq(Entry) /\ Len(L) <= Limit
    BY <2>3, PushIs
  <2>5. PICK d \in {0, 1} :
          /\ Len(L) = Len(list) + 1 - d /\ Len(list) >= d /\ L[Len(list) + 1 - d] = w
          /\ \A i \in 1..(Len(list) - d) : L[i] = list[i + d]
    BY <2>3, PushIs
  <2> HIDE DEF L
  <2>6. ASSUME NEW i \in Writes(L)
        PROVE  L[i].of = w.of \/ \E k \in Writes(list) : L[i].of = list[k].of
    <3>1. i \in 1..Len(L) /\ L[i].kind = "write"
      BY <2>4, LenProperties DEF Writes
    <3>2. CASE i = Len(list) + 1 - d
      BY <2>5, <3>2
    <3>3. CASE i # Len(list) + 1 - d
      <4>1. i \in 1..(Len(list) - d) /\ i + d \in 1..Len(list)
        BY <1>1, <2>5, <3>1, <3>3
      <4>2. L[i] = list[i + d] /\ i + d \in Writes(list)
        BY <1>1, <2>5, <3>1, <4>1 DEF Writes
      <4> QED
        BY <4>2
    <3> QED
      BY <3>2, <3>3
  <2> QED
    BY <2>1, <2>4, <2>6
<1> QED
  BY <1>3, <1>4, <1>5

LEMMA PopLastIs ==
  ASSUME NEW list \in Seq(Entry), Writes(list) # {}
  PROVE  LET n == Newest(Writes(list)) IN
         /\ n \in Writes(list) /\ n \in DOMAIN list /\ \A k \in Writes(list) : k <= n
         /\ PopLast(list).entry = list[n] /\ list[n] \in Entry /\ list[n].kind = "write"
         /\ PopLast(list).list \in Seq(Entry) /\ Len(PopLast(list).list) = Len(list) - 1
         /\ \A k \in 1..(Len(list) - 1) :
              PopLast(list).list[k] = IF k < n THEN list[k] ELSE list[k + 1]
<1> DEFINE n == Newest(Writes(list))
<1>1. Len(list) \in Nat /\ DOMAIN list = 1..Len(list) /\ Writes(list) \in SUBSET (1..Len(list))
  BY ListIs
<1>2. n \in Writes(list) /\ \A k \in Writes(list) : k <= n
  BY <1>1, NewestIs
<1> HIDE DEF n
<1>3. n \in DOMAIN list /\ list[n] \in Entry /\ list[n].kind = "write"
  BY <1>1, <1>2, ListIs DEF Writes
<1>4. PopLast(list).entry = list[n] /\ PopLast(list).list = RemoveAt(list, n)
  BY DEF PopLast, n
<1>5. /\ RemoveAt(list, n) \in Seq(Entry) /\ Len(RemoveAt(list, n)) = Len(list) - 1
      /\ \A k \in 1..(Len(list) - 1) : RemoveAt(list, n)[k] = IF k < n THEN list[k] ELSE list[k + 1]
  BY <1>3, RemoveAtIs
<1> QED
  BY <1>2, <1>3, <1>4, <1>5 DEF n

LEMMA PopToMarkIs ==
  ASSUME NEW list \in Seq(Entry), Marks(list) # {}
  PROVE  LET m == Newest(Marks(list)) IN
         /\ m \in DOMAIN list /\ m \in Nat /\ PopToMark(list).values = Before(list, m)
         /\ list[m] \in Entry
         /\ PopToMark(list).list \in Seq(Entry) /\ Len(PopToMark(list).list) = m - 1
         /\ \A k \in 1..(m - 1) : k \in DOMAIN list /\ PopToMark(list).list[k] = list[k]
<1> DEFINE m == Newest(Marks(list))
<1>1. Len(list) \in Nat /\ DOMAIN list = 1..Len(list) /\ Marks(list) \in SUBSET (1..Len(list))
  BY ListIs
<1>2. m \in Marks(list)
  BY <1>1, NewestIs
<1> HIDE DEF m
<1>3. m \in 1..Len(list) /\ list[m] \in Entry
  BY <1>1, <1>2, ListIs
<1>4. PopToMark(list).values = Before(list, m) /\ PopToMark(list).list = SubSeq(list, 1, m - 1)
  BY DEF PopToMark, m
<1> DEFINE t == SubSeq(list, 1, m - 1)
<1>5. t \in Seq(Entry) /\ Len(t) = m - 1 /\ \A k \in 1..(m - 1) : t[k] = list[k]
  BY <1>1, <1>3, SubSeqProperties
<1>6. \A k \in 1..(m - 1) : k \in DOMAIN list
  BY <1>1, <1>3
<1> HIDE DEF t
<1> QED
  BY <1>1, <1>3, <1>4, <1>5, <1>6 DEF m, t

(* Writes taken from a list are writes of the list. *)
LEMMA LeftIs ==
  ASSUME NEW list \in Seq(Entry), NEW left \in Seq(Entry),
         \A k \in DOMAIN left : \E l \in DOMAIN list : left[k] = list[l]
  PROVE  \A k \in Writes(left) : \E l \in Writes(list) : left[k].of = list[l].of
<1> TAKE k \in Writes(left)
<1>1. k \in DOMAIN left /\ left[k].kind = "write"
  BY DEF Writes
<1>2. PICK l \in DOMAIN list : left[k] = list[l]
  BY <1>1
<1> QED
  BY <1>1, <1>2 DEF Writes

(* What an undo or revert asks next of the camera. *)
LEMMA AskableIs ==
  ASSUME NEW todo \in Seq(Todo)
  PROVE  Askable(todo) \in Seq(Todo)
<1> DEFINE at == {i \in DOMAIN todo : todo[i].prop \notin unavailable}
<1>1. Sift(todo, at) \in Seq(Todo)
  BY SiftIs
<1>2. <<>> \in Seq(Todo)
  OBVIOUS
<1> HIDE DEF at
<1>3. Askable(todo) = IF Connected THEN Sift(todo, at) ELSE <<>>
  BY DEF Askable, at
<1> QED
  BY <1>1, <1>2, <1>3

LEMMA UndoesIs ==
  ASSUME NEW todo \in Seq(Todo), NEW who \in {"undo", "revert"}, conn \in Nat,
         shown \in [Prop -> Value \cup {None}]
  PROVE  LET left == Askable(todo) IN
         /\ left = <<>> => Undoes(who, todo) = <<>>
         /\ left # <<>> =>
              /\ Connected
              /\ Undoes(who, todo) # <<>> /\ DOMAIN Undoes(who, todo) = {1}
              /\ LET j == Undoes(who, todo)[1] IN
                 /\ j \in Job /\ j.kind = "write" /\ j.who = who /\ j.stage = "sent" /\ j.of = conn
                 /\ j.prop = Head(left).prop /\ j.value = Head(left).value /\ j.rest = Tail(left)
         /\ Undoes(who, todo) \in Seq(Job)
<1> DEFINE left == Askable(todo)
           h == Head(left)
           p == h.prop
           v == h.value
           b == shown[p]
           t == Tail(left)
           j == Write(who, p, v, b, t)
<1>1. left \in Seq(Todo)
  BY AskableIs
<1>2. Undoes(who, todo) = IF left = <<>> THEN <<>> ELSE <<j>>
  BY DEF Undoes
<1>3. CASE left = <<>>
  <2>1. <<>> \in Seq(Job)
    OBVIOUS
  <2> QED
    BY <1>2, <1>3, <2>1
<1>4. CASE left # <<>>
  <2>1. Connected
    BY <1>4 DEF Askable
  <2> HIDE DEF left
  <2>2. h \in Todo /\ t \in Seq(Todo)
    BY <1>1, <1>4, HeadTailProperties
  <2>3. p \in Prop /\ v \in Value
    BY <2>2 DEF Todo
  <2>4. b \in Value \cup {None}
    BY <2>3
  <2> HIDE DEF p, v, b, t
  <2>5. who \in {"set", "recall", "undo", "revert"}
    OBVIOUS
  <2>6. /\ j \in Job /\ j.kind = "write" /\ j.who = who /\ j.stage = "sent" /\ j.of = conn
        /\ j.prop = p /\ j.value = v /\ j.rest = t
    <3>1. \A w : /\ w \in {"set", "recall", "undo", "revert"} => Write(w, p, v, b, t) \in Job
                 /\ Write(w, p, v, b, t).kind = "write" /\ Write(w, p, v, b, t).who = w
                 /\ Write(w, p, v, b, t).stage = "sent" /\ Write(w, p, v, b, t).of = conn
                 /\ Write(w, p, v, b, t).prop = p /\ Write(w, p, v, b, t).value = v
                 /\ Write(w, p, v, b, t).rest = t
      BY <2>2, <2>3, <2>4, WriteIs
    <3> QED
      BY <2>5, <3>1
  <2> HIDE DEF j
  <2>7. <<j>> \in Seq(Job) /\ <<j>> # <<>> /\ DOMAIN <<j>> = {1} /\ <<j>>[1] = j
    BY <2>6
  <2> QED
    BY <1>2, <1>4, <2>1, <2>6, <2>7 DEF left, p, v, b, t
<1> QED
  BY <1>3, <1>4

(* A slip is kept, and one that takes a promise is not lost among others. *)
LEMMA SlipIs ==
  ASSUME NEW which, Slip(which)
  PROVE  /\ slips \subseteq slips'
         /\ which \cap {"late", "lateRead"} \subseteq slips'
         /\ slips' \subseteq {"lateRead"} => slips \subseteq {"lateRead"} /\ which \subseteq {"lateRead"}
<1> DEFINE grave(S) == S \ {"late", "lateRead"}
           kept     == which \ (IF grave(slips) # {} THEN grave(which) ELSE {})
<1>1. slips' = slips \cup kept
  BY DEF Slip
<1>2. which \cap {"late", "lateRead"} \subseteq kept
  OBVIOUS
<1>3. slips \subseteq {"lateRead"} => grave(slips) = {}
  OBVIOUS
<1>4. slips \subseteq {"lateRead"} => kept = which
  BY <1>3
<1> HIDE DEF kept
<1> QED
  BY <1>1, <1>2, <1>4

-----------------------------------------------------------------------------
(* JOBS AND OUTAGES *)

(* What a job is once it has met the camera, and what the camera is. *)
LEMMA OutcomeIs ==
  ASSUME actual \in [Prop -> Value], NEW j \in Job, j.stage = "sent", NEW cn, Fine(j, cn),
         NEW o \in Outcomes(j)
  PROVE  /\ o.job \in Job /\ o.job.stage # "sent" /\ Fine(o.job, cn)
         /\ o.job.kind = j.kind /\ o.job.who = j.who /\ o.job.of = j.of
         /\ o.job.prop = j.prop /\ o.job.rest = j.rest
         /\ o.fault \in {0, 1} /\ o.actual \in [Prop -> Value]
         /\ j.kind = "read" => o.actual = actual
         /\ j.kind = "write" =>
              /\ o.job.value = j.value
              /\ o.job.stage = "done" => o.actual = [actual EXCEPT ![j.prop] = j.value] /\ o.job.was = actual
              /\ o.job.stage # "done" => o.actual = actual \/ o.slip = {"unheard"}
<1> DEFINE done    == IF j.kind = "read" THEN actual ELSE [actual EXCEPT ![j.prop] = j.value]
           told(s) == IF j.kind = "read" THEN [j EXCEPT !.value = actual[j.prop], !.stage = s]
                                         ELSE [j EXCEPT !.was = actual, !.stage = s]
<1>1. PICK s \in {"done", "refused", "lost"} :
        /\ o.job = told(s) /\ o.fault \in {0, 1} /\ o.actual \in {actual, done}
        /\ s = "done" => o.actual = done
        /\ s # "done" => o.actual = actual \/ o.slip = {"unheard"}
  <2>1. CASE o = [job |-> told("done"), actual |-> done, fault |-> 0, slip |-> {}]
    <3> HIDE DEF told, done
    <3> QED
      BY <2>1
  <2>2. CASE o = [job |-> told("refused"), actual |-> actual, fault |-> 1, slip |-> {}]
    <3> HIDE DEF told, done
    <3> QED
      BY <2>2
  <2>3. CASE o = [job |-> told("lost"), actual |-> actual, fault |-> 1, slip |-> {}]
    <3> HIDE DEF told, done
    <3> QED
      BY <2>3
  <2>4. CASE o = [job |-> told("lost"), actual |-> done, fault |-> 1, slip |-> When(done # actual, "unheard")]
    <3> HIDE DEF told, done
    <3> QED
      BY <2>4 DEF When
  <2>5. \/ o = [job |-> told("done"), actual |-> done, fault |-> 0, slip |-> {}]
        \/ o = [job |-> told("refused"), actual |-> actual, fault |-> 1, slip |-> {}]
        \/ o = [job |-> told("lost"), actual |-> actual, fault |-> 1, slip |-> {}]
        \/ o = [job |-> told("lost"), actual |-> done, fault |-> 1, slip |-> When(done # actual, "unheard")]
    BY DEF Outcomes
  <2> QED
    BY <2>1, <2>2, <2>3, <2>4, <2>5
<1>2. j.kind \in {"read", "write"} /\ j.prop \in Prop /\ actual[j.prop] \in Value
  BY JobIs
<1>3. CASE j.kind = "read"
  <2> DEFINE t == [j EXCEPT !.value = actual[j.prop], !.stage = s]
             v == actual[j.prop]
  <2>1. j \in ReadJob /\ v \in Value \cup {None} /\ s \in Stage
    BY <1>2, <1>3, JobIs DEF Stage
  <2>2. told(s) = t /\ done = actual
    BY <1>3
  <2>3. /\ t \in ReadJob /\ t.stage = s /\ t.kind = j.kind /\ t.who = j.who /\ t.of = j.of
        /\ t.prop = j.prop /\ t.rest = j.rest
    <3> HIDE DEF v
    <3>1. [j EXCEPT !.value = v, !.stage = s] = t
      BY DEF v
    <3> HIDE DEF t
    <3> QED
      BY <2>1, <3>1 DEF ReadJob
  <2> HIDE DEF t, told, done
  <2>4. Fine(t, cn)
    BY <1>3, <2>3 DEF Fine, IsFirst, IsMade
  <2> QED
    BY <1>1, <1>3, <2>2, <2>3, <2>4 DEF Job
<1>4. CASE j.kind = "write"
  <2> DEFINE t == [j EXCEPT !.was = actual, !.stage = s]
  <2>1. j \in WriteJob /\ s \in Stage /\ actual \in [Prop -> Value \cup {None}] /\ j.value \in Value
    BY <1>2, <1>4, JobIs DEF Stage
  <2>2. told(s) = t /\ done = [actual EXCEPT ![j.prop] = j.value]
    BY <1>4
  <2>3. /\ t \in WriteJob /\ t.stage = s /\ t.kind = j.kind /\ t.who = j.who /\ t.of = j.of
        /\ t.prop = j.prop /\ t.rest = j.rest /\ t.value = j.value /\ t.was = actual
    BY <2>1 DEF WriteJob
  <2>4. [actual EXCEPT ![j.prop] = j.value] \in [Prop -> Value]
    BY <1>2, <2>1
  <2> HIDE DEF t, told, done
  <2>5. Fine(t, cn)
    BY <1>4, <2>3 DEF Fine, IsFirst, IsMade
  <2>6. o.actual \in [Prop -> Value]
    BY <1>1, <2>2, <2>4
  <2> QED
    BY <1>1, <1>4, <2>2, <2>3, <2>5, <2>6 DEF Job
<1> QED
  BY <1>2, <1>3, <1>4

(* The panel and the history keep what they forgot. *)
LEMMA StillForgotten ==
  ASSUME OutageForgets, slips \subseteq slips', conn' = conn, phase' = phase, shown' = shown,
         \A i \in Writes(history') : \E k \in Writes(history) : history'[i].of = history[k].of
  PROVE  OutageForgets'
<1>1. Connected' = Connected /\ Nothing' = Nothing
  BY DEF Connected, Nothing
<1> QED
  BY <1>1 DEF OutageForgets

LEMMA StillTheHistory ==
  ASSUME history' = history
  PROVE  \A i \in Writes(history') : \E k \in Writes(history) : history'[i].of = history[k].of
  OBVIOUS

LEMMA MeetsIs ==
  ASSUME SettingsAssumption, TypeOK, OutageForgets, NEW j \in Job, j.stage = "sent", Fine(j, conn),
         NEW o \in Outcomes(j), Meets(o)
  PROVE  /\ actual' \in [Prop -> Value] /\ events' \in 0..MaxEvents
         /\ phase' = phase /\ conn' = conn /\ values' = values /\ unavailable' = unavailable
         /\ shown' = shown /\ inflight' = inflight /\ cursor' = cursor
         /\ history' = history /\ suspended' = suspended
         /\ slips \subseteq slips' /\ OutageForgets'
<1>1. actual' \in [Prop -> Value] /\ o.fault \in {0, 1}
  BY OutcomeIs DEF Meets, TypeOK
<1>2. events' = events + o.fault /\ events' <= MaxEvents /\ events \in 0..MaxEvents /\ MaxEvents \in Nat
  BY DEF Meets, TypeOK, SettingsAssumption
<1>3. events' \in 0..MaxEvents
  BY <1>1, <1>2
<1>4. /\ phase' = phase /\ conn' = conn /\ values' = values /\ unavailable' = unavailable
      /\ shown' = shown /\ inflight' = inflight /\ cursor' = cursor
      /\ history' = history /\ suspended' = suspended
  BY DEF Meets, link, copies, poll, undo
<1>5. slips \subseteq slips'
  BY SlipIs DEF Meets
<1>6. OutageForgets'
  BY <1>4, <1>5, StillForgotten, StillTheHistory
<1> QED
  BY <1>1, <1>3, <1>4, <1>5, <1>6

(* The types that have nothing to do with the queue. *)
LEMMA TypesKept ==
  ASSUME SettingsAssumption, TypeOK, QueueInv(pending', running', late', phase', conn'),
         actual' \in [Prop -> Value],
         phase' \in {"down", "identify", "first", "up"}, conn' \in Nat,
         values' \in [Prop -> Value \cup {None}], shown' \in [Prop -> Value \cup {None}],
         unavailable' \subseteq Prop, inflight' \in BOOLEAN, cursor' \in 1..(Len(Order) + 1),
         suspended' \in BOOLEAN, events' \in 0..MaxEvents,
         history' \in Seq(Entry), Len(history') <= Limit
  PROVE  SettingsInv'
  BY DEF SettingsInv, TypeOK, QueueInv

LEMMA ReachKeeps ==
  ASSUME SettingsAssumption, SettingsInv, OutageForgets, Reach
  PROVE  SettingsInv' /\ OutageForgets'
<1>1. TypeOK /\ QueueInv(pending, None, late, phase, conn) /\ pending \in Seq(Job)
  BY DEF SettingsInv, Reach, QueueInv
<1> DEFINE i == Foremost
           j == pending[i]
<1>2. i \in DOMAIN pending
  BY <1>1, ForemostIn DEF Reach
<1> HIDE DEF i
<1>3. j \in Job /\ j.stage = "sent" /\ Fine(j, conn)
  <2>1. j \in Job
    BY <1>1, <1>2, LengthIs
  <2> QED
    BY <1>1, <1>2, <2>1 DEF QueueInv
<1>4. PICK o \in Outcomes(j) : Meets(o) /\ running' = o.job
  BY DEF Reach, i
<1>5. pending' = RemoveAt(pending, i) /\ late' = late
  BY DEF Reach, i
<1> HIDE DEF j
<1>6. /\ o.job \in Job /\ o.job.stage # "sent" /\ Fine(o.job, conn)
      /\ o.job.kind = j.kind /\ o.job.who = j.who /\ o.job.of = j.of
  <2>1. actual \in [Prop -> Value]
    BY <1>1 DEF TypeOK
  <2> QED
    BY <1>3, <2>1, OutcomeIs
<1>7. QueueInv(RemoveAt(pending, i), o.job, late, phase, conn)
  BY <1>1, <1>2, <1>6, StartJob DEF j
<1>8. /\ actual' \in [Prop -> Value] /\ events' \in 0..MaxEvents
      /\ phase' = phase /\ conn' = conn /\ values' = values /\ unavailable' = unavailable
      /\ shown' = shown /\ inflight' = inflight /\ cursor' = cursor
      /\ history' = history /\ suspended' = suspended
      /\ slips \subseteq slips' /\ OutageForgets'
  BY <1>1, <1>3, <1>4, MeetsIs
<1>9. QueueInv(pending', running', late', phase', conn')
  BY <1>4, <1>5, <1>7, <1>8
<1> QED
  BY <1>1, <1>8, <1>9, TypesKept DEF TypeOK

LEMMA ReachLateKeeps ==
  ASSUME SettingsAssumption, SettingsInv, OutageForgets, ReachLate
  PROVE  SettingsInv' /\ OutageForgets'
<1>1. TypeOK /\ QueueInv(pending, running, late, phase, conn) /\ late # None /\ late.stage = "sent"
  BY DEF SettingsInv, ReachLate
<1>2. late \in Job /\ Fine(late, conn) /\ ~IsFirst(late) /\ (phase = "down" \/ late.of < conn)
  BY <1>1 DEF QueueInv
<1>3. PICK o \in Outcomes(late) : Meets(o) /\ late' = o.job
  BY DEF ReachLate
<1>4. pending' = pending /\ running' = running
  BY DEF ReachLate
<1>5. /\ o.job \in Job /\ o.job.stage # "sent" /\ Fine(o.job, conn)
      /\ o.job.kind = late.kind /\ o.job.who = late.who /\ o.job.of = late.of
  BY <1>1, <1>2, OutcomeIs DEF TypeOK
<1>6. ~IsFirst(o.job) /\ (phase = "down" \/ o.job.of < conn)
  BY <1>2, <1>5 DEF IsFirst
<1>7. QueueInv(pending, running, o.job, phase, conn)
  BY <1>1, <1>5, <1>6 DEF QueueInv
<1>8. /\ actual' \in [Prop -> Value] /\ events' \in 0..MaxEvents
      /\ phase' = phase /\ conn' = conn /\ values' = values /\ unavailable' = unavailable
      /\ shown' = shown /\ inflight' = inflight /\ cursor' = cursor
      /\ history' = history /\ suspended' = suspended
      /\ slips \subseteq slips' /\ OutageForgets'
  BY <1>1, <1>2, <1>3, MeetsIs
<1>9. QueueInv(pending', running', late', phase', conn')
  BY <1>3, <1>4, <1>7, <1>8
<1> QED
  BY <1>1, <1>8, <1>9, TypesKept DEF TypeOK

(* The job that ends leaves the queue or the wire. *)
LEMMA GoneIs ==
  ASSUME QueueInv(pending, running, late, phase, conn), NEW j \in {running, late} \ {None}, Gone(j)
  PROVE  /\ QueueInv(pending, running', late', phase, conn)
         /\ j \in Job /\ Fine(j, conn)
         /\ \/ running # None /\ j = running /\ running' = None /\ late' = late
            \/ late # None /\ j = late /\ late' = None /\ running' = running
<1>1. \/ running # None /\ j = running /\ running' = None /\ late' = late
      \/ late # None /\ j = late /\ late' = None /\ running' = running
  BY DEF Gone
<1>2. QueueInv(pending, running', late', phase, conn)
  <2>1. CASE running' = None /\ late' = late
    BY <2>1, EndJob
  <2>2. CASE late' = None /\ running' = running
    BY <2>2, EndJob
  <2> QED
    BY <1>1, <2>1, <2>2
<1>3. j \in Job /\ Fine(j, conn)
  BY DEF QueueInv
<1> QED
  BY <1>1, <1>2, <1>3

LEMMA AbsorbIs ==
  ASSUME TypeOK, NEW j \in Job, j.kind = "read", Absorb(j)
  PROVE  /\ values' \in [Prop -> Value \cup {None}] /\ shown' \in [Prop -> Value \cup {None}]
         /\ unavailable' \subseteq Prop
<1>1. j.prop \in Prop /\ j.value \in Value \cup {None}
  BY JobIs
<1>2. /\ values \in [Prop -> Value \cup {None}] /\ shown \in [Prop -> Value \cup {None}]
      /\ unavailable \subseteq Prop
  BY DEF TypeOK
<1>3. /\ [values EXCEPT ![j.prop] = j.value] \in [Prop -> Value \cup {None}]
      /\ [shown EXCEPT ![j.prop] = j.value] \in [Prop -> Value \cup {None}]
  BY <1>1, <1>2
<1>4. values' \in [Prop -> Value \cup {None}] /\ shown' \in [Prop -> Value \cup {None}]
  BY <1>2, <1>3 DEF Absorb
<1>5. unavailable' \subseteq Prop
  BY <1>1, <1>2 DEF Absorb
<1> QED
  BY <1>4, <1>5

(* Only the first read has more to ask, and it is a connection's. *)
LEMMA ReadGoesOnKeeps ==
  ASSUME SettingsAssumption, SettingsInv, OutageForgets, NEW j \in {running, late} \ {None}, ReadGoesOn(j)
  PROVE  SettingsInv' /\ OutageForgets'
<1>1. TypeOK /\ QueueInv(pending, running, late, phase, conn)
  BY DEF SettingsInv
<1>2. Gone(j) /\ Absorb(j) /\ j.kind = "read" /\ j.rest # <<>>
  BY DEF ReadGoesOn
<1>3. /\ actual' = actual /\ phase' = phase /\ conn' = conn /\ inflight' = inflight /\ cursor' = cursor
      /\ history' = history /\ suspended' = suspended /\ events' = events /\ slips' = slips
  BY DEF ReadGoesOn, link, poll, undo
<1>4. /\ QueueInv(pending, running', late', phase, conn) /\ j \in Job /\ Fine(j, conn)
      /\ \/ running # None /\ j = running /\ running' = None /\ late' = late
         \/ late # None /\ j = late /\ late' = None /\ running' = running
  BY <1>1, <1>2, GoneIs
<1>5. IsFirst(j)
  BY <1>2, <1>4 DEF Fine
<1>6. running # None /\ j = running /\ running' = None /\ phase = "first" /\ j.of = conn
  BY <1>1, <1>4, <1>5 DEF QueueInv
<1>7. \A i \in DOMAIN pending : ~IsFirst(pending[i])
  BY <1>1, <1>5, <1>6 DEF QueueInv
<1> DEFINE r == Read(j.who, j.rest)
           n == [r EXCEPT !.of = j.of]
<1>8. r \in Job /\ r.kind = "read" /\ r.who = "first" /\ r.stage = "sent" /\ r.of = conn
  <2>1. j.who = "first" /\ j.rest \in Seq(Prop) /\ conn \in Nat
    BY <1>1, <1>2, <1>4, <1>5, JobIs DEF IsFirst, TypeOK
  <2>2. \A who \in {"first", "poll", "reread"}, props \in Seq(Prop) : props # <<>> =>
          /\ Read(who, props) \in Job /\ Read(who, props).kind = "read" /\ Read(who, props).who = who
          /\ Read(who, props).stage = "sent" /\ Read(who, props).of = conn
    BY <2>1, ReadIs
  <2> QED
    BY <1>2, <2>1, <2>2
<1>9. n = r
  <2> HIDE DEF r
  <2>1. r \in ReadJob
    BY <1>8, JobIs
  <2> QED
    BY <1>6, <1>8, <2>1 DEF ReadJob
<1>10. Fine(r, conn) /\ IsFirst(r)
  <2> HIDE DEF r
  <2>1. conn \in Nat
    BY <1>1 DEF TypeOK
  <2> QED
    BY <1>8, <2>1 DEF Fine, IsFirst, IsMade
<1>11. pending' = Append(pending, r)
  BY <1>9 DEF ReadGoesOn
<1> HIDE DEF r, n
<1>12. QueueInv(Append(pending, r), None, late', "first", conn)
  BY <1>4, <1>6, <1>7, <1>8, <1>10, AddFirst
<1>13. QueueInv(pending', running', late', phase', conn')
  BY <1>3, <1>6, <1>11, <1>12
<1>14. /\ values' \in [Prop -> Value \cup {None}] /\ shown' \in [Prop -> Value \cup {None}]
       /\ unavailable' \subseteq Prop
  BY <1>1, <1>2, <1>4, AbsorbIs
<1>15. SettingsInv'
  BY <1>1, <1>3, <1>13, <1>14, TypesKept DEF TypeOK
<1>16. OutageForgets'
  <2>1. Connected' /\ Connected
    BY <1>3, <1>6 DEF Connected
  <2> QED
    BY <1>3, <2>1 DEF OutageForgets
<1> QED
  BY <1>15, <1>16

(* An answer that belongs to no connection is a slip. *)
LEMMA ReadEndsKeeps ==
  ASSUME SettingsAssumption, SettingsInv, OutageForgets, NEW j \in {running, late} \ {None}, ReadEnds(j)
  PROVE  SettingsInv' /\ OutageForgets'
<1>1. TypeOK /\ QueueInv(pending, running, late, phase, conn)
  BY DEF SettingsInv
<1>2. Gone(j) /\ Absorb(j) /\ j.kind = "read" /\ PollEnds(j)
  BY DEF ReadEnds
<1>3. /\ actual' = actual /\ conn' = conn /\ pending' = pending /\ cursor' = cursor
      /\ history' = history /\ suspended' = suspended /\ events' = events
  BY DEF ReadEnds, undo
<1>4. /\ QueueInv(pending, running', late', phase, conn) /\ j \in Job /\ Fine(j, conn)
      /\ \/ running # None /\ j = running /\ running' = None /\ late' = late
         \/ late # None /\ j = late /\ late' = None /\ running' = running
  BY <1>1, <1>2, GoneIs
<1>5. /\ values' \in [Prop -> Value \cup {None}] /\ shown' \in [Prop -> Value \cup {None}]
      /\ unavailable' \subseteq Prop
  BY <1>1, <1>2, <1>4, AbsorbIs
<1>6. inflight' \in BOOLEAN
  BY <1>2 DEF PollEnds
<1>7. /\ Slip(When(~Connected \/ j.of # conn, "lateRead"))
      /\ phase' = IF phase = "first" /\ j.who = "first" /\ j.of = conn THEN "up" ELSE phase
  BY DEF ReadEnds
<1>8. slips \subseteq slips' /\ (~Connected => "lateRead" \in slips')
  BY <1>7, SlipIs DEF When
<1>9. QueueInv(pending', running', late', phase', conn')
  <2>1. CASE phase = "first" /\ j.who = "first" /\ j.of = conn
    <3>1. IsFirst(j)
      BY <1>2, <2>1 DEF IsFirst
    <3>2. j = running /\ running # None /\ running' = None /\ late' = late
      BY <1>1, <1>4, <3>1 DEF QueueInv
    <3>3. \A i \in DOMAIN pending : ~IsFirst(pending[i])
      BY <1>1, <3>1, <3>2 DEF QueueInv
    <3>4. QueueInv(pending, None, late, "up", conn)
      BY <1>4, <2>1, <3>2, <3>3 DEF QueueInv
    <3> QED
      BY <1>3, <1>7, <2>1, <3>2, <3>4
  <2>2. CASE ~(phase = "first" /\ j.who = "first" /\ j.of = conn)
    <3>1. phase' = phase
      BY <1>7, <2>2
    <3> QED
      BY <1>3, <1>4, <3>1
  <2> QED
    BY <2>1, <2>2
<1>10. phase' \in {"down", "identify", "first", "up"}
  BY <1>1, <1>7 DEF TypeOK
<1>11. SettingsInv'
  BY <1>1, <1>3, <1>5, <1>6, <1>9, <1>10, TypesKept DEF TypeOK
<1>12. OutageForgets'
  <2>1. Connected => Connected'
    BY <1>7 DEF Connected
  <2>2. ~Connected' => "lateRead" \in slips'
    BY <1>8, <2>1
  <2>3. "late" \notin slips' => "late" \notin slips
    BY <1>8
  <2> QED
    BY <1>3, <2>1, <2>2, <2>3 DEF OutageForgets
<1> QED
  BY <1>11, <1>12

LEMMA NothingIs ==
  Nothing \in [Prop -> Value \cup {None}]
  BY DEF Nothing

(* A closed connection shows nothing and has nothing to undo. *)
LEMMA DropForgets ==
  ASSUME Drop
  PROVE  /\ OutageForgets' /\ phase' = "down" /\ pending' = <<>> /\ inflight' = FALSE
         /\ shown' = Nothing /\ history' = <<>> /\ suspended' \in BOOLEAN
<1>1. /\ phase' = "down" /\ pending' = <<>> /\ inflight' = FALSE
      /\ shown' = Nothing /\ history' = <<>> /\ suspended' \in BOOLEAN
  BY DEF Drop
<1>2. shown' = Nothing' /\ ~Connected'
  BY <1>1 DEF Nothing, Connected
<1>3. Writes(history') = {}
  BY <1>1 DEF Writes
<1> QED
  BY <1>1, <1>2, <1>3 DEF OutageForgets

LEMMA DropKeeps ==
  ASSUME SettingsAssumption, TypeOK, Drop, running' = None,
         late' \in Job \cup {None}, late' # None => Fine(late', conn) /\ ~IsFirst(late'),
         actual' = actual, conn' = conn, values' = values, unavailable' = unavailable, cursor' = cursor,
         events' \in 0..MaxEvents
  PROVE  SettingsInv' /\ OutageForgets'
<1>1. /\ OutageForgets' /\ phase' = "down" /\ pending' = <<>> /\ inflight' = FALSE
      /\ shown' = Nothing /\ history' = <<>> /\ suspended' \in BOOLEAN
  BY DropForgets
<1>2. QueueInv(<<>>, None, late', "down", conn)
  BY CloseQueue
<1>3. QueueInv(pending', running', late', phase', conn')
  BY <1>1, <1>2
<1>4. history' \in Seq(Entry) /\ Len(history') <= Limit
  <2>1. <<>> \in Seq(Entry) /\ Len(<<>>) = 0 /\ Limit \in Nat
    BY DEF SettingsAssumption
  <2> QED
    BY <1>1, <2>1
<1>5. shown' \in [Prop -> Value \cup {None}]
  BY <1>1, NothingIs
<1>6. SettingsInv'
  BY <1>1, <1>3, <1>4, <1>5, TypesKept DEF TypeOK
<1> QED
  BY <1>1, <1>6

LEMMA FirstReadFailsIs ==
  ASSUME SettingsInv, NEW j \in {running, late} \ {None}, FirstReadFails(j)
  PROVE  running # None /\ j = running /\ IsFirst(running) /\ running' = None /\ late' = late
<1>1. QueueInv(pending, running, late, phase, conn) /\ Gone(j)
  BY DEF SettingsInv, FirstReadFails
<1>2. IsFirst(j)
  BY DEF FirstReadFails, IsFirst
<1>3. \/ running # None /\ j = running /\ running' = None /\ late' = late
      \/ late # None /\ j = late /\ late' = None /\ running' = running
  BY <1>1, GoneIs
<1>4. late # None => ~IsFirst(late)
  BY <1>1 DEF QueueInv
<1> QED
  BY <1>2, <1>3, <1>4

LEMMA FirstReadFailsKeeps ==
  ASSUME SettingsAssumption, SettingsInv, OutageForgets, NEW j \in {running, late} \ {None},
         FirstReadFails(j)
  PROVE  SettingsInv' /\ OutageForgets'
<1>1. TypeOK /\ QueueInv(pending, running, late, phase, conn) /\ Drop
  BY DEF SettingsInv, FirstReadFails
<1>2. running' = None /\ late' = late
  BY FirstReadFailsIs
<1>3. late' \in Job \cup {None} /\ (late' # None => Fine(late', conn) /\ ~IsFirst(late'))
  BY <1>1, <1>2 DEF QueueInv
<1>4. /\ actual' = actual /\ conn' = conn /\ values' = values /\ unavailable' = unavailable
      /\ cursor' = cursor /\ events' \in 0..MaxEvents
  BY <1>1 DEF FirstReadFails, TypeOK
<1> QED
  BY <1>1, <1>2, <1>3, <1>4, DropKeeps

LEMMA TickDropsIs ==
  ASSUME SettingsInv, TickDrops
  PROVE  /\ late = None /\ running' = None
         /\ \/ running # None /\ late' = running
            \/ running = None /\ late' = None
            \/ running = None /\ \E i \in DOMAIN pending : late' = pending[i]
<1>1. QueueInv(pending, running, late, phase, conn) /\ late = None /\ running' = None
  BY DEF SettingsInv, TickDrops
<1>2. late' \in IF running # None THEN {running}
                ELSE {None} \cup {pending[i] : i \in {k \in DOMAIN pending : k = Foremost}}
  BY DEF TickDrops
<1>3. CASE running # None
  BY <1>1, <1>2, <1>3
<1>4. CASE running = None
  BY <1>1, <1>2, <1>4
<1> QED
  BY <1>3, <1>4

LEMMA TickDropsKeeps ==
  ASSUME SettingsAssumption, SettingsInv, OutageForgets, TickDrops
  PROVE  SettingsInv' /\ OutageForgets'
<1>1. TypeOK /\ QueueInv(pending, running, late, phase, conn) /\ Drop /\ phase = "up"
  BY DEF SettingsInv, TickDrops
<1>2. /\ running' = None
      /\ \/ running # None /\ late' = running
         \/ running = None /\ late' = None
         \/ running = None /\ \E i \in DOMAIN pending : late' = pending[i]
  BY TickDropsIs
<1>3. \A i \in DOMAIN pending : pending[i] \in Job /\ Fine(pending[i], conn) /\ ~IsFirst(pending[i])
  <2>1. \A i \in DOMAIN pending : pending[i] \in Job
    BY <1>1, LengthIs DEF QueueInv
  <2> QED
    BY <1>1, <2>1 DEF QueueInv
<1>4. running # None => running \in Job /\ Fine(running, conn) /\ ~IsFirst(running)
  BY <1>1 DEF QueueInv
<1>5. late' \in Job \cup {None} /\ (late' # None => Fine(late', conn) /\ ~IsFirst(late'))
  BY <1>2, <1>3, <1>4
<1>6. events' \in 0..MaxEvents
  <2>1. events < MaxEvents /\ events' = events + 1 /\ events \in 0..MaxEvents /\ MaxEvents \in Nat
    BY <1>1 DEF TickDrops, TypeOK, SettingsAssumption
  <2> QED
    BY <2>1
<1>7. actual' = actual /\ conn' = conn /\ values' = values /\ unavailable' = unavailable /\ cursor' = cursor
  BY DEF TickDrops
<1> QED
  BY <1>1, <1>2, <1>5, <1>6, <1>7, DropKeeps

LEMMA ConnectKeeps ==
  ASSUME SettingsAssumption, SettingsInv, OutageForgets, Connect
  PROVE  SettingsInv' /\ OutageForgets'
<1>1. TypeOK /\ QueueInv(pending, running, late, phase, conn) /\ conn \in Nat
  BY DEF SettingsInv, TypeOK
<1>2. /\ phase = "down" /\ phase' = "identify" /\ conn' = conn + 1
      /\ actual' = actual /\ pending' = pending /\ running' = running /\ late' = late
      /\ values' = values /\ unavailable' = unavailable /\ shown' = shown
      /\ inflight' = inflight /\ cursor' = cursor /\ history' = history /\ suspended' = suspended
      /\ events' = events /\ slips' = slips
  BY DEF Connect, copies, poll, undo
<1>3. pending = <<>> /\ running = None
  BY <1>1, <1>2 DEF QueueInv
<1>4. late # None => Fine(late, conn + 1) /\ ~IsFirst(late) /\ late.of < conn + 1
  <2> SUFFICES ASSUME late # None
               PROVE  Fine(late, conn + 1) /\ ~IsFirst(late) /\ late.of < conn + 1
    OBVIOUS
  <2>1. late \in Job /\ Fine(late, conn) /\ ~IsFirst(late)
    BY <1>1 DEF QueueInv
  <2>2. late.of \in Nat /\ late.of <= conn
    BY <2>1, JobIs DEF Fine
  <2>3. late.of <= conn + 1 /\ late.of < conn + 1
    BY <1>1, <2>2
  <2> QED
    BY <2>1, <2>3 DEF Fine
<1>5. QueueInv(<<>>, None, late, "identify", conn + 1)
  <2>1. <<>> \in Seq(Job) /\ DOMAIN <<>> = {} /\ late \in Job \cup {None}
    BY <1>1 DEF QueueInv
  <2> QED
    BY <1>4, <2>1 DEF QueueInv
<1>6. QueueInv(pending', running', late', phase', conn') /\ conn' \in Nat
  BY <1>1, <1>2, <1>3, <1>5
<1>7. SettingsInv'
  BY <1>1, <1>2, <1>6, TypesKept DEF TypeOK
<1>8. OutageForgets'
  BY <1>2 DEF OutageForgets, Connected, Nothing
<1> QED
  BY <1>7, <1>8

LEMMA IdentifiedKeeps ==
  ASSUME SettingsAssumption, SettingsInv, OutageForgets, Identified
  PROVE  SettingsInv' /\ OutageForgets'
<1>1. TypeOK /\ QueueInv(pending, running, late, phase, conn) /\ conn \in Nat
  BY DEF SettingsInv, TypeOK
<1>2. /\ phase = "identify" /\ phase' = "first" /\ values' = Nothing /\ unavailable' = {}
      /\ shown' = Nothing /\ pending' = Append(pending, Read("first", Order))
      /\ actual' = actual /\ conn' = conn /\ running' = running /\ late' = late
      /\ inflight' = inflight /\ cursor' = cursor /\ history' = history /\ suspended' = suspended
      /\ events' = events /\ slips' = slips
  BY DEF Identified, poll, undo
<1> DEFINE r == Read("first", Order)
<1>3. /\ r \in Job /\ r.kind = "read" /\ r.who = "first" /\ r.stage = "sent" /\ r.of = conn
  BY <1>1, ReadIs DEF SettingsAssumption
<1> HIDE DEF r
<1>4. Fine(r, conn) /\ IsFirst(r)
  BY <1>1, <1>3 DEF Fine, IsFirst, IsMade
<1>5. (running # None => ~IsFirst(running)) /\ \A i \in DOMAIN pending : ~IsFirst(pending[i])
  BY <1>1, <1>2 DEF QueueInv
<1>6. QueueInv(pending, running, late, "first", conn)
  BY <1>1, <1>2, <1>5 DEF QueueInv
<1>7. QueueInv(Append(pending, r), running, late, "first", conn)
  BY <1>3, <1>4, <1>5, <1>6, AddFirst
<1>8. QueueInv(pending', running', late', phase', conn')
  BY <1>2, <1>7 DEF r
<1>9. SettingsInv'
  BY <1>1, <1>2, <1>8, TypesKept, NothingIs DEF TypeOK
<1>10. OutageForgets'
  BY <1>2 DEF OutageForgets, Connected, Nothing
<1> QED
  BY <1>9, <1>10

LEMMA PollKeeps ==
  ASSUME SettingsAssumption, SettingsInv, OutageForgets, Poll
  PROVE  SettingsInv' /\ OutageForgets'
<1>1. TypeOK /\ QueueInv(pending, running, late, phase, conn) /\ conn \in Nat
  BY DEF SettingsInv, TypeOK
<1> DEFINE list == Sift(Order, {i \in DOMAIN Order : Order[i] \notin unavailable})
           at   == IF cursor > Len(list) THEN 1 ELSE cursor
           n    == Len(Order)
           m    == Len(list)
<1>2. Order \in Seq(Prop) /\ n \in Nat
  BY LengthIs DEF SettingsAssumption
<1>3. list \in Seq(Prop) /\ m <= n /\ m \in Nat
  <2> DEFINE some == {i \in DOMAIN Order : Order[i] \notin unavailable}
  <2> HIDE DEF some
  <2>1. some \in SUBSET (DOMAIN Order)
    BY DEF some
  <2>2. Sift(Order, some) \in Seq(Prop) /\ Len(Sift(Order, some)) <= Len(Order)
    BY <1>2, <2>1, SiftIs
  <2> QED
    BY <2>2, LengthIs DEF some
<1>4. /\ phase = "up" /\ list # <<>> /\ inflight' = TRUE /\ cursor' = at + 1
      /\ pending' = Append(pending, Read("poll", <<list[at]>>))
      /\ actual' = actual /\ phase' = phase /\ conn' = conn /\ running' = running /\ late' = late
      /\ values' = values /\ unavailable' = unavailable /\ shown' = shown
      /\ history' = history /\ suspended' = suspended /\ events' = events /\ slips' = slips
  BY DEF Poll, link, copies, undo
<1>5. cursor \in 1..(n + 1)
  BY <1>1 DEF TypeOK
<1> HIDE DEF list
<1>6. DOMAIN list = 1..m /\ m # 0 /\ \A i \in 1..m : list[i] \in Prop
  BY <1>3, <1>4, LengthIs
<1>7. at \in 1..m /\ cursor' \in 1..(n + 1)
  <2> HIDE DEF m, n
  <2>1. at \in 1..m
    BY <1>2, <1>3, <1>5, <1>6 DEF m
  <2> HIDE DEF at
  <2> QED
    BY <1>2, <1>3, <1>4, <2>1
<1> DEFINE p == list[at]
<1>8. p \in Prop
  BY <1>6, <1>7
<1> HIDE DEF p, at
<1>9. <<p>> \in Seq(Prop) /\ <<p>> # <<>> /\ Tail(<<p>>) = <<>>
  BY <1>8
<1> DEFINE r == Read("poll", <<p>>)
<1>10. r \in Job /\ r.kind = "read" /\ r.who = "poll" /\ r.stage = "sent" /\ r.of = conn /\ r.rest = <<>>
  BY <1>1, <1>9, ReadIs
<1> HIDE DEF r
<1>11. Fine(r, conn) /\ ~IsFirst(r)
  BY <1>1, <1>10 DEF Fine, IsFirst, IsMade
<1>12. QueueInv(Append(pending, r), running, late, phase, conn)
  BY <1>1, <1>4, <1>10, <1>11, AddJob
<1>13. QueueInv(pending', running', late', phase', conn')
  BY <1>4, <1>12 DEF r, p
<1>14. SettingsInv'
  BY <1>1, <1>4, <1>7, <1>13, TypesKept DEF TypeOK
<1>15. OutageForgets'
  BY <1>4, StillForgotten, StillTheHistory
<1> QED
  BY <1>14, <1>15

LEMMA TurnKeeps ==
  ASSUME SettingsAssumption, SettingsInv, OutageForgets, NEW p \in Prop, NEW v \in Value, Turn(p, v)
  PROVE  SettingsInv' /\ OutageForgets'
<1>1. TypeOK /\ QueueInv(pending, running, late, phase, conn)
  BY DEF SettingsInv
<1>2. /\ actual' = [actual EXCEPT ![p] = v] /\ events < MaxEvents /\ events' = events + 1
      /\ phase' = phase /\ conn' = conn /\ pending' = pending /\ running' = running /\ late' = late
      /\ values' = values /\ unavailable' = unavailable /\ shown' = shown
      /\ inflight' = inflight /\ cursor' = cursor /\ history' = history /\ suspended' = suspended
  BY DEF Turn, link, copies, poll, undo
<1>3. actual' \in [Prop -> Value]
  BY <1>1, <1>2 DEF TypeOK
<1>4. events' \in 0..MaxEvents
  BY <1>1, <1>2 DEF TypeOK, SettingsAssumption
<1>5. QueueInv(pending', running', late', phase', conn')
  BY <1>1, <1>2
<1>6. SettingsInv'
  BY <1>1, <1>2, <1>3, <1>4, <1>5, TypesKept DEF TypeOK
<1>7. slips \subseteq slips'
  BY SlipIs DEF Turn
<1>8. OutageForgets'
  BY <1>2, <1>7, StillForgotten, StillTheHistory
<1> QED
  BY <1>6, <1>8

(* The jobs an answered write makes: its setting is read again, and an     *)
(* undo or revert goes on.                                                 *)
More(j) == IF j.who \in {"undo", "revert"} THEN Undoes(j.who, j.rest) ELSE <<>>
Again(j) == IF j.stage = "done" THEN <<Read("reread", <<j.prop>>)>> ELSE <<>>

LEMMA MoreIs ==
  ASSUME NEW j \in Job, j.kind = "write", conn \in Nat, shown \in [Prop -> Value \cup {None}]
  PROVE  /\ More(j) \in Seq(Job)
         /\ \A i \in DOMAIN More(j) :
              /\ More(j)[i].kind = "write" /\ More(j)[i].stage = "sent" /\ More(j)[i].who = j.who
              /\ More(j)[i].of = conn
<1>1. j.rest \in Seq(Todo)
  BY JobIs
<1>2. CASE j.who \in {"undo", "revert"}
  <2> DEFINE who == j.who
             u == Undoes(who, j.rest)
  <2>1. More(j) = u
    BY <1>2 DEF More
  <2>2. who \in {"undo", "revert"}
    BY <1>2
  <2> HIDE DEF who
  <2>3. u \in Seq(Job)
    BY <1>1, <2>2, UndoesIs
  <2>4. CASE Askable(j.rest) = <<>>
    <3>1. u = <<>>
      BY <1>1, <2>2, <2>4, UndoesIs
    <3> QED
      BY <2>1, <2>3, <3>1
  <2>5. CASE Askable(j.rest) # <<>>
    <3>1. /\ DOMAIN u = {1} /\ u[1].kind = "write" /\ u[1].who = who /\ u[1].stage = "sent"
          /\ u[1].of = conn
      BY <1>1, <2>2, <2>5, UndoesIs
    <3> HIDE DEF u
    <3> QED
      BY <2>1, <2>3, <3>1 DEF who
  <2> QED
    BY <2>4, <2>5
<1>3. CASE j.who \notin {"undo", "revert"}
  <2>1. More(j) = <<>>
    BY <1>3 DEF More
  <2>2. <<>> \in Seq(Job)
    OBVIOUS
  <2> QED
    BY <2>1, <2>2
<1> QED
  BY <1>2, <1>3

LEMMA AgainIs ==
  ASSUME NEW j \in Job, conn \in Nat
  PROVE  /\ Again(j) \in Seq(Job)
         /\ \A i \in DOMAIN Again(j) :
              /\ Again(j)[i].kind = "read" /\ Again(j)[i].stage = "sent" /\ Again(j)[i].who = "reread"
              /\ Again(j)[i].of = conn /\ Again(j)[i].rest = <<>>
<1> DEFINE p == j.prop
           r == Read("reread", <<p>>)
<1>1. p \in Prop
  BY JobIs
<1> HIDE DEF p
<1>2. <<p>> \in Seq(Prop) /\ <<p>> # <<>> /\ Tail(<<p>>) = <<>>
  BY <1>1
<1>3. r \in Job /\ r.kind = "read" /\ r.who = "reread" /\ r.stage = "sent" /\ r.of = conn /\ r.rest = <<>>
  BY <1>2, ReadIs
<1>4. Again(j) = IF j.stage = "done" THEN <<r>> ELSE <<>>
  BY DEF Again, p
<1> HIDE DEF r
<1>5. <<r>> \in Seq(Job) /\ DOMAIN <<r>> = {1} /\ <<r>>[1] = r /\ <<>> \in Seq(Job) /\ DOMAIN <<>> = {}
  BY <1>3
<1> QED
  BY <1>3, <1>4, <1>5

(* Jobs of this connection that are no first read can be queued. *)
LEMMA SentIsFine ==
  ASSUME NEW j, conn \in Nat, j.of = conn, j.stage = "sent",
         j.kind = "write" \/ (j.kind = "read" /\ j.who # "first" /\ j.rest = <<>>)
  PROVE  Fine(j, conn) /\ ~IsFirst(j)
  BY DEF Fine, IsFirst, IsMade

LEMMA EnqueueKeeps ==
  ASSUME QueueInv(pending, running', late', phase, conn), NEW new \in Seq(Job), Enqueue(new),
         \A i \in DOMAIN new : new[i].stage = "sent" /\ Fine(new[i], conn) /\ ~IsFirst(new[i])
  PROVE  QueueInv(pending', running', late', phase, conn)
<1>1. CASE Open
  <2>1. pending' = pending \o new /\ phase # "down"
    BY <1>1 DEF Enqueue, Open
  <2>2. QueueInv(pending \o new, running', late', phase, conn)
    BY <2>1, AddJobs
  <2> QED
    BY <2>1, <2>2
<1>2. CASE ~Open
  BY <1>2 DEF Enqueue
<1> QED
  BY <1>1, <1>2

(* The entry of a write that is answered. *)
EntryOf(j) == [kind |-> "write", prop |-> j.prop, from |-> j.before, to |-> j.value,
               was |-> j.was, of |-> j.of]

(* What its answer tells of that the history is not guarded against. *)
Missteps(j, soon) ==
  When(~Connected \/ j.of # conn, "late")
  \cup When(j.stage = "done" /\ j.before # j.was[j.prop], "lagged")
  \cup When(Enters(j) /\ Folds(history, EntryOf(j), soon)
              /\ \E k \in Writes(history) : k > Newest(Foldable(history, j.prop)),
            "folded over")
  \cup When(j.stage = "done" /\ ~(j.who \in {"undo", "revert"}) /\ suspended, "hushed")
  \cup When(j.who \in {"undo", "revert"}
              /\ (~(j.stage = "done") \/ Askable(j.rest) # j.rest), "unmade")

LEMMA WriteAnsweredIs ==
  ASSUME NEW j, NEW soon, WriteAnswered(j, soon)
  PROVE  /\ j.kind = "write" /\ j.stage # "sent" /\ Gone(j)
         /\ history' = IF Enters(j) THEN Record(history, EntryOf(j), soon) ELSE history
         /\ suspended' = IF j.who \in {"undo", "revert"} /\ More(j) = <<>> THEN FALSE ELSE suspended
         /\ Enqueue(Again(j) \o More(j))
         /\ shown' \in {shown, values}
         /\ Slip(Missteps(j, soon))
         /\ actual' = actual /\ phase' = phase /\ conn' = conn /\ values' = values
         /\ unavailable' = unavailable /\ inflight' = inflight /\ cursor' = cursor /\ events' = events
  BY DEF WriteAnswered, Refreshed, EntryOf, Missteps, More, Again, link, poll

LEMMA WriteAnsweredKeeps ==
  ASSUME SettingsAssumption, SettingsInv, OutageForgets, NEW j \in {running, late} \ {None},
         NEW soon \in BOOLEAN, WriteAnswered(j, soon)
  PROVE  SettingsInv' /\ OutageForgets'
<1>1. TypeOK /\ QueueInv(pending, running, late, phase, conn) /\ conn \in Nat
  BY DEF SettingsInv, TypeOK
<1>2. /\ j.kind = "write" /\ j.stage # "sent" /\ Gone(j)
      /\ history' = IF Enters(j) THEN Record(history, EntryOf(j), soon) ELSE history
      /\ Enqueue(Again(j) \o More(j))
      /\ shown' \in {shown, values}
      /\ actual' = actual /\ phase' = phase /\ conn' = conn /\ values' = values
      /\ unavailable' = unavailable /\ inflight' = inflight /\ cursor' = cursor /\ events' = events
  BY WriteAnsweredIs
<1>3. QueueInv(pending, running', late', phase, conn) /\ j \in Job /\ Fine(j, conn)
  BY <1>1, <1>2, GoneIs
<1>4. slips \subseteq slips' /\ (~Connected \/ j.of # conn => "late" \in slips')
  <2>1. Slip(Missteps(j, soon))
    BY WriteAnsweredIs
  <2>2. ~Connected \/ j.of # conn => "late" \in Missteps(j, soon)
    BY DEF Missteps, When
  <2> QED
    BY <2>1, <2>2, SlipIs
<1>5. QueueInv(pending', running', late', phase', conn')
  <2>1. /\ Again(j) \in Seq(Job) /\ More(j) \in Seq(Job)
        /\ \A i \in DOMAIN Again(j) : /\ Again(j)[i].stage = "sent" /\ Fine(Again(j)[i], conn)
                                      /\ ~IsFirst(Again(j)[i])
        /\ \A i \in DOMAIN More(j) : /\ More(j)[i].stage = "sent" /\ Fine(More(j)[i], conn)
                                     /\ ~IsFirst(More(j)[i])
    <3>1. shown \in [Prop -> Value \cup {None}]
      BY <1>1 DEF TypeOK
    <3>2. /\ Again(j) \in Seq(Job)
          /\ \A i \in DOMAIN Again(j) :
               /\ Again(j)[i].kind = "read" /\ Again(j)[i].stage = "sent" /\ Again(j)[i].who = "reread"
               /\ Again(j)[i].of = conn /\ Again(j)[i].rest = <<>>
      BY <1>1, <1>3, AgainIs
    <3>3. /\ More(j) \in Seq(Job)
          /\ \A i \in DOMAIN More(j) :
               /\ More(j)[i].kind = "write" /\ More(j)[i].stage = "sent" /\ More(j)[i].of = conn
      BY <1>1, <1>2, <1>3, <3>1, MoreIs
    <3> QED
      BY <1>1, <3>2, <3>3, SentIsFine
  <2> DEFINE new == Again(j) \o More(j)
  <2>2. /\ new \in Seq(Job)
        /\ \A i \in DOMAIN new : \/ i \in DOMAIN Again(j) /\ new[i] = Again(j)[i]
                                 \/ i - Len(Again(j)) \in DOMAIN More(j) /\ new[i] = More(j)[i - Len(Again(j))]
    BY <2>1, NewJobs
  <2> HIDE DEF new
  <2>3. \A i \in DOMAIN new : new[i].stage = "sent" /\ Fine(new[i], conn) /\ ~IsFirst(new[i])
    BY <2>1, <2>2
  <2>4. Enqueue(new)
    BY <1>2 DEF new
  <2>5. QueueInv(pending', running', late', phase, conn)
    BY <1>3, <2>2, <2>3, <2>4, EnqueueKeeps
  <2> QED
    BY <1>2, <2>5
<1>6. /\ history' \in Seq(Entry) /\ Len(history') <= Limit
      /\ \A i \in Writes(history') :
           history'[i].of = j.of \/ \E k \in Writes(history) : history'[i].of = history[k].of
  <2>1. history \in Seq(Entry) /\ Len(history) <= Limit
    BY <1>1 DEF TypeOK
  <2>2. CASE Enters(j)
    <3> DEFINE w == EntryOf(j)
    <3>1. j.was \in [Prop -> Value]
      BY <1>2, <1>3, <2>2 DEF Enters, Fine, IsMade
    <3>2. j.prop \in Prop /\ j.before \in Value \cup {None} /\ j.value \in Value /\ j.of \in Nat
      BY <1>2, <1>3, JobIs
    <3>3. w \in Made /\ w.of = j.of
      BY <3>1, <3>2 DEF EntryOf, Made
    <3> HIDE DEF w
    <3>4. /\ Record(history, w, soon) \in Seq(Entry) /\ Len(Record(history, w, soon)) <= Limit
          /\ \A i \in Writes(Record(history, w, soon)) :
               \/ Record(history, w, soon)[i].of = w.of
               \/ \E k \in Writes(history) : Record(history, w, soon)[i].of = history[k].of
      BY <2>1, <3>3, RecordIs
    <3>5. history' = Record(history, w, soon)
      BY <1>2, <2>2 DEF w
    <3> QED
      BY <3>3, <3>4, <3>5
  <2>3. CASE ~Enters(j)
    <3>1. history' = history
      BY <1>2, <2>3
    <3> QED
      BY <2>1, <3>1
  <2> QED
    BY <2>2, <2>3
<1>7. shown' \in [Prop -> Value \cup {None}]
  BY <1>1, <1>2 DEF TypeOK
<1>8. suspended' \in BOOLEAN
  BY <1>1, WriteAnsweredIs DEF TypeOK
<1>9. SettingsInv'
  BY <1>1, <1>2, <1>5, <1>6, <1>7, <1>8, TypesKept DEF TypeOK
<1>10. OutageForgets'
  <2>1. Connected' = Connected /\ Nothing' = Nothing
    BY <1>2 DEF Connected, Nothing
  <2>2. ~Connected => "late" \in slips'
    BY <1>4
  <2>3. ASSUME "late" \notin slips', NEW i \in Writes(history')
        PROVE  Connected' /\ history'[i].of = conn'
    <3>1. Connected /\ j.of = conn /\ "late" \notin slips
      BY <1>4, <2>3
    <3>2. \A k \in Writes(history) : history[k].of = conn
      BY <3>1 DEF OutageForgets
    <3> QED
      BY <1>2, <1>6, <2>1, <2>3, <3>1, <3>2
  <2> QED
    BY <2>1, <2>2, <2>3 DEF OutageForgets
<1> QED
  BY <1>9, <1>10

LEMMA AsksIs ==
  ASSUME SettingsAssumption, TypeOK, Asks
  PROVE  /\ events' \in 0..MaxEvents /\ actual' = actual /\ phase' = phase /\ conn' = conn
         /\ running' = running /\ late' = late /\ values' = values /\ unavailable' = unavailable
         /\ shown' = shown /\ inflight' = inflight /\ cursor' = cursor
<1>1. events < MaxEvents /\ events' = events + 1 /\ events \in 0..MaxEvents /\ MaxEvents \in Nat
  BY DEF Asks, TypeOK, SettingsAssumption
<1> QED
  BY <1>1 DEF Asks, link, copies, poll

LEMMA SetIs ==
  ASSUME SettingsAssumption, SettingsInv, NEW p \in Prop, NEW v \in Value, Set(p, v)
  PROVE  LET j == Write("set", p, v, shown[p], <<>>) IN
         /\ Connected /\ pending' = Append(pending, j) /\ QueueInv(Append(pending, j), running, late, phase, conn)
         /\ j \in Job /\ j.kind = "write" /\ j.who = "set" /\ j.stage = "sent"
<1>1. TypeOK /\ QueueInv(pending, running, late, phase, conn) /\ conn \in Nat
  BY DEF SettingsInv, TypeOK
<1> DEFINE b == shown[p]
           t == <<>>
           who == "set"
           j == Write(who, p, v, b, t)
<1>2. b \in Value \cup {None}
  BY <1>1 DEF TypeOK
<1>3. t \in Seq(Todo) /\ who \in {"set", "recall", "undo", "revert"}
  OBVIOUS
<1> HIDE DEF b, t, who
<1>4. j \in Job /\ j.kind = "write" /\ j.who = who /\ j.stage = "sent" /\ j.of = conn
  BY <1>1, <1>2, <1>3, WriteIs
<1>5. Connected /\ pending' = Append(pending, j)
  BY DEF Set, b, t, who
<1>6. phase # "down"
  BY <1>5 DEF Connected
<1> HIDE DEF j
<1>7. Fine(j, conn) /\ ~IsFirst(j)
  BY <1>1, <1>4, SentIsFine
<1>8. QueueInv(Append(pending, j), running, late, phase, conn)
  BY <1>1, <1>4, <1>6, <1>7, AddJob
<1> QED
  BY <1>4, <1>5, <1>8 DEF j, b, t, who

LEMMA SetKeeps ==
  ASSUME SettingsAssumption, SettingsInv, OutageForgets, NEW p \in Prop, NEW v \in Value, Set(p, v)
  PROVE  SettingsInv' /\ OutageForgets'
<1>1. TypeOK /\ Asks /\ history' = history /\ suspended' = suspended /\ slips' = slips
  BY DEF SettingsInv, Set, undo
<1>2. /\ events' \in 0..MaxEvents /\ actual' = actual /\ phase' = phase /\ conn' = conn
      /\ running' = running /\ late' = late /\ values' = values /\ unavailable' = unavailable
      /\ shown' = shown /\ inflight' = inflight /\ cursor' = cursor
  BY <1>1, AsksIs
<1>3. QueueInv(pending', running', late', phase', conn')
  <2>1. QueueInv(pending', running, late, phase, conn)
    BY SetIs
  <2> QED
    BY <1>2, <2>1
<1>4. SettingsInv'
  BY <1>1, <1>2, <1>3, TypesKept DEF TypeOK
<1>5. OutageForgets'
  BY <1>1, <1>2, StillForgotten, StillTheHistory
<1> QED
  BY <1>4, <1>5

(* The writes of a recall. *)
Known == Sift(Order, {i \in DOMAIN Order : shown[Order[i]] # None /\ Order[i] \notin unavailable})
Recalled == [i \in DOMAIN Known |-> Write("recall", Known[i], Preset[Known[i]], shown[Known[i]], <<>>)]
Mark == [kind |-> "mark", was |-> actual]

LEMMA RecalledIs ==
  ASSUME SettingsAssumption, TypeOK
  PROVE  /\ Recalled \in Seq(Job)
         /\ \A i \in DOMAIN Recalled : /\ Recalled[i].kind = "write" /\ Recalled[i].who = "recall"
                                       /\ Recalled[i].stage = "sent" /\ Recalled[i].of = conn
<1>1. Order \in Seq(Prop) /\ conn \in Nat /\ shown \in [Prop -> Value \cup {None}] /\ Preset \in [Prop -> Value]
  BY DEF SettingsAssumption, TypeOK
<1> DEFINE some == {i \in DOMAIN Order : shown[Order[i]] # None /\ Order[i] \notin unavailable}
<1>2. some \in SUBSET (DOMAIN Order)
  OBVIOUS
<1> HIDE DEF some
<1>3. Known \in Seq(Prop)
  BY <1>1, <1>2, SiftIs DEF Known, some
<1> DEFINE m == Len(Known)
<1>4. m \in Nat /\ DOMAIN Known = 1..m /\ \A i \in 1..m : Known[i] \in Prop
  BY <1>3, LengthIs
<1> HIDE DEF m
<1>5. ASSUME NEW i \in 1..m
      PROVE  /\ Recalled[i] \in Job /\ Recalled[i].kind = "write" /\ Recalled[i].who = "recall"
             /\ Recalled[i].stage = "sent" /\ Recalled[i].of = conn
  <2> DEFINE p == Known[i]
             v == Preset[p]
             b == shown[p]
             t == <<>>
             who == "recall"
             j == Write(who, p, v, b, t)
  <2>1. Recalled[i] = j
    BY <1>4 DEF Recalled
  <2>2. p \in Prop /\ v \in Value /\ b \in Value \cup {None}
    BY <1>1, <1>4
  <2>3. t \in Seq(Todo) /\ who \in {"set", "recall", "undo", "revert"}
    OBVIOUS
  <2> HIDE DEF p, v, b, t, who
  <2>4. j \in Job /\ j.kind = "write" /\ j.who = who /\ j.stage = "sent" /\ j.of = conn
    BY <1>1, <2>2, <2>3, WriteIs
  <2> QED
    BY <2>1, <2>4 DEF who
<1>6. DOMAIN Recalled = 1..m
  BY <1>4 DEF Recalled
<1>7. Recalled = [i \in 1..m |-> Recalled[i]]
  BY <1>4 DEF Recalled
<1>8. Recalled \in Seq(Job)
  BY <1>4, <1>5, <1>7, IsASeq
<1> QED
  BY <1>5, <1>6, <1>8

LEMMA RecallIs ==
  ASSUME Recall
  PROVE  /\ Asks /\ history' = Push(history, Mark) /\ suspended' = suspended /\ Slip(Crossing)
         /\ pending' = IF ~Connected THEN pending ELSE pending \o Recalled
  BY DEF Recall, Recalled, Known, Mark

LEMMA MarkIs ==
  ASSUME SettingsAssumption, TypeOK
  PROVE  /\ Mark \in Entry /\ Mark.kind = "mark" /\ Mark.was = actual
         /\ Push(history, Mark) \in Seq(Entry) /\ Len(Push(history, Mark)) <= Limit
         /\ \A i \in Writes(Push(history, Mark)) :
              \E k \in Writes(history) : Push(history, Mark)[i].of = history[k].of
<1>1. actual \in [Prop -> Value] /\ history \in Seq(Entry) /\ Len(history) <= Limit
  BY DEF TypeOK
<1>2. Mark \in Entry /\ Mark.kind = "mark" /\ Mark.was = actual
  BY <1>1 DEF Mark, Entry
<1> DEFINE L == Push(history, Mark)
<1>3. L \in Seq(Entry) /\ Len(L) <= Limit
  BY <1>1, <1>2, PushIs
<1>4. PICK d \in {0, 1} :
        /\ Len(L) = Len(history) + 1 - d /\ Len(history) >= d /\ L[Len(history) + 1 - d] = Mark
        /\ \A i \in 1..(Len(history) - d) : L[i] = history[i + d]
  BY <1>1, <1>2, PushIs
<1>5. Len(history) \in Nat /\ DOMAIN history = 1..Len(history)
  BY <1>1, ListIs
<1> HIDE DEF L
<1>6. ASSUME NEW i \in Writes(L)
      PROVE  \E k \in Writes(history) : L[i].of = history[k].of
  <2>1. i \in 1..Len(L) /\ L[i].kind = "write"
    BY <1>3, LenProperties DEF Writes
  <2>2. i # Len(history) + 1 - d
    BY <1>2, <1>4, <2>1
  <2>3. i \in 1..(Len(history) - d) /\ i + d \in 1..Len(history)
    BY <1>4, <1>5, <2>1, <2>2
  <2>4. L[i] = history[i + d] /\ i + d \in Writes(history)
    BY <1>4, <1>5, <2>1, <2>3 DEF Writes
  <2> QED
    BY <2>4
<1> QED
  BY <1>2, <1>3, <1>6 DEF L

LEMMA RecallKeeps ==
  ASSUME SettingsAssumption, SettingsInv, OutageForgets, Recall
  PROVE  SettingsInv' /\ OutageForgets'
<1>1. TypeOK /\ QueueInv(pending, running, late, phase, conn) /\ conn \in Nat
  BY DEF SettingsInv, TypeOK
<1>2. /\ Asks /\ history' = Push(history, Mark) /\ suspended' = suspended /\ Slip(Crossing)
      /\ pending' = IF ~Connected THEN pending ELSE pending \o Recalled
  BY RecallIs
<1>3. /\ events' \in 0..MaxEvents /\ actual' = actual /\ phase' = phase /\ conn' = conn
      /\ running' = running /\ late' = late /\ values' = values /\ unavailable' = unavailable
      /\ shown' = shown /\ inflight' = inflight /\ cursor' = cursor
  BY <1>1, <1>2, AsksIs
<1>4. QueueInv(pending', running', late', phase', conn')
  <2>1. /\ Recalled \in Seq(Job)
        /\ \A i \in DOMAIN Recalled : /\ Recalled[i].stage = "sent" /\ Fine(Recalled[i], conn)
                                      /\ ~IsFirst(Recalled[i])
    BY <1>1, RecalledIs, SentIsFine
  <2>2. Connected => QueueInv(pending \o Recalled, running, late, phase, conn)
    BY <1>1, <2>1, AddJobs DEF Connected
  <2> QED
    BY <1>1, <1>2, <1>3, <2>2
<1>5. /\ history' \in Seq(Entry) /\ Len(history') <= Limit
      /\ \A i \in Writes(history') : \E k \in Writes(history) : history'[i].of = history[k].of
  BY <1>1, <1>2, MarkIs
<1>6. SettingsInv'
  BY <1>1, <1>2, <1>3, <1>4, <1>5, TypesKept DEF TypeOK
<1>7. slips \subseteq slips'
  BY <1>2, SlipIs
<1>8. OutageForgets'
  BY <1>3, <1>5, <1>7, StillForgotten
<1> QED
  BY <1>6, <1>8

LEMMA TakeBackKeeps ==
  ASSUME SettingsAssumption, SettingsInv, OutageForgets,
         NEW who \in {"undo", "revert"}, NEW list \in Seq(Entry), NEW todo \in Seq(Todo), NEW more,
         Len(list) <= Limit, \A i \in Writes(list) : \E k \in Writes(history) : list[i].of = history[k].of,
         TakeBack(who, list, todo, more)
  PROVE  SettingsInv' /\ OutageForgets'
<1>1. TypeOK /\ QueueInv(pending, running, late, phase, conn) /\ conn \in Nat
      /\ shown \in [Prop -> Value \cup {None}]
  BY DEF SettingsInv, TypeOK
<1> DEFINE first == Undoes(who, todo)
<1>2. /\ Asks /\ history' = list /\ Enqueue(first) /\ suspended' = (first # <<>>)
      /\ Slip(more \cup Crossing \cup When(Askable(todo) # todo, "unmade"))
  BY DEF TakeBack
<1>3. /\ events' \in 0..MaxEvents /\ actual' = actual /\ phase' = phase /\ conn' = conn
      /\ running' = running /\ late' = late /\ values' = values /\ unavailable' = unavailable
      /\ shown' = shown /\ inflight' = inflight /\ cursor' = cursor
  BY <1>1, <1>2, AsksIs
<1>4. /\ first \in Seq(Job)
      /\ \A i \in DOMAIN first : first[i].stage = "sent" /\ Fine(first[i], conn) /\ ~IsFirst(first[i])
  <2>1. first \in Seq(Job)
    BY <1>1, UndoesIs
  <2>2. CASE Askable(todo) = <<>>
    <3>1. first = <<>>
      BY <1>1, <2>2, UndoesIs
    <3> HIDE DEF first
    <3> QED
      BY <2>1, <3>1
  <2>3. CASE Askable(todo) # <<>>
    <3>1. DOMAIN first = {1} /\ first[1].kind = "write" /\ first[1].stage = "sent" /\ first[1].of = conn
      BY <1>1, <2>3, UndoesIs
    <3> HIDE DEF first
    <3>2. Fine(first[1], conn) /\ ~IsFirst(first[1])
      BY <1>1, <3>1, SentIsFine
    <3> QED
      BY <2>1, <3>1, <3>2
  <2> QED
    BY <2>2, <2>3
<1> HIDE DEF first
<1>5. QueueInv(pending', running', late', phase', conn')
  <2>1. QueueInv(pending, running', late', phase, conn)
    BY <1>1, <1>3
  <2>2. QueueInv(pending', running', late', phase, conn)
    BY <1>2, <1>4, <2>1, EnqueueKeeps
  <2> QED
    BY <1>3, <2>2
<1>6. SettingsInv'
  BY <1>1, <1>2, <1>3, <1>5, TypesKept DEF TypeOK
<1>7. slips \subseteq slips'
  BY <1>2, SlipIs
<1>8. OutageForgets'
  BY <1>2, <1>3, <1>7, StillForgotten
<1> QED
  BY <1>6, <1>8

(* The last write, its setting to be put back. *)
Back == LET e == PopLast(history).entry IN <<[prop |-> e.prop, value |-> e.from]>>
Passed == When(\E m \in Marks(history) : m > Newest(Writes(history)), "stepped over")

LEMMA UndoIs ==
  ASSUME SettingsAssumption, TypeOK, Undo
  PROVE  /\ Writes(history) # {} /\ TakeBack("undo", PopLast(history).list, Back, Passed)
         /\ history \in Seq(Entry)
         /\ PopLast(history).list \in Seq(Entry) /\ Len(PopLast(history).list) <= Limit
         /\ \A i \in Writes(PopLast(history).list) :
              \E k \in Writes(history) : PopLast(history).list[i].of = history[k].of
         /\ PopLast(history).entry \in Entry /\ PopLast(history).entry.kind = "write"
         /\ Back \in Seq(Todo)
<1>1. history \in Seq(Entry) /\ Len(history) <= Limit /\ Writes(history) # {}
  BY DEF TypeOK, Undo
<1>2. TakeBack("undo", PopLast(history).list, Back, Passed)
  BY DEF Undo, Back, Passed
<1> DEFINE n == Newest(Writes(history))
           left == PopLast(history).list
           e == PopLast(history).entry
<1>3. /\ n \in DOMAIN history /\ e = history[n] /\ e \in Entry /\ e.kind = "write"
      /\ left \in Seq(Entry) /\ Len(left) = Len(history) - 1
      /\ \A k \in 1..(Len(history) - 1) : left[k] = IF k < n THEN history[k] ELSE history[k + 1]
  <2>1. history[n].kind = "write" /\ PopLast(history).entry = history[n] /\ history[n] \in Entry
    BY <1>1, PopLastIs
  <2> HIDE DEF n
  <2> QED
    BY <1>1, <2>1, PopLastIs DEF n
<1> HIDE DEF n, left, e
<1>4. Len(history) \in Nat /\ DOMAIN history = 1..Len(history) /\ DOMAIN left = 1..Len(left)
  BY <1>1, <1>3, ListIs
<1>5. \A k \in DOMAIN left : \E l \in DOMAIN history : left[k] = history[l]
  <2> TAKE k \in DOMAIN left
  <2>1. k \in 1..(Len(history) - 1) /\ k \in 1..Len(history) /\ k + 1 \in 1..Len(history)
    BY <1>3, <1>4
  <2> QED
    BY <1>3, <1>4, <2>1
<1>6. \A i \in Writes(left) : \E k \in Writes(history) : left[i].of = history[k].of
  BY <1>1, <1>3, <1>5, LeftIs
<1>7. Len(left) <= Limit
  <2> DEFINE a == Len(history)
             b == Len(left)
  <2>1. a \in Nat /\ b = a - 1 /\ a <= Limit /\ Limit \in Nat
    BY <1>1, <1>3, <1>4 DEF SettingsAssumption
  <2>2. b <= Limit
    <3> HIDE DEF a, b
    <3> QED
      BY <2>1
  <2> QED
    BY <2>2
<1>8. Back \in Seq(Todo)
  <2> DEFINE w == [prop |-> e.prop, value |-> e.from]
  <2>1. w \in Todo
    BY <1>3, EntryIs DEF Todo
  <2>2. Back = <<w>>
    BY DEF Back, e
  <2> HIDE DEF w
  <2> QED
    BY <2>1, <2>2
<1> QED
  BY <1>1, <1>2, <1>3, <1>6, <1>7, <1>8 DEF left, e

(* What the last mark saw, in the order of the settings. *)
Seen == PopToMark(history).values
Touched == Sift(Order, {i \in DOMAIN Order : Order[i] \in DOMAIN Seen})
Reverted == [i \in DOMAIN Touched |-> [prop |-> Touched[i], value |-> Seen[Touched[i]]]]

LEMMA RevertIs ==
  ASSUME SettingsAssumption, TypeOK, Revert
  PROVE  /\ Marks(history) # {} /\ TakeBack("revert", PopToMark(history).list, Reverted, {})
         /\ history \in Seq(Entry)
         /\ PopToMark(history).list \in Seq(Entry) /\ Len(PopToMark(history).list) <= Limit
         /\ \A i \in Writes(PopToMark(history).list) :
              \E k \in Writes(history) : PopToMark(history).list[i].of = history[k].of
         /\ Reverted \in Seq(Todo)
         /\ \A i \in DOMAIN Reverted : Reverted[i].prop \in DOMAIN Seen /\ Reverted[i].value = Seen[Reverted[i].prop]
         /\ \A p \in DOMAIN Seen : \E i \in DOMAIN Reverted : Reverted[i].prop = p
         /\ \A i, k \in DOMAIN Reverted : Reverted[i].prop = Reverted[k].prop => i = k
<1>1. /\ history \in Seq(Entry) /\ Len(history) <= Limit /\ Marks(history) # {} /\ Limit \in Nat
      /\ Order \in Seq(Prop) /\ IsInjective(Order)
  BY DEF TypeOK, Revert, SettingsAssumption
<1>2. TakeBack("revert", PopToMark(history).list, Reverted, {})
  BY DEF Revert, Reverted, Touched, Seen
<1> DEFINE m == Newest(Marks(history))
           left == PopToMark(history).list
<1>3. /\ m \in DOMAIN history /\ m \in Nat /\ Seen = Before(history, m)
      /\ left \in Seq(Entry) /\ Len(left) = m - 1
      /\ \A k \in 1..(m - 1) : k \in DOMAIN history /\ left[k] = history[k]
  BY <1>1, PopToMarkIs DEF Seen
<1> HIDE DEF m, left
<1>4. Len(history) \in Nat /\ DOMAIN history = 1..Len(history) /\ DOMAIN left = 1..Len(left)
  BY <1>1, <1>3, ListIs
<1>5. \A k \in DOMAIN left : \E l \in DOMAIN history : left[k] = history[l]
  BY <1>3, <1>4
<1>6. \A i \in Writes(left) : \E k \in Writes(history) : left[i].of = history[k].of
  BY <1>1, <1>3, <1>5, LeftIs
<1>7. Len(left) <= Limit
  <2> DEFINE a == Len(history)
             b == Len(left)
  <2>1. a \in Nat /\ b = m - 1 /\ m \in 1..a /\ a <= Limit /\ Limit \in Nat
    BY <1>1, <1>3, <1>4
  <2>2. b <= Limit
    <3> HIDE DEF a, b
    <3> QED
      BY <2>1
  <2> QED
    BY <2>2
<1>8. \A p \in DOMAIN Seen : p \in Prop /\ Seen[p] \in Value
  BY <1>1, <1>3, BeforeIs
<1> DEFINE some == {i \in DOMAIN Order : Order[i] \in DOMAIN Seen}
<1>9. some \in SUBSET (DOMAIN Order) /\ \A i \in some : Order[i] \in DOMAIN Seen
  OBVIOUS
<1>10. \A p \in DOMAIN Seen : \E i \in some : Order[i] = p
  BY <1>8 DEF Prop, Range
<1>11. Touched = Sift(Order, some)
  BY DEF Touched
<1> HIDE DEF some
<1>12. /\ Touched \in Seq(Prop)
       /\ \A k \in DOMAIN Touched : \E i \in some : Touched[k] = Order[i]
       /\ \A i \in some : \E k \in DOMAIN Touched : Touched[k] = Order[i]
       /\ IsInjective(Touched)
  BY <1>1, <1>9, <1>11, SiftIs
<1>13. \A k \in DOMAIN Touched : Touched[k] \in DOMAIN Seen
  BY <1>9, <1>12
<1> DEFINE n == Len(Touched)
<1>14. n \in Nat /\ DOMAIN Touched = 1..n
  BY <1>12, LengthIs
<1> HIDE DEF n
<1>15. Reverted = [i \in 1..n |-> [prop |-> Touched[i], value |-> Seen[Touched[i]]]]
  BY <1>14 DEF Reverted
<1>16. \A i \in 1..n : [prop |-> Touched[i], value |-> Seen[Touched[i]]] \in Todo
  BY <1>8, <1>13, <1>14 DEF Todo
<1>17. Reverted \in Seq(Todo)
  BY <1>14, <1>15, <1>16, IsASeq
<1>18. DOMAIN Reverted = 1..n /\ \A i \in 1..n : Reverted[i].prop = Touched[i] /\ Reverted[i].value = Seen[Touched[i]]
  BY <1>15
<1>19. \A i \in DOMAIN Reverted : Reverted[i].prop \in DOMAIN Seen /\ Reverted[i].value = Seen[Reverted[i].prop]
  BY <1>13, <1>14, <1>18
<1>20. \A p \in DOMAIN Seen : \E i \in DOMAIN Reverted : Reverted[i].prop = p
  <2> TAKE p \in DOMAIN Seen
  <2>1. PICK i \in some : Order[i] = p
    BY <1>10
  <2>2. PICK k \in DOMAIN Touched : Touched[k] = p
    BY <1>12, <2>1
  <2> QED
    BY <1>14, <1>18, <2>2
<1>21. \A i, k \in DOMAIN Reverted : Reverted[i].prop = Reverted[k].prop => i = k
  BY <1>12, <1>14, <1>18 DEF IsInjective
<1> QED
  BY <1>1, <1>2, <1>3, <1>6, <1>7, <1>17, <1>19, <1>20, <1>21 DEF left

LEMMA UndoKeeps ==
  ASSUME SettingsAssumption, SettingsInv, OutageForgets, Undo
  PROVE  SettingsInv' /\ OutageForgets'
<1> DEFINE left == PopLast(history).list
           who == "undo"
<1>1. TypeOK
  BY DEF SettingsInv
<1>2. /\ TakeBack(who, left, Back, Passed) /\ left \in Seq(Entry) /\ Len(left) <= Limit
      /\ \A i \in Writes(left) : \E k \in Writes(history) : left[i].of = history[k].of
      /\ Back \in Seq(Todo) /\ who \in {"undo", "revert"}
  BY <1>1, UndoIs
<1> HIDE DEF left, who
<1> QED
  BY <1>2, TakeBackKeeps

LEMMA RevertKeeps ==
  ASSUME SettingsAssumption, SettingsInv, OutageForgets, Revert
  PROVE  SettingsInv' /\ OutageForgets'
<1> DEFINE left == PopToMark(history).list
           who == "revert"
           more == {}
<1>1. TypeOK
  BY DEF SettingsInv
<1>2. /\ TakeBack(who, left, Reverted, more) /\ left \in Seq(Entry) /\ Len(left) <= Limit
      /\ \A i \in Writes(left) : \E k \in Writes(history) : left[i].of = history[k].of
      /\ Reverted \in Seq(Todo) /\ who \in {"undo", "revert"}
  BY <1>1, RevertIs
<1> HIDE DEF left, who, more
<1> QED
  BY <1>2, TakeBackKeeps

LEMMA InitIs ==
  ASSUME SettingsAssumption, Init
  PROVE  SettingsInv /\ OutageForgets
<1>1. <<>> \in Seq(Job) /\ <<>> \in Seq(Entry) /\ DOMAIN <<>> = {} /\ Len(<<>>) = 0
  OBVIOUS
<1>2. Initially \in [Prop -> Value] /\ Limit \in Nat /\ MaxEvents \in Nat /\ Len(Order) \in Nat
  BY LengthIs DEF SettingsAssumption
<1>3. 0 \in 0..MaxEvents /\ 1 \in 1..(Len(Order) + 1) /\ 0 <= Limit
  BY <1>2
<1>4. TypeOK
  BY <1>1, <1>2, <1>3, NothingIs DEF Init, TypeOK
<1>5. QueueInv(pending, running, late, phase, conn)
  BY <1>1 DEF Init, QueueInv
<1>6. OutageForgets
  BY <1>1 DEF Init, OutageForgets, Writes
<1> QED
  BY <1>4, <1>5, <1>6 DEF SettingsInv

LEMMA NextKeeps ==
  ASSUME SettingsAssumption, SettingsInv, OutageForgets, [Next]_vars
  PROVE  SettingsInv' /\ OutageForgets'
<1>1. CASE Reach
  BY <1>1, ReachKeeps
<1>2. CASE ReachLate
  BY <1>2, ReachLateKeeps
<1>3. CASE Settle
  <2>1. PICK j \in {running, late} \ {None} :
          \/ ReadGoesOn(j) \/ ReadEnds(j) \/ FirstReadFails(j)
          \/ \E soon \in BOOLEAN : WriteAnswered(j, soon)
    BY <1>3 DEF Settle
  <2>2. CASE ReadGoesOn(j)
    BY <2>2, ReadGoesOnKeeps
  <2>3. CASE ReadEnds(j)
    BY <2>3, ReadEndsKeeps
  <2>4. CASE FirstReadFails(j)
    BY <2>4, FirstReadFailsKeeps
  <2>5. CASE \E soon \in BOOLEAN : WriteAnswered(j, soon)
    BY <2>5, WriteAnsweredKeeps
  <2> QED
    BY <2>1, <2>2, <2>3, <2>4, <2>5
<1>4. CASE TickDrops
  BY <1>4, TickDropsKeeps
<1>5. CASE Connect
  BY <1>5, ConnectKeeps
<1>6. CASE Identified
  BY <1>6, IdentifiedKeeps
<1>7. CASE Poll
  BY <1>7, PollKeeps
<1>8. CASE \E p \in Prop, v \in Value : Turn(p, v)
  BY <1>8, TurnKeeps
<1>9. CASE \E p \in Prop, v \in Value : Set(p, v)
  BY <1>9, SetKeeps
<1>10. CASE Recall
  BY <1>10, RecallKeeps
<1>11. CASE Undo
  BY <1>11, UndoKeeps
<1>12. CASE Revert
  BY <1>12, RevertKeeps
<1>13. CASE UNCHANGED vars
  <2>1. /\ actual' = actual /\ phase' = phase /\ conn' = conn /\ pending' = pending
        /\ running' = running /\ late' = late /\ values' = values /\ unavailable' = unavailable
        /\ shown' = shown /\ inflight' = inflight /\ cursor' = cursor
        /\ history' = history /\ suspended' = suspended /\ events' = events /\ slips' = slips
    BY <1>13 DEF vars, link, copies, poll, undo
  <2>2. SettingsInv'
    BY <2>1, TypesKept DEF SettingsInv, TypeOK
  <2>3. OutageForgets'
    BY <2>1, StillForgotten, StillTheHistory
  <2> QED
    BY <2>2, <2>3
<1> QED
  BY <1>1, <1>2, <1>3, <1>4, <1>5, <1>6, <1>7, <1>8, <1>9, <1>10, <1>11, <1>12, <1>13 DEF Next, AnAsk

(* Every variable has its type, the queue holds at most one first read,    *)
(* and what is late belongs to a connection given up.                      *)
THEOREM SettingsTyped ==
  Spec => []SettingsInv
<1>1. Init => SettingsInv /\ OutageForgets
  BY InitIs, SettingsAssumption
<1>2. SettingsInv /\ OutageForgets /\ [Next]_vars => SettingsInv' /\ OutageForgets'
  BY NextKeeps, SettingsAssumption
<1> QED
  BY <1>1, <1>2, PTL DEF Spec

(* Whatever connections come and go and whenever their answers come: an    *)
(* outage leaves nothing on the panel and nothing to undo (#drop), unless  *)
(* an answer came after its connection was given up.                       *)
THEOREM Forgotten ==
  Spec => []OutageForgets
<1>1. Init => SettingsInv /\ OutageForgets
  BY InitIs, SettingsAssumption
<1>2. SettingsInv /\ OutageForgets /\ [Next]_vars => SettingsInv' /\ OutageForgets'
  BY NextKeeps, SettingsAssumption
<1> QED
  BY <1>1, <1>2, PTL DEF Spec

-----------------------------------------------------------------------------
(* UNDOS AND REVERTS IN THE QUEUE *)

LEMMA AddPlain ==
  ASSUME NEW pend \in Seq(Job), NEW run, NEW susp, NEW new \in Seq(Job),
         \A i \in DOMAIN new : ~IsUndoing(new[i]), UndoInv(pend, run, susp)
  PROVE  /\ UndoInv(pend \o new, run, susp)
         /\ \A act, b : Settled(pend, run, act, b) => Settled(pend \o new, run, act, b)
<1> DEFINE all == pend \o new
<1>1. /\ \A i \in DOMAIN all : \/ i \in DOMAIN pend /\ all[i] = pend[i]
                               \/ i - Len(pend) \in DOMAIN new /\ all[i] = new[i - Len(pend)]
      /\ \A i \in DOMAIN pend : i \in DOMAIN all /\ all[i] = pend[i]
  BY NewJobs
<1> HIDE DEF all
<1>2. \A i \in DOMAIN all : IsUndoing(all[i]) => i \in DOMAIN pend /\ all[i] = pend[i]
  BY <1>1
<1>3. UndoInv(all, run, susp)
  BY <1>1, <1>2 DEF UndoInv
<1>4. ASSUME NEW act, NEW b, Settled(pend, run, act, b)
      PROVE  Settled(all, run, act, b)
  BY <1>1, <1>2, <1>4 DEF Settled
<1> QED
  BY <1>3, <1>4 DEF all

LEMMA AddOnePlain ==
  ASSUME NEW pend \in Seq(Job), NEW run, NEW susp, NEW j \in Job, ~IsUndoing(j), UndoInv(pend, run, susp)
  PROVE  /\ UndoInv(Append(pend, j), run, susp)
         /\ \A act, b : Settled(pend, run, act, b) => Settled(Append(pend, j), run, act, b)
<1> DEFINE new == <<j>>
<1>1. new \in Seq(Job) /\ \A i \in DOMAIN new : ~IsUndoing(new[i])
  OBVIOUS
<1>2. Append(pend, j) = pend \o new
  BY AppendIsConcat
<1> HIDE DEF new
<1> QED
  BY <1>1, <1>2, AddPlain

(* A read that ends, or a write that was not made, leaves no trace. *)
LEMMA EndPlain ==
  ASSUME NEW pend, NEW run, NEW susp, run # None => ~IsUndoing(run), UndoInv(pend, run, susp)
  PROVE  /\ UndoInv(pend, None, susp)
         /\ ~Unrecorded(run) => \A act, b : Settled(pend, run, act, b) => Settled(pend, None, act, b)
<1>1. UndoInv(pend, None, susp)
  BY DEF UndoInv
<1>2. ASSUME ~Unrecorded(run), NEW act, NEW b, Settled(pend, run, act, b)
      PROVE  Settled(pend, None, act, b)
  BY <1>2 DEF Settled, Unrecorded
<1> QED
  BY <1>1, <1>2

(* One undo or revert comes in where there was none. *)
LEMMA AddUndo ==
  ASSUME NEW pend \in Seq(Job), \A i \in DOMAIN pend : ~IsUndoing(pend[i]),
         NEW u \in Job, IsUndoing(u), Plain(u)
  PROVE  /\ UndoInv(Append(pend, u), None, TRUE)
         /\ \A act, b : Makes(u, act, b) => Settled(Append(pend, u), None, act, b)
<1> DEFINE n   == Len(pend)
           all == Append(pend, u)
<1>1. n \in Nat /\ DOMAIN pend = 1..n
  BY LengthIs
<1>2. DOMAIN all = 1..(n + 1) /\ all[n + 1] = u /\ \A i \in 1..n : all[i] = pend[i]
  <2>1. all \in Seq(Job) /\ Len(all) = n + 1 /\ all[n + 1] = u /\ \A i \in 1..n : all[i] = pend[i]
    BY AppendProperties
  <2> HIDE DEF all, n
  <2> QED
    BY <2>1, LenProperties
<1> HIDE DEF n, all
<1>3. \A i \in DOMAIN all : IsUndoing(all[i]) => i = n + 1
  BY <1>1, <1>2
<1>4. n + 1 \in DOMAIN all
  BY <1>1, <1>2
<1>5. UndoInv(all, None, TRUE)
  BY <1>2, <1>3, <1>4 DEF UndoInv
<1>6. ASSUME NEW act, NEW b, Makes(u, act, b)
      PROVE  Settled(all, None, act, b)
  BY <1>2, <1>3, <1>4, <1>6 DEF Settled, Unrecorded
<1> QED
  BY <1>5, <1>6 DEF all

(* A waiting job runs. *)
LEMMA StartPlain ==
  ASSUME NEW pend \in Seq(Job), NEW susp, NEW i \in DOMAIN pend, NEW j \in Job, j # None,
         j.kind = pend[i].kind, j.who = pend[i].who, j.prop = pend[i].prop, j.rest = pend[i].rest,
         UndoInv(pend, None, susp)
  PROVE  /\ UndoInv(RemoveAt(pend, i), j, susp)
         /\ \A k \in DOMAIN RemoveAt(pend, i) : \E l \in DOMAIN pend : RemoveAt(pend, i)[k] = pend[l]
         /\ \A l \in DOMAIN pend : l # i => \E k \in DOMAIN RemoveAt(pend, i) : RemoveAt(pend, i)[k] = pend[l]
<1> DEFINE n    == Len(pend)
           left == RemoveAt(pend, i)
<1>0. Len(pend) \in Nat /\ DOMAIN pend = 1..Len(pend)
  BY LengthIs
<1>1. /\ left \in Seq(Job) /\ DOMAIN left = 1..(n - 1)
      /\ \A k \in 1..(n - 1) : left[k] = IF k < i THEN pend[k] ELSE pend[k + 1]
  BY RemoveAtIs
<1>2. n \in Nat /\ DOMAIN pend = 1..n
  BY <1>0
<1> HIDE DEF n, left
<1> DEFINE at(k) == IF k < i THEN k ELSE k + 1
           to(l) == IF l < i THEN l ELSE l - 1
<1>3. \A k \in DOMAIN left : at(k) \in DOMAIN pend /\ at(k) # i /\ left[k] = pend[at(k)]
  BY <1>1, <1>2
<1>4. \A k, l \in DOMAIN left : at(k) = at(l) => k = l
  BY <1>1, <1>2
<1>5. \A l \in DOMAIN pend : l # i => to(l) \in DOMAIN left /\ at(to(l)) = l
  BY <1>1, <1>2
<1>6. IsUndoing(j) <=> IsUndoing(pend[i])
  BY DEF IsUndoing
<1>7. Plain(j) <=> Plain(pend[i])
  BY DEF Plain
<1> HIDE DEF at, to
<1>8. \A l \in DOMAIN pend : l # i => \E k \in DOMAIN left : left[k] = pend[l]
  BY <1>3, <1>5
<1>9. susp <=> \/ IsUndoing(j)
               \/ \E k \in DOMAIN left : IsUndoing(left[k])
  <2>1. susp <=> \E l \in DOMAIN pend : IsUndoing(pend[l])
    BY DEF UndoInv
  <2>2. ASSUME NEW l \in DOMAIN pend, IsUndoing(pend[l])
        PROVE  IsUndoing(j) \/ \E k \in DOMAIN left : IsUndoing(left[k])
    BY <1>6, <1>8, <2>2
  <2>3. IsUndoing(j) => \E l \in DOMAIN pend : IsUndoing(pend[l])
    BY <1>6
  <2>4. (\E k \in DOMAIN left : IsUndoing(left[k])) => \E l \in DOMAIN pend : IsUndoing(pend[l])
    BY <1>3
  <2> QED
    BY <2>1, <2>2, <2>3, <2>4
<1>10. IsUndoing(j) => Plain(j) /\ \A k \in DOMAIN left : ~IsUndoing(left[k])
  BY <1>3, <1>6, <1>7 DEF UndoInv
<1>11. \A k \in DOMAIN left : IsUndoing(left[k]) =>
         Plain(left[k]) /\ \A l \in DOMAIN left : IsUndoing(left[l]) => l = k
  BY <1>3, <1>4 DEF UndoInv
<1>12. UndoInv(left, j, susp)
  BY <1>9, <1>10, <1>11 DEF UndoInv
<1>13. \A k \in DOMAIN left : \E l \in DOMAIN pend : left[k] = pend[l]
  BY <1>3
<1> QED
  BY <1>8, <1>12, <1>13 DEF left

-----------------------------------------------------------------------------
(* WHERE THE HISTORY LEADS, ACTION BY ACTION *)

(* What LeadInv says while nothing has slipped. *)
LeadNow ==
  /\ UndoInv(pending, running, suspended)
  /\ running # None /\ IsMade(running) =>
       actual = [running.was EXCEPT ![running.prop] = running.value]
  /\ ~(Unrecorded(running) /\ suspended) =>
       \E b \in [Prop -> Value] : Settled(pending, running, actual, b) /\ Leads(history, b)

LEMMA LeadIs ==
  ASSUME LeadInv, Kept
  PROVE  LeadNow
  BY DEF LeadInv, LeadNow

LEMMA LeadBy ==
  ASSUME Kept' => LeadNow'
  PROVE  LeadInv'
  BY DEF LeadInv, LeadNow

LEMMA KeptIs ==
  ASSUME slips \subseteq slips', Kept', late = late' \/ late = None \/ late.kind # "write"
  PROVE  Kept
  BY DEF Kept

LEMMA LeadSame ==
  ASSUME LeadInv, slips \subseteq slips',
         late = late' \/ late = None \/ late.kind # "write",
         pending' = pending, running' = running, suspended' = suspended, actual' = actual,
         history' = history
  PROVE  LeadInv'
<1> SUFFICES ASSUME Kept'
             PROVE  LeadNow'
  BY LeadBy
<1>1. LeadNow
  BY KeptIs, LeadIs
<1> QED
  BY <1>1 DEF LeadNow

(* Jobs that are no undo come in, and a read may have gone. *)
LEMMA LeadAdd ==
  ASSUME LeadInv, slips \subseteq slips', late = late' \/ late = None \/ late.kind # "write",
         pending \in Seq(Job), NEW new \in Seq(Job), \A i \in DOMAIN new : ~IsUndoing(new[i]),
         pending' = pending \o new \/ pending' = pending,
         running' = running \/ (running' = None /\ running.kind = "read"),
         suspended' = suspended, actual' = actual, history' = history
  PROVE  LeadInv'
<1> SUFFICES ASSUME Kept'
             PROVE  LeadNow'
  BY LeadBy
<1>1. LeadNow
  BY KeptIs, LeadIs
<1>2. CASE running' = running
  <2>1. UndoInv(pending', running', suspended')
    <3>1. UndoInv(pending, running, suspended)
      BY <1>1 DEF LeadNow
    <3>2. UndoInv(pending \o new, running, suspended)
      BY <3>1, AddPlain
    <3> QED
      BY <1>2, <3>1, <3>2
  <2>2. \A b : Settled(pending, running, actual, b) => Settled(pending', running', actual', b)
    <3>1. CASE pending' = pending \o new
      BY <1>1, <1>2, <3>1, AddPlain DEF LeadNow
    <3>2. CASE pending' = pending
      BY <1>2, <3>2
    <3> QED
      BY <3>1, <3>2
  <2>3. ~(Unrecorded(running') /\ suspended') =>
          \E b \in [Prop -> Value] : Settled(pending', running', actual', b) /\ Leads(history', b)
    BY <1>1, <1>2, <2>2 DEF LeadNow
  <2>4. running' # None /\ IsMade(running') =>
          actual' = [running'.was EXCEPT ![running'.prop] = running'.value]
    BY <1>1, <1>2 DEF LeadNow
  <2> QED
    BY <2>1, <2>3, <2>4 DEF LeadNow
<1>3. CASE running' = None /\ running.kind = "read"
  <2>1. ~IsUndoing(running) /\ ~Unrecorded(running) /\ ~Unrecorded(None)
    BY <1>3 DEF IsUndoing, Unrecorded, IsMade
  <2>2. UndoInv(pending, None, suspended)
    BY <1>1, <2>1, EndPlain DEF LeadNow
  <2>3. UndoInv(pending', None, suspended)
    BY <2>2, AddPlain
  <2>4. \A b : Settled(pending, running, actual, b) => Settled(pending, None, actual, b)
    BY <1>1, <2>1, EndPlain DEF LeadNow
  <2>5. \A b : Settled(pending, None, actual, b) => Settled(pending', None, actual, b)
    <3>1. CASE pending' = pending \o new
      BY <2>2, <3>1, AddPlain
    <3>2. CASE pending' = pending
      BY <3>2
    <3> QED
      BY <3>1, <3>2
  <2>6. \E b \in [Prop -> Value] : Settled(pending', None, actual, b) /\ Leads(history, b)
    BY <1>1, <2>1, <2>4, <2>5 DEF LeadNow
  <2> QED
    BY <1>3, <2>3, <2>6 DEF LeadNow
<1> QED
  BY <1>2, <1>3

LEMMA ReachLeads ==
  ASSUME SettingsAssumption, SettingsInv, LeadInv, Reach
  PROVE  LeadInv'
<1> SUFFICES ASSUME Kept'
             PROVE  LeadNow'
  BY LeadBy
<1>1. /\ TypeOK /\ QueueInv(pending, None, late, phase, conn) /\ pending \in Seq(Job)
      /\ running = None /\ None \notin Job /\ actual \in [Prop -> Value]
  BY DEF SettingsInv, Reach, QueueInv, TypeOK, SettingsAssumption
<1> DEFINE i == Foremost
           j == pending[i]
<1>2. i \in DOMAIN pending
  BY <1>1, ForemostIn DEF Reach
<1> HIDE DEF i
<1>3. j \in Job /\ j.stage = "sent" /\ Fine(j, conn)
  <2>1. j \in Job
    BY <1>1, <1>2, LengthIs
  <2> QED
    BY <1>1, <1>2, <2>1 DEF QueueInv
<1>4. PICK o \in Outcomes(j) : Meets(o) /\ running' = o.job
  BY DEF Reach, i
<1>5. /\ pending' = RemoveAt(pending, i) /\ late' = late /\ actual' = o.actual /\ Slip(o.slip)
      /\ history' = history /\ suspended' = suspended
  BY <1>4 DEF Reach, i, Meets, undo
<1> DEFINE r == o.job
<1>6. /\ r \in Job /\ r.stage # "sent"
      /\ r.kind = j.kind /\ r.who = j.who /\ r.prop = j.prop /\ r.rest = j.rest
      /\ o.actual \in [Prop -> Value]
      /\ j.kind = "read" => o.actual = actual
      /\ j.kind = "write" =>
           /\ r.value = j.value
           /\ r.stage = "done" => o.actual = [actual EXCEPT ![j.prop] = j.value] /\ r.was = actual
           /\ r.stage # "done" => o.actual = actual \/ o.slip = {"unheard"}
  <2> HIDE DEF j
  <2> QED
    BY <1>1, <1>3, OutcomeIs
<1>7. Kept /\ o.slip \subseteq {"lateRead"}
  <2>1. slips \subseteq slips' /\ o.slip \subseteq {"lateRead"}
    BY <1>5, SlipIs DEF Kept
  <2> QED
    BY <1>5, <2>1, KeptIs
<1>8. LeadNow
  BY <1>7, LeadIs
<1>9. j.kind = "write" /\ r.stage # "done" => o.actual = actual
  <2>1. o.slip # {"unheard"}
    BY <1>7
  <2> QED
    BY <1>6, <2>1
<1>10. ~Unrecorded(running)
  BY <1>1 DEF Unrecorded
<1>11. PICK b \in [Prop -> Value] : Settled(pending, running, actual, b) /\ Leads(history, b)
  BY <1>8, <1>10 DEF LeadNow
<1> HIDE DEF r
<1>12. /\ UndoInv(pending', r, suspended) /\ r # None
       /\ \A k \in DOMAIN pending' : \E l \in DOMAIN pending : pending'[k] = pending[l]
       /\ \A l \in DOMAIN pending : l # i => \E k \in DOMAIN pending' : pending'[k] = pending[l]
  <2>1. r # None /\ UndoInv(pending, None, suspended)
    BY <1>1, <1>6, <1>8 DEF LeadNow
  <2> QED
    BY <1>1, <1>2, <1>5, <1>6, <2>1, StartPlain
<1>13. /\ IsMade(r) => r.was = actual /\ actual' = [actual EXCEPT ![r.prop] = r.value]
       /\ ~IsMade(r) => actual' = actual
       /\ IsUndoing(r) <=> IsUndoing(j)
  <2>1. j.kind \in {"read", "write"}
    BY <1>3, JobIs
  <2> HIDE DEF j
  <2> QED
    BY <1>5, <1>6, <1>9, <2>1 DEF IsMade, IsUndoing
<1>14. ASSUME ~(Unrecorded(r) /\ suspended)
       PROVE  Settled(pending', r, actual', b)
  <2>1. CASE Unrecorded(r)
    <3>1. ~suspended
      BY <1>14, <2>1
    <3>2. \A k \in DOMAIN pending : ~IsUndoing(pending[k])
      BY <1>8, <3>1 DEF LeadNow, UndoInv
    <3>3. b = actual
      BY <1>1, <1>10, <1>11, <3>2 DEF Settled
    <3> QED
      BY <1>13, <2>1, <3>3 DEF Settled, Unrecorded
  <2>2. CASE ~Unrecorded(r) /\ IsUndoing(r)
    <3>1. Makes(j, actual, b)
      BY <1>1, <1>2, <1>10, <1>11, <1>13, <2>2 DEF Settled
    <3>2. Makes(r, actual', b)
      <4>1. j.kind = "write" /\ j.prop \in Prop
        BY <1>3, <1>13, <2>2, JobIs DEF IsUndoing
      <4> DEFINE own == [prop |-> j.prop, value |-> j.value]
                 rest == Range(j.rest)
      <4>2. Owed(j) = {own} \cup rest
        BY <1>3 DEF Owed
      <4>3. own.prop = j.prop /\ own.value = j.value
        OBVIOUS
      <4>4. CASE r.stage = "done"
        <5>1. Owed(r) = rest
          BY <1>6, <4>4 DEF Owed
        <5>2. actual' = [actual EXCEPT ![j.prop] = j.value]
          BY <1>5, <1>6, <4>1, <4>4
        <5> HIDE DEF own, rest, j
        <5>3. ASSUME NEW p \in Prop
              PROVE  /\ \A w \in rest : w.prop = p => b[p] = w.value
                     /\ (\A w \in rest : w.prop # p) => b[p] = actual'[p]
          <6>1. \A w \in rest : w.prop = p => b[p] = w.value
            BY <3>1, <4>2 DEF Makes
          <6>2. ASSUME \A w \in rest : w.prop # p
                PROVE  b[p] = actual'[p]
            <7>1. CASE p = j.prop
              <8>1. b[p] = j.value
                BY <3>1, <4>2, <4>3, <7>1 DEF Makes
              <8> QED
                BY <1>1, <5>2, <7>1, <8>1
            <7>2. CASE p # j.prop
              <8>1. \A w \in Owed(j) : w.prop # p
                BY <4>2, <4>3, <6>2, <7>2
              <8>2. b[p] = actual[p]
                BY <3>1, <8>1 DEF Makes
              <8> QED
                BY <1>1, <5>2, <7>2, <8>2
            <7> QED
              BY <7>1, <7>2
          <6> QED
            BY <6>1, <6>2
        <5> QED
          BY <5>1, <5>3 DEF Makes
      <4>5. CASE r.stage # "done"
        <5>1. Owed(r) = Owed(j)
          BY <1>3, <1>6, <4>1, <4>5 DEF Owed
        <5>2. actual' = actual
          BY <1>5, <1>9, <4>1, <4>5
        <5> HIDE DEF j
        <5> QED
          BY <3>1, <5>1, <5>2 DEF Makes
      <4> QED
        BY <4>4, <4>5
    <3>3. \A k \in DOMAIN pending' : ~IsUndoing(pending'[k])
      BY <1>12, <2>2 DEF UndoInv
    <3> QED
      BY <1>12, <2>2, <3>2, <3>3 DEF Settled
  <2>3. CASE ~Unrecorded(r) /\ ~IsUndoing(r)
    <3>1. actual' = actual
      BY <1>12, <1>13, <2>3 DEF Unrecorded
    <3>2. \A k \in DOMAIN pending' : IsUndoing(pending'[k]) => Makes(pending'[k], actual, b)
      BY <1>10, <1>11, <1>12 DEF Settled
    <3>3. (\A k \in DOMAIN pending' : ~IsUndoing(pending'[k])) => b = actual
      <4> SUFFICES ASSUME \A k \in DOMAIN pending' : ~IsUndoing(pending'[k])
                   PROVE  b = actual
        OBVIOUS
      <4>1. ~IsUndoing(pending[i])
        BY <1>13, <2>3
      <4>2. \A l \in DOMAIN pending : ~IsUndoing(pending[l])
        BY <1>12, <4>1
      <4> QED
        BY <1>1, <1>10, <1>11, <4>2 DEF Settled
    <3> QED
      BY <2>3, <3>1, <3>2, <3>3 DEF Settled
  <2> QED
    BY <2>1, <2>2, <2>3
<1>15. running' = r
  BY <1>4 DEF r
<1>16. UndoInv(pending', running', suspended')
  BY <1>5, <1>12, <1>15
<1>17. running' # None /\ IsMade(running') =>
         actual' = [running'.was EXCEPT ![running'.prop] = running'.value]
  BY <1>13, <1>15
<1>18. ~(Unrecorded(running') /\ suspended') =>
         \E c \in [Prop -> Value] : Settled(pending', running', actual', c) /\ Leads(history', c)
  BY <1>5, <1>11, <1>14, <1>15
<1> QED
  BY <1>16, <1>17, <1>18 DEF LeadNow

LEMMA ReachLateLeads ==
  ASSUME SettingsAssumption, SettingsInv, LeadInv, ReachLate
  PROVE  LeadInv'
<1> SUFFICES ASSUME Kept'
             PROVE  LeadNow'
  BY LeadBy
<1>1. /\ QueueInv(pending, running, late, phase, conn) /\ late # None /\ late.stage = "sent"
      /\ None \notin Job /\ actual \in [Prop -> Value]
  BY DEF SettingsInv, ReachLate, SettingsAssumption, TypeOK
<1>2. late \in Job /\ Fine(late, conn)
  BY <1>1 DEF QueueInv
<1>3. PICK o \in Outcomes(late) : Meets(o) /\ late' = o.job
  BY DEF ReachLate
<1>4. /\ pending' = pending /\ running' = running /\ actual' = o.actual /\ Slip(o.slip)
      /\ history' = history /\ suspended' = suspended
  BY <1>3 DEF ReachLate, Meets, undo
<1>5. o.job \in Job /\ o.job.kind = late.kind /\ (late.kind = "read" => o.actual = actual)
  BY <1>1, <1>2, OutcomeIs
<1>6. late.kind # "write"
  <2>1. late' # None /\ late'.kind = late.kind
    BY <1>1, <1>3, <1>5
  <2> QED
    BY <2>1 DEF Kept
<1>7. actual' = actual
  BY <1>2, <1>4, <1>5, <1>6, JobIs
<1>8. slips \subseteq slips'
  BY <1>4, SlipIs
<1>9. LeadInv'
  BY <1>4, <1>6, <1>7, <1>8, LeadSame
<1> QED
  BY <1>9 DEF LeadInv, LeadNow

(* A read goes on with another, or ends. *)
LEMMA ReadGoesOnLeads ==
  ASSUME SettingsInv, LeadInv, NEW j \in {running, late} \ {None}, ReadGoesOn(j)
  PROVE  LeadInv'
<1>1. /\ QueueInv(pending, running, late, phase, conn) /\ Gone(j) /\ j.kind = "read" /\ j.rest # <<>>
      /\ conn \in Nat
  BY DEF SettingsInv, ReadGoesOn, TypeOK
<1>2. actual' = actual /\ history' = history /\ suspended' = suspended /\ slips' = slips
  BY DEF ReadGoesOn, undo
<1> DEFINE r == Read(j.who, j.rest)
           n == [r EXCEPT !.of = j.of]
<1>3. pending' = Append(pending, n)
  BY DEF ReadGoesOn
<1>4. /\ j \in Job
      /\ \/ running # None /\ j = running /\ running' = None /\ late' = late
         \/ late # None /\ j = late /\ late' = None /\ running' = running
  BY <1>1, GoneIs
<1>5. r \in ReadJob /\ j.of \in Nat
  <2>1. j.who \in {"first", "poll", "reread"} /\ j.rest \in Seq(Prop) /\ j.of \in Nat
    BY <1>1, <1>4, JobIs
  <2>2. \A who \in {"first", "poll", "reread"}, props \in Seq(Prop) : props # <<>> =>
          Read(who, props) \in Job /\ Read(who, props).kind = "read"
    BY <1>1, ReadIs
  <2>3. r \in Job /\ r.kind = "read"
    BY <1>1, <2>1, <2>2
  <2> HIDE DEF r
  <2> QED
    BY <2>1, <2>3, JobIs
<1> HIDE DEF r
<1>6. n \in Job /\ n.kind = "read"
  BY <1>5 DEF ReadJob, Job
<1> HIDE DEF n
<1>7. /\ <<n>> \in Seq(Job) /\ \A i \in DOMAIN <<n>> : ~IsUndoing(<<n>>[i])
      /\ pending \in Seq(Job) /\ pending' = pending \o <<n>>
  <2>1. pending \in Seq(Job)
    BY <1>1 DEF QueueInv
  <2>2. <<n>> \in Seq(Job) /\ DOMAIN <<n>> = {1} /\ <<n>>[1] = n
    BY <1>6
  <2>3. ~IsUndoing(n)
    BY <1>6 DEF IsUndoing
  <2>4. pending' = pending \o <<n>>
    BY <1>3, <1>6, <2>1, AppendIsConcat
  <2> QED
    BY <2>1, <2>2, <2>3, <2>4
<1>8. /\ late = late' \/ late = None \/ late.kind # "write"
      /\ running' = running \/ (running' = None /\ running.kind = "read")
  BY <1>1, <1>4
<1> DEFINE new == <<n>>
<1> HIDE DEF new
<1>9. /\ new \in Seq(Job) /\ \A i \in DOMAIN new : ~IsUndoing(new[i])
      /\ pending \in Seq(Job) /\ pending' = pending \o new
  BY <1>7 DEF new
<1> QED
  BY <1>2, <1>8, <1>9, LeadAdd

LEMMA ReadEndsLeads ==
  ASSUME SettingsInv, LeadInv, NEW j \in {running, late} \ {None}, ReadEnds(j)
  PROVE  LeadInv'
<1>1. QueueInv(pending, running, late, phase, conn) /\ Gone(j) /\ j.kind = "read" /\ pending \in Seq(Job)
  BY DEF SettingsInv, ReadEnds, QueueInv
<1>2. actual' = actual /\ history' = history /\ suspended' = suspended /\ pending' = pending
  BY DEF ReadEnds, undo
<1>3. slips \subseteq slips'
  BY SlipIs DEF ReadEnds
<1>4. \/ running # None /\ j = running /\ running' = None /\ late' = late
      \/ late # None /\ j = late /\ late' = None /\ running' = running
  BY <1>1, GoneIs
<1>5. /\ late = late' \/ late = None \/ late.kind # "write"
      /\ running' = running \/ (running' = None /\ running.kind = "read")
  BY <1>1, <1>4
<1>6. <<>> \in Seq(Job) /\ DOMAIN <<>> = {}
  OBVIOUS
<1> DEFINE new == <<>>
<1>7. new \in Seq(Job) /\ \A i \in DOMAIN new : ~IsUndoing(new[i])
  BY <1>6
<1> HIDE DEF new
<1> QED
  BY <1>1, <1>2, <1>3, <1>5, <1>7, LeadAdd

(* A closed queue: what it leaves on the wire is no undo. *)
LEMMA DropLeads ==
  ASSUME SettingsAssumption, SettingsInv, LeadInv, slips' = slips, actual' = actual, running' = None, Drop,
         late = late' \/ late = None,
         \/ running # None /\ late' = running
         \/ running # None /\ running.kind = "read" /\ late' = late
         \/ running = None /\ late' = None
         \/ running = None /\ late' # None /\ \E i \in DOMAIN pending : late' = pending[i]
  PROVE  LeadInv'
<1> SUFFICES ASSUME Kept'
             PROVE  LeadNow'
  BY LeadBy
<1>1. pending' = <<>> /\ history' = <<>> /\ DOMAIN <<>> = {}
  BY DEF Drop
<1>2. LeadNow
  BY KeptIs, LeadIs
<1>3. late' # None => late'.kind # "write"
  BY DEF Kept
<1>4. running # None => ~IsUndoing(running)
  BY <1>3 DEF IsUndoing
<1>5. suspended' = FALSE
  <2>1. suspended \in BOOLEAN /\ QueueInv(pending, running, late, phase, conn)
    BY DEF SettingsInv, TypeOK
  <2>2. CASE suspended
    <3>1. PICK i \in DOMAIN pending : IsUndoing(pending[i])
      BY <1>2, <1>4, <2>2 DEF LeadNow, UndoInv
    <3>2. pending[i] \in Undoing
      BY <2>1, <3>1, JobsAre DEF Undoing, OpenWrites, IsUndoing
    <3>3. late' # pending[i]
      <4>1. pending[i] # None
        BY <2>1, <3>1, JobsAre
      <4>2. pending[i].kind = "write"
        BY <3>1 DEF IsUndoing
      <4> QED
        BY <1>3, <4>1, <4>2
    <3> QED
      BY <3>2, <3>3 DEF Drop
  <2>3. CASE ~suspended
    BY <2>3 DEF Drop
  <2> QED
    BY <2>1, <2>2, <2>3
<1>6. UndoInv(pending', running', suspended')
  BY <1>1, <1>5 DEF UndoInv
<1>7. actual \in [Prop -> Value]
  BY DEF SettingsInv, TypeOK
<1>8. Settled(pending', running', actual', actual)
  BY <1>1 DEF Settled, Unrecorded
<1>9. Leads(history', actual)
  BY <1>1 DEF Leads
<1> QED
  BY <1>6, <1>7, <1>8, <1>9 DEF LeadNow

LEMMA FirstReadFailsLeads ==
  ASSUME SettingsAssumption, SettingsInv, LeadInv, NEW j \in {running, late} \ {None}, FirstReadFails(j)
  PROVE  LeadInv'
<1>1. running # None /\ running.kind = "read" /\ running' = None /\ late' = late
  BY FirstReadFailsIs DEF IsFirst
<1>2. slips' = slips /\ actual' = actual /\ Drop
  BY DEF FirstReadFails
<1> QED
  BY <1>1, <1>2, DropLeads

LEMMA TickDropsLeads ==
  ASSUME SettingsAssumption, SettingsInv, LeadInv, TickDrops
  PROVE  LeadInv'
<1>1. /\ late = None /\ running' = None
      /\ \/ running # None /\ late' = running
         \/ running = None /\ late' = None
         \/ running = None /\ \E i \in DOMAIN pending : late' = pending[i]
  BY TickDropsIs
<1>2. slips' = slips /\ actual' = actual /\ Drop
  BY DEF TickDrops
<1> QED
  BY <1>1, <1>2, DropLeads

(* A job that is no undo comes in. *)
LEMMA LeadOne ==
  ASSUME LeadInv, slips' = slips, late' = late, running' = running, suspended' = suspended,
         actual' = actual, history' = history, SettingsInv, SettingsInv',
         NEW j, pending' = Append(pending, j), ~IsUndoing(j)
  PROVE  LeadInv'
<1>1. pending \in Seq(Job) /\ pending' \in Seq(Job)
  BY DEF SettingsInv, TypeOK
<1> DEFINE S == Job \cup {j}
           n == Len(pending)
<1>2. pending \in Seq(S) /\ j \in S
  BY <1>1
<1> HIDE DEF S
<1>3. Append(pending, j)[Len(pending) + 1] = j /\ Len(Append(pending, j)) = Len(pending) + 1
  BY <1>2, AppendProperties
<1>4. n \in Nat
  BY <1>1, LengthIs
<1> HIDE DEF n
<1>5. n + 1 \in DOMAIN pending'
  <2>1. Len(pending') = n + 1 /\ DOMAIN pending' = 1..Len(pending')
    BY <1>1, <1>3, LengthIs DEF n
  <2> QED
    BY <1>4, <2>1
<1>6. j \in Job
  BY <1>1, <1>3, <1>5, LengthIs DEF n
<1> DEFINE new == <<j>>
<1>7. new \in Seq(Job) /\ \A i \in DOMAIN new : ~IsUndoing(new[i])
  BY <1>6
<1>8. pending' = pending \o new
  BY <1>1, <1>6, AppendIsConcat
<1> HIDE DEF new
<1> QED
  BY <1>1, <1>7, <1>8, LeadAdd

LEMMA ConnectLeads ==
  ASSUME LeadInv, Connect
  PROVE  LeadInv'
<1>1. /\ pending' = pending /\ running' = running /\ late' = late /\ suspended' = suspended
      /\ actual' = actual /\ history' = history /\ slips' = slips
  BY DEF Connect, undo
<1> QED
  BY <1>1, LeadSame

LEMMA IdentifiedLeads ==
  ASSUME SettingsInv, SettingsInv', LeadInv, Identified
  PROVE  LeadInv'
<1> DEFINE r == Read("first", Order)
<1>1. /\ pending' = Append(pending, r) /\ running' = running /\ late' = late /\ suspended' = suspended
      /\ actual' = actual /\ history' = history /\ slips' = slips
  BY DEF Identified, undo
<1>2. ~IsUndoing(r)
  BY DEF IsUndoing, Read
<1> HIDE DEF r
<1> QED
  BY <1>1, <1>2, LeadOne

LEMMA PollLeads ==
  ASSUME SettingsInv, SettingsInv', LeadInv, Poll
  PROVE  LeadInv'
<1> DEFINE list == Sift(Order, {i \in DOMAIN Order : Order[i] \notin unavailable})
           at   == IF cursor > Len(list) THEN 1 ELSE cursor
           r    == Read("poll", <<list[at]>>)
<1>1. /\ pending' = Append(pending, r) /\ running' = running /\ late' = late /\ suspended' = suspended
      /\ actual' = actual /\ history' = history /\ slips' = slips
  BY DEF Poll, undo
<1>2. ~IsUndoing(r)
  BY DEF IsUndoing, Read
<1> HIDE DEF r
<1> QED
  BY <1>1, <1>2, LeadOne

LEMMA SetLeads ==
  ASSUME SettingsAssumption, SettingsInv, SettingsInv', LeadInv, NEW p \in Prop, NEW v \in Value, Set(p, v)
  PROVE  LeadInv'
<1> DEFINE j == Write("set", p, v, shown[p], <<>>)
<1>1. pending' = Append(pending, j) /\ j.who = "set"
  BY SetIs
<1>2. suspended' = suspended /\ history' = history /\ slips' = slips
  BY DEF Set, undo
<1>3. actual' = actual /\ running' = running /\ late' = late
  BY DEF Set, Asks
<1>4. ~IsUndoing(j)
  BY <1>1 DEF IsUndoing
<1> HIDE DEF j
<1> QED
  BY <1>1, <1>2, <1>3, <1>4, LeadOne

(* A camera set elsewhere takes the history's promise. *)
LEMMA TurnLeads ==
  ASSUME NEW p \in Prop, NEW v \in Value, Turn(p, v)
  PROVE  LeadInv'
<1>1. Slip({"outside"})
  BY DEF Turn
<1>2. ~(slips' \subseteq {"lateRead"})
  <2>1. slips' \subseteq {"lateRead"} => {"outside"} \subseteq {"lateRead"}
    BY <1>1, SlipIs
  <2> QED
    BY <2>1
<1> QED
  BY <1>2 DEF LeadInv, Kept

(* While no write is open, the history leads from what the camera is. *)
LEMMA QuietLeads ==
  ASSUME SettingsAssumption, SettingsInv, LeadInv, Kept, OpenWrites = {}
  PROVE  /\ Leads(history, actual) /\ suspended = FALSE
         /\ running # None => running.kind = "read"
         /\ \A i \in DOMAIN pending : ~IsUndoing(pending[i])
<1>1. LeadNow /\ QueueInv(pending, running, late, phase, conn) /\ suspended \in BOOLEAN
  BY LeadIs DEF SettingsInv, TypeOK
<1>2. \A j \in Jobs : j \in Job /\ j.kind # "write"
  BY <1>1, JobsAre DEF OpenWrites
<1>3. running # None => running.kind = "read"
  BY <1>1, <1>2, JobsAre, JobIs
<1>4. \A i \in DOMAIN pending : ~IsUndoing(pending[i])
  BY <1>1, <1>2, JobsAre DEF IsUndoing
<1>5. ~Unrecorded(running) /\ ~(running # None /\ IsUndoing(running))
  BY <1>3 DEF Unrecorded, IsMade, IsUndoing
<1>6. suspended = FALSE
  BY <1>1, <1>4, <1>5 DEF LeadNow, UndoInv
<1>7. PICK b \in [Prop -> Value] : Settled(pending, running, actual, b) /\ Leads(history, b)
  BY <1>1, <1>5 DEF LeadNow
<1>8. b = actual
  BY <1>4, <1>5, <1>7 DEF Settled
<1> QED
  BY <1>3, <1>4, <1>6, <1>7, <1>8

LEMMA RecallLeads ==
  ASSUME SettingsAssumption, SettingsInv, LeadInv, Recall
  PROVE  LeadInv'
<1> SUFFICES ASSUME Kept'
             PROVE  LeadNow'
  BY LeadBy
<1>1. TypeOK /\ pending \in Seq(Job) /\ history \in Seq(Entry) /\ Len(history) <= Limit
  BY DEF SettingsInv, TypeOK
<1>2. /\ Asks /\ history' = Push(history, Mark) /\ suspended' = suspended /\ Slip(Crossing)
      /\ pending' = IF ~Connected THEN pending ELSE pending \o Recalled
  BY RecallIs
<1>3. actual' = actual /\ running' = running /\ late' = late
  BY <1>2 DEF Asks
<1>4. Kept /\ OpenWrites = {}
  <2>1. slips \subseteq slips' /\ Crossing \subseteq {"lateRead"}
    BY <1>2, SlipIs DEF Kept
  <2>2. OpenWrites = {}
    BY <2>1 DEF Crossing, When
  <2> QED
    BY <1>3, <2>1, <2>2, KeptIs
<1>5. /\ Leads(history, actual) /\ suspended = FALSE
      /\ running # None => running.kind = "read"
      /\ \A i \in DOMAIN pending : ~IsUndoing(pending[i])
  BY <1>4, QuietLeads
<1>6. /\ Recalled \in Seq(Job) /\ \A i \in DOMAIN Recalled : ~IsUndoing(Recalled[i])
  BY <1>1, RecalledIs DEF IsUndoing
<1>7. UndoInv(pending, running, suspended)
  BY <1>4, LeadIs DEF LeadNow
<1>8. ~Unrecorded(running)
  BY <1>5 DEF Unrecorded, IsMade
<1>9. Settled(pending, running, actual, actual)
  BY <1>5, <1>8 DEF Settled, IsUndoing
<1>10. UndoInv(pending', running, suspended) /\ Settled(pending', running, actual, actual)
  <2>1. UndoInv(pending \o Recalled, running, suspended) /\ Settled(pending \o Recalled, running, actual, actual)
    BY <1>1, <1>6, <1>7, <1>9, AddPlain
  <2> QED
    BY <1>2, <1>7, <1>9, <2>1
<1>11. Leads(history', actual)
  <2>1. Mark \in Entry /\ Mark.kind = "mark" /\ Mark.was = actual
    BY <1>1, MarkIs
  <2>2. Leads(history, Mark.was)
    BY <1>5, <2>1
  <2> DEFINE e == Mark
  <2> HIDE DEF e
  <2>3. Leads(Push(history, e), actual)
    BY <1>1, <2>1, <2>2, LeadPush DEF e
  <2> QED
    BY <1>2, <2>3 DEF e
<1>12. actual \in [Prop -> Value]
  BY <1>1 DEF TypeOK
<1>13. running' # None => ~IsMade(running')
  BY <1>3, <1>5 DEF IsMade
<1> QED
  BY <1>2, <1>3, <1>10, <1>11, <1>12, <1>13 DEF LeadNow

(* A list of what to put back is what the first undo of it owes. *)
LEMMA UndoesOwed ==
  ASSUME NEW todo \in Seq(Todo), NEW who \in {"undo", "revert"}, conn \in Nat,
         shown \in [Prop -> Value \cup {None}], Askable(todo) = todo, todo # <<>>,
         \A i, k \in DOMAIN todo : todo[i].prop = todo[k].prop => i = k
  PROVE  LET u == Undoes(who, todo)[1] IN
         /\ Connected /\ Undoes(who, todo) = <<u>> /\ u \in Job /\ IsUndoing(u) /\ Plain(u)
         /\ Owed(u) = Range(todo)
<1> DEFINE us == Undoes(who, todo)
           u == us[1]
           h == Head(todo)
           t == Tail(todo)
           n == Len(todo)
<1>1. /\ Connected /\ us \in Seq(Job) /\ us # <<>> /\ DOMAIN us = {1}
      /\ u \in Job /\ u.kind = "write" /\ u.who = who /\ u.stage = "sent"
      /\ u.prop = h.prop /\ u.value = h.value /\ u.rest = t
  BY UndoesIs
<1> HIDE DEF us
<1>2. us = <<u>>
  <2>1. us = [i \in {1} |-> us[i]] /\ {1} = 1..1
    BY <1>1
  <2> QED
    BY <1>1
<1> HIDE DEF u
<1>3. n \in Nat /\ n # 0 /\ DOMAIN todo = 1..n /\ \A i \in 1..n : todo[i] \in Todo
  BY LengthIs
<1>4. /\ h = todo[1] /\ t \in Seq(Todo) /\ Len(t) = n - 1 /\ \A i \in 1..(n - 1) : t[i] = todo[i + 1]
  BY HeadTailProperties
<1> HIDE DEF h, t, n
<1>5. DOMAIN t = 1..(n - 1)
  BY <1>4, LenProperties
<1>6. IsUndoing(u)
  BY <1>1 DEF IsUndoing
<1>7. Plain(u)
  <2>1. \A i \in DOMAIN t : t[i].prop # h.prop
    <3> TAKE i \in DOMAIN t
    <3>1. i + 1 \in DOMAIN todo /\ 1 \in DOMAIN todo /\ i + 1 # 1
      BY <1>3, <1>5
    <3> QED
      BY <1>4, <1>5, <3>1
  <2>2. \A i, k \in DOMAIN t : t[i].prop = t[k].prop => i = k
    <3> TAKE i, k \in DOMAIN t
    <3>1. i + 1 \in DOMAIN todo /\ k + 1 \in DOMAIN todo /\ (i + 1 = k + 1 => i = k)
      BY <1>3, <1>5
    <3> QED
      BY <1>4, <1>5, <3>1
  <2> QED
    BY <1>1, <2>1, <2>2 DEF Plain
<1>8. Owed(u) = Range(todo)
  <2>1. h = [prop |-> h.prop, value |-> h.value]
    BY <1>3, <1>4 DEF Todo
  <2>2. Owed(u) = {h} \cup Range(t)
    BY <1>1, <2>1 DEF Owed
  <2>3. \A x \in Range(t) : x \in Range(todo)
    <3> TAKE x \in Range(t)
    <3>1. PICK i \in DOMAIN t : x = t[i]
      BY DEF Range
    <3>2. i + 1 \in DOMAIN todo /\ x = todo[i + 1]
      BY <1>3, <1>4, <1>5, <3>1
    <3> QED
      BY <3>2 DEF Range
  <2>4. h \in Range(todo)
    BY <1>3, <1>4 DEF Range
  <2>5. \A x \in Range(todo) : x = h \/ x \in Range(t)
    <3> TAKE x \in Range(todo)
    <3>1. PICK i \in DOMAIN todo : x = todo[i]
      BY DEF Range
    <3>2. CASE i = 1
      BY <1>4, <3>1, <3>2
    <3>3. CASE i # 1
      <4>1. i - 1 \in DOMAIN t /\ (i - 1) + 1 = i
        BY <1>3, <1>5, <3>3
      <4>2. x = t[i - 1]
        BY <1>4, <1>5, <3>1, <4>1
      <4> QED
        BY <4>1, <4>2 DEF Range
    <3> QED
      BY <3>2, <3>3
  <2> QED
    BY <2>2, <2>3, <2>4, <2>5
<1> QED
  BY <1>1, <1>2, <1>6, <1>7, <1>8 DEF us, u

(* A write that is answered is recorded where it belongs. *)
LEMMA LeadRecord ==
  ASSUME SettingsAssumption, NEW list \in Seq(Entry), Len(list) <= Limit, NEW soon, NEW w \in Made,
         w.from = w.was[w.prop], Leads(list, w.was), NEW c, c = [w.was EXCEPT ![w.prop] = w.to],
         Folds(list, w, soon) => \A k \in Writes(list) : ~(k > Newest(Foldable(list, w.prop)))
  PROVE  Leads(Record(list, w, soon), c)
<1>1. w.was \in [Prop -> Value] /\ w.prop \in Prop /\ w.to \in Value /\ w.kind = "write" /\ None \notin Value
  BY DEF Made, SettingsAssumption
<1>2. \A p \in Prop \ {w.prop} : c[p] = w.was[p]
  BY <1>1
<1>3. Len(list) \in Nat /\ DOMAIN list = 1..Len(list) /\ Writes(list) \in SUBSET (1..Len(list))
      /\ \A i \in DOMAIN list : i \in Writes(list) \/ i \in Marks(list)
  BY ListIs
<1>4. CASE Folds(list, w, soon)
  <2> DEFINE m == Newest(Foldable(list, w.prop))
             n == Len(list)
             to == w.to
             b == w.was
  <2>1. m \in Foldable(list, w.prop)
    <3>1. Foldable(list, w.prop) \in SUBSET (1..Len(list)) /\ Foldable(list, w.prop) # {}
      BY <1>3, <1>4 DEF Folds, Foldable
    <3> QED
      BY <1>3, <3>1, NewestIs
  <2>2. Record(list, w, soon) = Folded(list, m, to)
    BY <1>4 DEF Record, Folded
  <2>3. \A k \in Writes(list) : ~(k > m)
    BY <1>4
  <2> HIDE DEF m
  <2>4. m \in Writes(list) /\ list[m].prop = w.prop /\ \A k \in Marks(list) : k < m
    BY <2>1 DEF Foldable
  <2>5. m = n
    <3>1. m \in 1..n /\ n \in Nat
      BY <1>3, <2>4
    <3>2. n \in Writes(list) \/ n \in Marks(list)
      <4>1. n \in DOMAIN list
        BY <1>3, <3>1
      <4> QED
        BY <1>3, <4>1
    <3>3. ~(n > m) \/ n < m
      BY <2>3, <2>4, <3>2
    <3> HIDE DEF n
    <3> QED
      BY <3>1, <3>3
  <2>6. m = Len(list) /\ to \in Value /\ Leads(list, b)
        /\ SameBut(list[m].prop, b, c)
    BY <1>1, <1>2, <2>4, <2>5 DEF SameBut
  <2> HIDE DEF to, b
  <2>7. Leads(Folded(list, m, to), c)
    BY <2>4, <2>6, LeadFold
  <2> QED
    BY <2>2, <2>7
<1>5. CASE ~Folds(list, w, soon) /\ (w.from = None \/ w.from = w.to)
  <2>1. Record(list, w, soon) = list
    BY <1>5 DEF Record
  <2>2. w.from \in Value
    BY <1>1
  <2>3. c = w.was
    BY <1>1, <1>5, <2>2
  <2> QED
    BY <2>1, <2>3
<1>6. CASE ~Folds(list, w, soon) /\ ~(w.from = None \/ w.from = w.to)
  <2>1. Record(list, w, soon) = Push(list, w)
    BY <1>6 DEF Record
  <2>2. w \in Entry
    <3>1. w \in [kind : {"write"}, prop : Prop, from : Value, to : Value, was : [Prop -> Value], of : Nat]
      BY <1>1 DEF Made
    <3> QED
      BY <3>1 DEF Entry
  <2>3. Leads(Push(list, w), c)
    BY <1>1, <1>2, <2>2, LeadPush
  <2> QED
    BY <2>1, <2>3
<1> QED
  BY <1>4, <1>5, <1>6

(* What holds of an answer while the history keeps its promise: it comes   *)
(* in time, and an undo or revert is made as it was asked.                 *)
LEMMA AnswerIs ==
  ASSUME SettingsAssumption, SettingsInv, LeadInv, Kept', NEW j \in {running, late} \ {None},
         NEW soon \in BOOLEAN, WriteAnswered(j, soon)
  PROVE  /\ Kept /\ LeadNow /\ Connected
         /\ running # None /\ j = running /\ running' = None /\ j \in Job /\ j.kind = "write"
         /\ j.stage = "done" => j.before = j.was[j.prop] /\ j.was \in [Prop -> Value]
         /\ Enters(j) /\ Folds(history, EntryOf(j), soon) =>
              \A k \in Writes(history) : ~(k > Newest(Foldable(history, j.prop)))
         /\ j.stage = "done" /\ ~IsUndoing(j) => ~suspended
         /\ IsUndoing(j) => j.stage = "done" /\ Askable(j.rest) = j.rest
         /\ pending' = pending \o (Again(j) \o More(j))
         /\ history' = IF Enters(j) THEN Record(history, EntryOf(j), soon) ELSE history
         /\ suspended' = IF IsUndoing(j) /\ More(j) = <<>> THEN FALSE ELSE suspended
         /\ actual' = actual
<1>1. TypeOK /\ QueueInv(pending, running, late, phase, conn) /\ conn \in Nat
  BY DEF SettingsInv, TypeOK
<1>2. /\ j.kind = "write" /\ Gone(j)
      /\ history' = IF Enters(j) THEN Record(history, EntryOf(j), soon) ELSE history
      /\ suspended' = IF j.who \in {"undo", "revert"} /\ More(j) = <<>> THEN FALSE ELSE suspended
      /\ Enqueue(Again(j) \o More(j)) /\ Slip(Missteps(j, soon)) /\ actual' = actual
  BY WriteAnsweredIs
<1>3. /\ j \in Job /\ Fine(j, conn)
      /\ \/ running # None /\ j = running /\ running' = None /\ late' = late
         \/ late # None /\ j = late /\ late' = None /\ running' = running
  BY <1>1, <1>2, GoneIs
<1>4. slips \subseteq slips' /\ Missteps(j, soon) \subseteq {"lateRead"}
  BY <1>2, SlipIs DEF Kept
<1>5. \A test, s : s # "lateRead" /\ When(test, s) \subseteq {"lateRead"} => ~test
  BY DEF When
<1>6. ~(~Connected \/ j.of # conn)
  <2>1. When(~Connected \/ j.of # conn, "late") \subseteq {"lateRead"}
    BY <1>4 DEF Missteps
  <2> QED
    BY <2>1 DEF When
<1>7. ~(j.stage = "done" /\ j.before # j.was[j.prop])
  <2>1. When(j.stage = "done" /\ j.before # j.was[j.prop], "lagged") \subseteq {"lateRead"}
    BY <1>4 DEF Missteps
  <2> QED
    BY <2>1 DEF When
<1>8. ~(Enters(j) /\ Folds(history, EntryOf(j), soon)
          /\ \E k \in Writes(history) : k > Newest(Foldable(history, j.prop)))
  <2>1. When(Enters(j) /\ Folds(history, EntryOf(j), soon)
              /\ \E k \in Writes(history) : k > Newest(Foldable(history, j.prop)), "folded over")
          \subseteq {"lateRead"}
    BY <1>4 DEF Missteps
  <2> QED
    BY <2>1 DEF When
<1>9. ~(j.stage = "done" /\ ~(j.who \in {"undo", "revert"}) /\ suspended)
  <2>1. When(j.stage = "done" /\ ~(j.who \in {"undo", "revert"}) /\ suspended, "hushed") \subseteq {"lateRead"}
    BY <1>4 DEF Missteps
  <2> QED
    BY <2>1 DEF When
<1>10. ~(j.who \in {"undo", "revert"} /\ (~(j.stage = "done") \/ Askable(j.rest) # j.rest))
  <2>1. When(j.who \in {"undo", "revert"} /\ (~(j.stage = "done") \/ Askable(j.rest) # j.rest), "unmade")
          \subseteq {"lateRead"}
    BY <1>4 DEF Missteps
  <2> QED
    BY <2>1 DEF When
<1>11. running # None /\ j = running /\ running' = None /\ late' = late
  <2>1. late # None => phase = "down" \/ late.of < conn
    BY <1>1 DEF QueueInv
  <2>2. ~(late # None /\ j = late)
    <3>1. phase # "down" /\ j.of = conn
      BY <1>6 DEF Connected
    <3> QED
      BY <1>1, <2>1, <3>1
  <2> QED
    BY <1>3, <2>2
<1>12. Kept
  BY <1>4, <1>11, KeptIs
<1>13. LeadNow
  BY <1>12, LeadIs
<1>14. pending' = pending \o (Again(j) \o More(j))
  BY <1>2, <1>6 DEF Enqueue, Open, Connected
<1>15. IsUndoing(j) <=> j.who \in {"undo", "revert"}
  BY <1>2 DEF IsUndoing
<1>16. j.stage = "done" => j.before = j.was[j.prop] /\ j.was \in [Prop -> Value]
  BY <1>2, <1>3, <1>7 DEF Fine, IsMade
<1>17. suspended' = IF IsUndoing(j) /\ More(j) = <<>> THEN FALSE ELSE suspended
  BY <1>2, <1>15
<1>18. (j.stage = "done" /\ ~IsUndoing(j) => ~suspended)
       /\ (IsUndoing(j) => j.stage = "done" /\ Askable(j.rest) = j.rest)
  BY <1>9, <1>10, <1>15
<1> QED
  BY <1>2, <1>3, <1>6, <1>8, <1>11, <1>12, <1>13, <1>14, <1>16, <1>17, <1>18

(* An undo or revert that was made: what it owed is what is left of it.    *)
LEMMA UndoAnswered ==
  ASSUME SettingsAssumption, SettingsInv, LeadInv, Kept', NEW j \in {running, late} \ {None},
         NEW soon \in BOOLEAN, WriteAnswered(j, soon), IsUndoing(j)
  PROVE  LeadNow'
<1>1. /\ LeadNow /\ Connected /\ running # None /\ j = running /\ running' = None /\ j \in Job /\ j.kind = "write"
      /\ j.stage = "done" /\ Askable(j.rest) = j.rest
      /\ pending' = pending \o (Again(j) \o More(j)) /\ actual' = actual
      /\ suspended' = IF More(j) = <<>> THEN FALSE ELSE suspended
      /\ history' = IF Enters(j) THEN Record(history, EntryOf(j), soon) ELSE history
  <2>1. IsUndoing(j) => j.stage = "done" /\ Askable(j.rest) = j.rest
    BY AnswerIs
  <2>2. suspended' = IF IsUndoing(j) /\ More(j) = <<>> THEN FALSE ELSE suspended
    BY AnswerIs
  <2> QED
    BY <2>1, <2>2, AnswerIs
<1>2. /\ conn \in Nat /\ shown \in [Prop -> Value \cup {None}] /\ actual \in [Prop -> Value]
      /\ pending \in Seq(Job) /\ suspended \in BOOLEAN
  BY DEF SettingsInv, TypeOK
<1>3. suspended /\ Plain(j) /\ \A i \in DOMAIN pending : ~IsUndoing(pending[i])
  BY <1>1, <1>2 DEF LeadNow, UndoInv
<1>4. history' = history
  BY <1>1, <1>3 DEF Enters
<1>5. ~Unrecorded(running)
  BY <1>1 DEF Unrecorded
<1>6. PICK b \in [Prop -> Value] : Settled(pending, running, actual, b) /\ Leads(history, b)
  BY <1>1, <1>5 DEF LeadNow
<1>7. Makes(j, actual, b)
  BY <1>1, <1>5, <1>6 DEF Settled
<1>8. Owed(j) = Range(j.rest)
  BY <1>1 DEF Owed
<1>9. j.rest \in Seq(Todo) /\ j.who \in {"undo", "revert"} /\ More(j) = Undoes(j.who, j.rest)
  BY <1>1, JobIs DEF IsUndoing, More
<1>10. Again(j) \in Seq(Job) /\ \A i \in DOMAIN Again(j) : ~IsUndoing(Again(j)[i])
  BY <1>1, <1>2, AgainIs DEF IsUndoing
<1> DEFINE pend == pending \o Again(j)
<1>11. pend \in Seq(Job) /\ \A i \in DOMAIN pend : ~IsUndoing(pend[i])
  <2>1. /\ pend \in Seq(Job)
        /\ \A i \in DOMAIN pend : \/ i \in DOMAIN pending /\ pend[i] = pending[i]
                                  \/ i - Len(pending) \in DOMAIN Again(j) /\ pend[i] = Again(j)[i - Len(pending)]
    BY <1>2, <1>10, NewJobs
  <2> HIDE DEF pend
  <2> QED
    BY <1>3, <1>10, <2>1
<1>12. CASE j.rest = <<>>
  <2>1. More(j) = <<>>
    <3> DEFINE who == j.who
               todo == j.rest
    <3>1. todo \in Seq(Todo) /\ who \in {"undo", "revert"} /\ Askable(todo) = <<>>
      BY <1>1, <1>9, <1>12
    <3> HIDE DEF who, todo
    <3>2. Undoes(who, todo) = <<>>
      BY <1>2, <3>1, UndoesIs
    <3> QED
      BY <1>9, <3>2 DEF who, todo
  <2>2. pending' = pend
    BY <1>1, <1>10, <2>1, ConcatEmptySeq
  <2>3. suspended' = FALSE
    BY <1>1, <2>1
  <2> HIDE DEF pend
  <2>4. UndoInv(pending', None, FALSE) /\ Settled(pending', None, actual, actual)
    BY <1>11, <2>2 DEF UndoInv, Settled, Unrecorded
  <2>5. b = actual
    <3>1. Owed(j) = {}
      <4>1. DOMAIN j.rest = {}
        BY <1>12
      <4> QED
        BY <1>8, <4>1 DEF Range
    <3>2. \A p \in Prop : b[p] = actual[p]
      BY <1>7, <3>1 DEF Makes
    <3> QED
      BY <1>2, <3>2
  <2>6. Leads(history', actual)
    BY <1>4, <1>6, <2>5
  <2> QED
    BY <1>1, <1>2, <2>3, <2>4, <2>6 DEF LeadNow
<1>13. CASE j.rest # <<>>
  <2> DEFINE who == j.who
             todo == j.rest
             u == Undoes(who, todo)[1]
  <2>1. /\ todo \in Seq(Todo) /\ who \in {"undo", "revert"} /\ Askable(todo) = todo /\ todo # <<>>
        /\ \A i, k \in DOMAIN todo : todo[i].prop = todo[k].prop => i = k
    BY <1>1, <1>3, <1>9, <1>13 DEF Plain
  <2>2. Undoes(who, todo) = <<u>> /\ u \in Job /\ IsUndoing(u) /\ Plain(u) /\ Owed(u) = Range(todo)
    <3> HIDE DEF who, todo
    <3> QED
      BY <1>2, <2>1, UndoesOwed
  <2>3. More(j) = <<u>> /\ Owed(u) = Owed(j)
    BY <1>8, <1>9, <2>2
  <2> HIDE DEF u
  <2>4. pending' = Append(pend, u)
    <3>1. <<u>> \in Seq(Job)
      BY <2>2
    <3>2. pending' = pend \o <<u>>
      BY <1>1, <1>2, <1>10, <2>3, <3>1, ConcatAssociative
    <3> HIDE DEF pend
    <3> QED
      BY <1>11, <2>2, <3>2, AppendIsConcat
  <2>5. suspended' = TRUE
    BY <1>1, <1>3, <2>3
  <2> HIDE DEF pend
  <2>6. Makes(u, actual, b)
    BY <1>7, <2>3 DEF Makes
  <2>7. UndoInv(pending', None, TRUE) /\ Settled(pending', None, actual, b)
    BY <1>11, <2>2, <2>4, <2>6, AddUndo
  <2> QED
    BY <1>1, <1>4, <1>6, <2>5, <2>7 DEF LeadNow
<1> QED
  BY <1>12, <1>13

(* Any other write is recorded, if it was made. *)
LEMMA WriteAnsweredLeads ==
  ASSUME SettingsAssumption, SettingsInv, LeadInv, NEW j \in {running, late} \ {None},
         NEW soon \in BOOLEAN, WriteAnswered(j, soon)
  PROVE  LeadInv'
<1> SUFFICES ASSUME Kept', ~IsUndoing(j)
             PROVE  LeadNow'
  BY UndoAnswered, LeadBy
<1>1. /\ LeadNow /\ Connected /\ running # None /\ j = running /\ running' = None /\ j \in Job /\ j.kind = "write"
      /\ j.stage = "done" => j.before = j.was[j.prop] /\ j.was \in [Prop -> Value]
      /\ Enters(j) /\ Folds(history, EntryOf(j), soon) =>
           \A k \in Writes(history) : ~(k > Newest(Foldable(history, j.prop)))
      /\ j.stage = "done" => ~suspended
      /\ pending' = pending \o (Again(j) \o More(j))
      /\ history' = IF Enters(j) THEN Record(history, EntryOf(j), soon) ELSE history
      /\ suspended' = suspended /\ actual' = actual
  <2>1. (j.stage = "done" /\ ~IsUndoing(j) => ~suspended)
        /\ suspended' = IF IsUndoing(j) /\ More(j) = <<>> THEN FALSE ELSE suspended
    BY AnswerIs
  <2> QED
    BY <2>1, AnswerIs
<1>2. /\ conn \in Nat /\ shown \in [Prop -> Value \cup {None}] /\ actual \in [Prop -> Value]
      /\ pending \in Seq(Job) /\ suspended \in BOOLEAN /\ history \in Seq(Entry) /\ Len(history) <= Limit
  BY DEF SettingsInv, TypeOK
<1> DEFINE new == Again(j) \o More(j)
<1>3. new \in Seq(Job) /\ \A i \in DOMAIN new : ~IsUndoing(new[i])
  <2>1. Again(j) \in Seq(Job) /\ \A i \in DOMAIN Again(j) : ~IsUndoing(Again(j)[i])
    BY <1>1, <1>2, AgainIs DEF IsUndoing
  <2>2. More(j) = <<>>
    BY <1>1 DEF More, IsUndoing
  <2>3. new = Again(j)
    BY <2>1, <2>2, ConcatEmptySeq
  <2> HIDE DEF new
  <2> QED
    BY <2>1, <2>3
<1>4. pending' = pending \o new
  BY <1>1
<1> HIDE DEF new
<1>5. UndoInv(pending, None, suspended) /\ UndoInv(pending', None, suspended)
  <2>1. UndoInv(pending, running, suspended) /\ (running # None => ~IsUndoing(running))
    BY <1>1 DEF LeadNow
  <2>2. UndoInv(pending, None, suspended)
    BY <2>1, EndPlain
  <2> QED
    BY <1>2, <1>3, <1>4, <2>2, AddPlain
<1>6. CASE j.stage # "done"
  <2>1. ~Unrecorded(running) /\ history' = history
    BY <1>1, <1>6 DEF Unrecorded, IsMade, Enters
  <2>2. PICK b \in [Prop -> Value] : Settled(pending, running, actual, b) /\ Leads(history, b)
    BY <1>1, <2>1 DEF LeadNow
  <2>3. Settled(pending, None, actual, b)
    BY <1>1, <2>1, <2>2, EndPlain DEF LeadNow
  <2>4. Settled(pending', None, actual, b)
    BY <1>2, <1>3, <1>4, <1>5, <2>3, AddPlain
  <2> QED
    BY <1>1, <1>5, <2>1, <2>2, <2>4 DEF LeadNow
<1>7. CASE j.stage = "done"
  <2>1. IsMade(j) /\ Unrecorded(running) /\ ~suspended /\ Enters(j)
    BY <1>1, <1>7 DEF Unrecorded, IsMade, Enters
  <2>2. actual = [j.was EXCEPT ![j.prop] = j.value]
    BY <1>1, <2>1 DEF LeadNow
  <2>3. Leads(history, j.was)
    BY <1>1, <2>1 DEF LeadNow, Settled
  <2> DEFINE w == EntryOf(j)
  <2>4. w \in Made /\ w.prop = j.prop /\ w.was = j.was /\ w.to = j.value /\ w.from = j.was[j.prop]
    <3>1. j.prop \in Prop /\ j.before \in Value \cup {None} /\ j.value \in Value /\ j.of \in Nat
      BY <1>1, JobIs
    <3> QED
      BY <1>1, <1>7, <3>1 DEF EntryOf, Made
  <2>5. history' = Record(history, w, soon)
    BY <1>1, <2>1
  <2>6. Folds(history, w, soon) => \A k \in Writes(history) : ~(k > Newest(Foldable(history, w.prop)))
    BY <1>1, <2>1, <2>4
  <2> HIDE DEF w
  <2>7. Leads(Record(history, w, soon), actual)
    <3>1. w.from = w.was[w.prop] /\ Leads(history, w.was) /\ actual = [w.was EXCEPT ![w.prop] = w.to]
      BY <2>2, <2>3, <2>4
    <3> QED
      BY <1>2, <2>4, <2>6, <3>1, LeadRecord
  <2>8. \A i \in DOMAIN pending' : ~IsUndoing(pending'[i])
    BY <1>5, <2>1 DEF UndoInv
  <2>9. Settled(pending', None, actual, actual)
    BY <2>8 DEF Settled, Unrecorded
  <2> QED
    BY <1>1, <1>2, <1>5, <2>5, <2>7, <2>9 DEF LeadNow
<1> QED
  BY <1>6, <1>7

(* What is taken back, while the history keeps its promise, is taken back  *)
(* from what the camera is and in full.                                    *)
LEMMA TakenBack ==
  ASSUME SettingsAssumption, SettingsInv, LeadInv, Kept', NEW who, NEW list, NEW todo, NEW more,
         TakeBack(who, list, todo, more)
  PROVE  /\ Leads(history, actual) /\ suspended = FALSE
         /\ running # None => running.kind = "read"
         /\ \A i \in DOMAIN pending : ~IsUndoing(pending[i])
         /\ more \subseteq {"lateRead"} /\ Askable(todo) = todo
<1> DEFINE which == more \cup Crossing \cup When(Askable(todo) # todo, "unmade")
<1>1. Slip(which) /\ late' = late
  BY DEF TakeBack, Asks
<1>2. slips \subseteq slips' /\ which \subseteq {"lateRead"}
  <2> HIDE DEF which
  <2> QED
    BY <1>1, SlipIs DEF Kept
<1>3. /\ more \subseteq {"lateRead"} /\ Crossing \subseteq {"lateRead"}
      /\ When(Askable(todo) # todo, "unmade") \subseteq {"lateRead"}
  BY <1>2
<1>4. OpenWrites = {}
  BY <1>3 DEF Crossing, When
<1>5. Askable(todo) = todo
  BY <1>3 DEF When
<1>6. Kept
  BY <1>1, <1>2, KeptIs
<1> QED
  BY <1>3, <1>4, <1>5, <1>6, QuietLeads

(* The settings that todo makes of what the camera is set to. *)
LEMMA TakeBackLeads ==
  ASSUME SettingsAssumption, SettingsInv, LeadInv, Kept',
         NEW who \in {"undo", "revert"}, NEW list \in Seq(Entry), NEW todo \in Seq(Todo), NEW more,
         TakeBack(who, list, todo, more),
         \A i, k \in DOMAIN todo : todo[i].prop = todo[k].prop => i = k,
         NEW b \in [Prop -> Value], Leads(list, b),
         \A p \in Prop : /\ \A w \in Range(todo) : w.prop = p => b[p] = w.value
                         /\ (\A w \in Range(todo) : w.prop # p) => b[p] = actual[p]
  PROVE  LeadNow'
<1>1. /\ Leads(history, actual) /\ suspended = FALSE
      /\ running # None => running.kind = "read"
      /\ \A i \in DOMAIN pending : ~IsUndoing(pending[i])
      /\ Askable(todo) = todo
  BY TakenBack
<1> DEFINE first == Undoes(who, todo)
<1>2. /\ history' = list /\ Enqueue(first) /\ suspended' = (first # <<>>)
      /\ actual' = actual /\ running' = running
  BY DEF TakeBack, Asks
<1>3. /\ conn \in Nat /\ shown \in [Prop -> Value \cup {None}] /\ actual \in [Prop -> Value]
      /\ pending \in Seq(Job)
  BY DEF SettingsInv, TypeOK
<1>4. running # None => ~IsUndoing(running) /\ ~IsMade(running)
  BY <1>1 DEF IsUndoing, IsMade
<1>5. CASE todo = <<>>
  <2>1. first = <<>>
    <3>1. Askable(todo) = <<>>
      BY <1>1, <1>5
    <3> QED
      BY <1>3, <3>1, UndoesIs
  <2> HIDE DEF first
  <2>2. pending' = pending /\ suspended' = FALSE
    BY <1>2, <1>3, <2>1, ConcatEmptySeq DEF Enqueue
  <2>3. b = actual
    <3>1. Range(todo) = {}
      BY <1>5 DEF Range
    <3>2. \A p \in Prop : b[p] = actual[p]
      BY <3>1
    <3> QED
      BY <1>3, <3>2
  <2>4. UndoInv(pending', running', FALSE)
    BY <1>1, <1>2, <1>4, <2>2 DEF UndoInv
  <2>5. Settled(pending', running', actual', b)
    BY <1>1, <1>2, <1>4, <2>2, <2>3 DEF Settled, Unrecorded
  <2> QED
    BY <1>2, <1>4, <2>2, <2>4, <2>5 DEF LeadNow
<1>6. CASE todo # <<>>
  <2> DEFINE u == first[1]
  <2>1. Connected /\ first = <<u>> /\ u \in Job /\ IsUndoing(u) /\ Plain(u) /\ Owed(u) = Range(todo)
    BY <1>1, <1>3, <1>6, UndoesOwed
  <2> HIDE DEF first
  <2>2. suspended' = TRUE /\ pending' = pending \o first
    <3>1. first # <<>>
      <4> HIDE DEF u
      <4> QED
        BY <2>1
    <3> QED
      BY <1>2, <2>1, <3>1 DEF Enqueue, Open, Connected
  <2> HIDE DEF u
  <2>3. pending' = Append(pending, u)
    BY <1>3, <2>1, <2>2, AppendIsConcat
  <2>4. Makes(u, actual, b)
    BY <2>1 DEF Makes
  <2>5. UndoInv(pending', None, TRUE) /\ Settled(pending', None, actual, b)
    BY <1>1, <1>3, <2>1, <2>3, <2>4, AddUndo
  <2>6. UndoInv(pending', running', TRUE)
    BY <1>2, <1>4, <2>5 DEF UndoInv
  <2>7. Settled(pending', running', actual', b)
    BY <1>2, <1>4, <2>5 DEF Settled, Unrecorded
  <2> QED
    BY <1>2, <1>4, <2>2, <2>6, <2>7 DEF LeadNow
<1> QED
  BY <1>5, <1>6

(* An undo leads back to what the last write was made on. *)
LEMMA UndoLeads ==
  ASSUME SettingsAssumption, SettingsInv, LeadInv, Undo
  PROVE  LeadInv'
<1> SUFFICES ASSUME Kept'
             PROVE  LeadNow'
  BY LeadBy
<1> DEFINE left == PopLast(history).list
           who == "undo"
           n == Newest(Writes(history))
           e == history[n]
<1>1. TypeOK /\ actual \in [Prop -> Value]
  BY DEF SettingsInv, TypeOK
<1>2. /\ Writes(history) # {} /\ TakeBack(who, left, Back, Passed) /\ history \in Seq(Entry)
      /\ left \in Seq(Entry) /\ Back \in Seq(Todo) /\ who \in {"undo", "revert"}
  BY <1>1, UndoIs
<1>3. /\ n \in Writes(history) /\ n \in DOMAIN history /\ \A k \in Writes(history) : k <= n
      /\ PopLast(history).entry = e /\ e \in Entry /\ e.kind = "write"
      /\ Len(left) = Len(history) - 1
      /\ \A k \in 1..(Len(history) - 1) : left[k] = IF k < n THEN history[k] ELSE history[k + 1]
  BY <1>2, PopLastIs
<1>4. e.was \in [Prop -> Value] /\ e.prop \in Prop /\ e.from \in Value
  BY <1>3, EntryIs
<1>5. Back = <<[prop |-> e.prop, value |-> e.from]>>
  BY <1>3 DEF Back
<1>6. /\ Leads(history, actual) /\ Passed \subseteq {"lateRead"}
  <2> HIDE DEF left, who
  <2> QED
    BY <1>2, TakenBack
<1>7. ~\E m \in Marks(history) : m > n
  BY <1>6 DEF Passed, When
<1> HIDE DEF n, left, who
<1>8. Len(history) \in Nat /\ DOMAIN history = 1..Len(history) /\ n \in Nat
      /\ \A i \in DOMAIN history : i \in Writes(history) \/ i \in Marks(history)
  BY <1>2, <1>3, ListIs
<1>9. n = Len(history)
  <2> DEFINE m == Len(history)
  <2>1. m \in Nat /\ n \in 1..m
    BY <1>3, <1>8
  <2>2. m \in Writes(history) \/ m \in Marks(history)
    <3>1. m \in DOMAIN history
      BY <1>8, <2>1
    <3> QED
      BY <1>8, <3>1
  <2>3. m <= n \/ ~(m > n)
    BY <1>3, <1>7, <2>2
  <2> HIDE DEF m
  <2>4. m = n
    BY <1>8, <2>1, <2>3
  <2> QED
    BY <2>4 DEF m
<1> DEFINE b == e.was
<1>10. Leads(left, b)
  <2>1. Len(left) = n - 1 /\ \A k \in 1..(n - 1) : left[k] = history[k]
    BY <1>3, <1>8, <1>9
  <2> QED
    BY <1>2, <1>3, <1>6, <2>1, LeadCut
<1>11. /\ b[e.prop] = e.from
       /\ \A p \in Prop \ {e.prop} : b[p] = actual[p]
  <2>1. \A p \in Prop : Led(history, n, p, b[p], actual)
    BY <1>3, <1>6 DEF Leads
  <2>2. \A k \in Writes(history) : n <= k => k = n
    <3>1. \A k \in Writes(history) : k \in Nat /\ k <= n
      BY <1>3, <1>8 DEF Writes
    <3> QED
      BY <1>8, <3>1
  <2>3. n <= n /\ ~\E k \in Writes(history) : n <= k /\ k < n
    BY <1>8, <2>2
  <2>4. b[e.prop] = e.from
    <3>1. Led(history, n, e.prop, b[e.prop], actual)
      BY <1>4, <2>1
    <3> QED
      BY <1>3, <2>3, <3>1 DEF Led
  <2>5. ASSUME NEW p \in Prop \ {e.prop}
        PROVE  b[p] = actual[p]
    <3>1. Led(history, n, p, b[p], actual)
      BY <2>1
    <3>2. \A k \in Writes(history) : n <= k => history[k].prop # p
      BY <2>2
    <3> QED
      BY <3>1, <3>2 DEF Led
  <2> QED
    BY <2>4, <2>5
<1>12. /\ \A i, k \in DOMAIN Back : Back[i].prop = Back[k].prop => i = k
       /\ \A p \in Prop : /\ \A w \in Range(Back) : w.prop = p => b[p] = w.value
                          /\ (\A w \in Range(Back) : w.prop # p) => b[p] = actual[p]
  <2> DEFINE w == [prop |-> e.prop, value |-> e.from]
  <2>1. w.prop = e.prop /\ w.value = e.from
    OBVIOUS
  <2>2. Back = <<w>>
    BY <1>5
  <2> HIDE DEF w, e, b
  <2>3. DOMAIN Back = {1} /\ Back[1] = w
    BY <2>2
  <2>4. Range(Back) = {w}
    BY <2>3 DEF Range
  <2> QED
    BY <1>11, <2>1, <2>3, <2>4
<1>13. b \in [Prop -> Value]
  BY <1>4
<1> HIDE DEF b
<1> QED
  BY <1>2, <1>10, <1>12, <1>13, TakeBackLeads

(* A revert leads back to what the camera was set to at the mark. *)
LEMMA RevertLeads ==
  ASSUME SettingsAssumption, SettingsInv, LeadInv, Revert
  PROVE  LeadInv'
<1> SUFFICES ASSUME Kept'
             PROVE  LeadNow'
  BY LeadBy
<1> DEFINE left == PopToMark(history).list
           who == "revert"
           more == {}
           m == Newest(Marks(history))
           b == history[m].was
<1>1. TypeOK /\ actual \in [Prop -> Value]
  BY DEF SettingsInv, TypeOK
<1>2. /\ Marks(history) # {} /\ TakeBack(who, left, Reverted, more) /\ history \in Seq(Entry)
      /\ left \in Seq(Entry) /\ Reverted \in Seq(Todo) /\ who \in {"undo", "revert"}
      /\ \A i \in DOMAIN Reverted : Reverted[i].prop \in DOMAIN Seen /\ Reverted[i].value = Seen[Reverted[i].prop]
      /\ \A p \in DOMAIN Seen : \E i \in DOMAIN Reverted : Reverted[i].prop = p
      /\ \A i, k \in DOMAIN Reverted : Reverted[i].prop = Reverted[k].prop => i = k
  BY <1>1, RevertIs
<1>3. /\ m \in DOMAIN history /\ history[m] \in Entry /\ Seen = Before(history, m)
      /\ Len(left) = m - 1 /\ \A k \in 1..(m - 1) : left[k] = history[k]
  BY <1>2, PopToMarkIs DEF Seen
<1>4. Leads(history, actual)
  <2> HIDE DEF left, who, more
  <2> QED
    BY <1>2, TakenBack
<1> HIDE DEF left, who, more, m
<1>5. b \in [Prop -> Value]
  BY <1>3, EntryIs
<1>6. Leads(left, b)
  BY <1>2, <1>3, <1>4, LeadCut
<1>7. \A p \in Prop : b[p] = IF p \in DOMAIN Seen THEN Seen[p] ELSE actual[p]
  <2> TAKE p \in Prop
  <2> DEFINE v == b[p]
  <2>1. Led(history, m, p, v, actual)
    BY <1>3, <1>4 DEF Leads
  <2> HIDE DEF v
  <2>2. v = IF p \in DOMAIN Before(history, m) THEN Before(history, m)[p] ELSE actual[p]
    BY <1>2, <1>3, <2>1, LedOnce
  <2> QED
    BY <1>3, <2>2 DEF v
<1> HIDE DEF b
<1>8. ASSUME NEW p \in Prop
      PROVE  /\ \A w \in Range(Reverted) : w.prop = p => b[p] = w.value
             /\ (\A w \in Range(Reverted) : w.prop # p) => b[p] = actual[p]
  <2>1. ASSUME NEW w \in Range(Reverted), w.prop = p
        PROVE  b[p] = w.value
    <3>1. PICK i \in DOMAIN Reverted : w = Reverted[i]
      BY DEF Range
    <3>2. p \in DOMAIN Seen /\ w.value = Seen[p]
      BY <1>2, <2>1, <3>1
    <3> QED
      BY <1>7, <3>2
  <2>2. ASSUME \A w \in Range(Reverted) : w.prop # p
        PROVE  b[p] = actual[p]
    <3>1. p \notin DOMAIN Seen
      <4>1. \A i \in DOMAIN Reverted : Reverted[i].prop # p
        BY <2>2 DEF Range
      <4> QED
        BY <1>2, <4>1
    <3> QED
      BY <1>7, <3>1
  <2> QED
    BY <2>1, <2>2
<1> DEFINE todo == Reverted
<1>9. /\ TakeBack(who, left, todo, more) /\ left \in Seq(Entry) /\ todo \in Seq(Todo)
      /\ who \in {"undo", "revert"}
      /\ \A i, k \in DOMAIN todo : todo[i].prop = todo[k].prop => i = k
      /\ b \in [Prop -> Value] /\ Leads(left, b)
      /\ \A p \in Prop : /\ \A w \in Range(todo) : w.prop = p => b[p] = w.value
                         /\ (\A w \in Range(todo) : w.prop # p) => b[p] = actual[p]
  BY <1>2, <1>5, <1>6, <1>8
<1> HIDE DEF todo
<1> QED
  BY <1>9, TakeBackLeads

LEMMA NextLeads ==
  ASSUME SettingsAssumption, SettingsInv, SettingsInv', LeadInv, [Next]_vars
  PROVE  LeadInv'
<1>1. CASE Reach
  BY <1>1, ReachLeads
<1>2. CASE ReachLate
  BY <1>2, ReachLateLeads
<1>3. CASE Settle
  <2>1. PICK j \in {running, late} \ {None} :
          \/ ReadGoesOn(j) \/ ReadEnds(j) \/ FirstReadFails(j)
          \/ \E soon \in BOOLEAN : WriteAnswered(j, soon)
    BY <1>3 DEF Settle
  <2>2. CASE ReadGoesOn(j)
    BY <2>2, ReadGoesOnLeads
  <2>3. CASE ReadEnds(j)
    BY <2>3, ReadEndsLeads
  <2>4. CASE FirstReadFails(j)
    BY <2>4, FirstReadFailsLeads
  <2>5. CASE \E soon \in BOOLEAN : WriteAnswered(j, soon)
    BY <2>5, WriteAnsweredLeads
  <2> QED
    BY <2>1, <2>2, <2>3, <2>4, <2>5
<1>4. CASE TickDrops
  BY <1>4, TickDropsLeads
<1>5. CASE Connect
  BY <1>5, ConnectLeads
<1>6. CASE Identified
  BY <1>6, IdentifiedLeads
<1>7. CASE Poll
  BY <1>7, PollLeads
<1>8. CASE \E p \in Prop, v \in Value : Turn(p, v)
  BY <1>8, TurnLeads
<1>9. CASE \E p \in Prop, v \in Value : Set(p, v)
  BY <1>9, SetLeads
<1>10. CASE Recall
  BY <1>10, RecallLeads
<1>11. CASE Undo
  BY <1>11, UndoLeads
<1>12. CASE Revert
  BY <1>12, RevertLeads
<1>13. CASE UNCHANGED vars
  <2>1. /\ pending' = pending /\ running' = running /\ late' = late /\ actual' = actual
        /\ history' = history /\ suspended' = suspended /\ slips' = slips
    BY <1>13 DEF vars, undo
  <2> QED
    BY <2>1, LeadSame
<1> QED
  BY <1>1, <1>2, <1>3, <1>4, <1>5, <1>6, <1>7, <1>8, <1>9, <1>10, <1>11, <1>12, <1>13 DEF Next, AnAsk

LEMMA InitLeads ==
  ASSUME SettingsAssumption, Init
  PROVE  LeadInv
<1>1. /\ pending = <<>> /\ running = None /\ history = <<>> /\ suspended = FALSE /\ DOMAIN <<>> = {}
      /\ actual \in [Prop -> Value]
  BY DEF Init, SettingsAssumption
<1>2. UndoInv(pending, running, suspended)
  BY <1>1 DEF UndoInv
<1>3. Settled(pending, running, actual, actual)
  BY <1>1 DEF Settled, Unrecorded
<1>4. Leads(history, actual)
  BY <1>1 DEF Leads
<1> QED
  BY <1>1, <1>2, <1>3, <1>4 DEF LeadInv

(* With no write open, LeadInv says what the property does. *)
LEMMA LeadsFromHere ==
  ASSUME SettingsAssumption, SettingsInv, LeadInv
  PROVE  HistoryLeadsBack
<1> SUFFICES ASSUME OpenWrites = {}, slips \subseteq {"lateRead"}, NEW i \in DOMAIN history
             PROVE  Rewound(i) = history[i].was
  BY DEF HistoryLeadsBack
<1>1. /\ QueueInv(pending, running, late, phase, conn) /\ history \in Seq(Entry)
      /\ actual \in [Prop -> Value]
  BY DEF SettingsInv, TypeOK
<1>2. Kept
  <2>1. late # None => late.kind # "write"
    BY <1>1, JobsAre DEF OpenWrites
  <2> QED
    BY <2>1 DEF Kept
<1>3. Leads(history, actual)
  BY <1>2, QuietLeads
<1> DEFINE b == history[i].was
<1>4. b \in [Prop -> Value]
  BY <1>1, ListIs, EntryIs
<1>5. \A p \in Prop : b[p] = IF p \in DOMAIN Before(history, i) THEN Before(history, i)[p] ELSE actual[p]
  <2> TAKE p \in Prop
  <2> DEFINE v == b[p]
  <2>1. Led(history, i, p, v, actual)
    BY <1>3 DEF Leads
  <2> HIDE DEF v
  <2>2. v = IF p \in DOMAIN Before(history, i) THEN Before(history, i)[p] ELSE actual[p]
    BY <1>1, <2>1, LedOnce
  <2> QED
    BY <2>2 DEF v
<1> HIDE DEF b
<1>6. b = [p \in Prop |-> b[p]]
  BY <1>4
<1> QED
  BY <1>5, <1>6 DEF Rewound, b

(* Whenever no write is open and nothing has slipped that the code does    *)
(* not guard against, undoing and reverting bring the camera to exactly    *)
(* what it was set to (UndoHistory with #applyWithoutHistory).             *)
THEOREM LeadsBack ==
  Spec => []HistoryLeadsBack
<1>1. Init => SettingsInv /\ LeadInv
  BY InitIs, InitLeads, SettingsAssumption
<1>2. SettingsInv /\ LeadInv /\ SettingsInv' /\ [Next]_vars => LeadInv'
  BY NextLeads, SettingsAssumption
<1>3. SettingsInv /\ LeadInv => HistoryLeadsBack
  BY LeadsFromHere, SettingsAssumption
<1> QED
  BY <1>1, <1>2, <1>3, SettingsTyped, PTL DEF Spec
=============================================================================
