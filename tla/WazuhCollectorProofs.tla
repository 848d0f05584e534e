------------------------ MODULE WazuhCollectorProofs ------------------------
(***************************************************************************)
(* The standalone collector loses nothing, for any alerts, batch, chunk    *)
(* and look-back: an alert that a checkpoint passes by has been accepted.  *)
(* And as long as nothing fails it accepts none twice.                     *)
(*                                                                         *)
(* The checkpoints are not enough to know, for the next one is made from   *)
(* the page being shipped: while it is, every alert that is neither behind *)
(* the checkpoint nor on the page is at or after everything on the page.   *)
(***************************************************************************)
EXTENDS WazuhCollector, FiniteSetTheorems, TLAPS

(* A checkpoint names alerts that are there, and no time to come.          *)
IsCheckpoint(c) ==
  /\ c \in [ts : Int, seen : SUBSET Alerts]
  /\ c = NoFile \/ c.ts >= 0
  /\ c.ts <= now /\ c.seen \subseteq Indexed

Acked(c) == \A a \in Indexed : origin <= store[a] /\ Covered(c, a) => copies[a] > 0

Clocked ==
  /\ now \in Nat /\ origin \in Int
  /\ store \in [Alerts -> Int]
  /\ \A a \in Alerts : store[a] = Absent \/ (0 <= store[a] /\ store[a] <= now)
  /\ copies \in [Alerts -> Nat]
  /\ toShip \subseteq fresh /\ fresh \subseteq Indexed

(* The page in hand: the earliest of what the checkpoint does not cover,   *)
(* and what is no longer to be shipped has been accepted.                  *)
PageInHand ==
  pc = "shipping" =>
    /\ fresh # {}
    /\ \A a \in Indexed : ~Covered(ckpt, a) /\ a \notin fresh =>
         \A b \in fresh : store[b] <= store[a]
    /\ \A a \in fresh \ toShip : copies[a] > 0

AckInv ==
  /\ Clocked /\ PageInHand
  /\ IsCheckpoint(kept) /\ Acked(kept)
  /\ IsCheckpoint(ckpt) /\ Acked(ckpt)
  /\ disk = Torn \/ (IsCheckpoint(disk) /\ Acked(disk))

LEMMA InitAck == Init => AckInv
<1> SUFFICES ASSUME Init PROVE AckInv
  OBVIOUS
<1>1. Indexed = {}
  BY DEF Init, Indexed
<1>2. IsCheckpoint(NoFile) /\ Acked(NoFile)
  BY <1>1 DEF Init, IsCheckpoint, Acked, NoFile, At, Absent
<1>3. Clocked /\ PageInHand
  BY DEF Init, Clocked, PageInHand, Absent
<1> QED
  BY <1>2, <1>3 DEF Init, AckInv

(* A page that is not empty has a latest timestamp: of the intervals from  *)
(* its timestamps to now there is a smallest one.                          *)
LEMMA LatestExists ==
  ASSUME Clocked, NEW S, S \subseteq Indexed, S # {}
  PROVE  /\ \E a \in S : Latest(S) = store[a]
         /\ \A a \in S : store[a] <= Latest(S)
<1> DEFINE From(a) == store[a]..now
           Froms == {From(a) : a \in S}
<1>1. \A a \in S : store[a] \in Nat /\ store[a] <= now
  BY DEF Clocked, Indexed
<1>2. Froms \subseteq FiniteSubsetsOf(0..now) /\ Froms # {}
  <2> SUFFICES ASSUME NEW a \in S PROVE From(a) \in FiniteSubsetsOf(0..now)
    OBVIOUS
  <2>1. From(a) \subseteq 0..now
    BY <1>1 DEF Clocked
  <2>2. IsFiniteSet(From(a))
    BY <1>1, FS_Interval DEF Clocked
  <2> QED
    BY <2>1, <2>2 DEF FiniteSubsetsOf
<1>3. PICK u \in Froms : \A v \in Froms : <<v, u>> \notin StrictSubsetOrdering(0..now)
  <2>1. IsFiniteSet(0..now)
    BY FS_Interval DEF Clocked
  <2> HIDE DEF Froms
  <2> QED
    BY <1>2, <2>1, FS_StrictSubsetOrderingWellFounded, WFMin
<1>4. PICK a \in S : u = From(a)
  OBVIOUS
<1>5. ASSUME NEW b \in S, store[b] > store[a] PROVE FALSE
  <2>1. /\ From(b) \subseteq u /\ u \subseteq 0..now
        /\ store[a] \in u /\ store[a] \notin From(b)
    BY <1>1, <1>4, <1>5 DEF Clocked
  <2>2. <<From(b), u>> \in StrictSubsetOrdering(0..now)
    BY <2>1 DEF StrictSubsetOrdering
  <2> QED
    BY <1>3, <2>2
<1>6. \A b \in S : store[b] <= store[a]
  BY <1>1, <1>5
<1> QED
  BY <1>6 DEF Latest

(* No checkpoint but the three there are, a clock that goes on and more    *)
(* copies.                                                                 *)
LEMMA SameCheckpoints ==
  ASSUME AckInv, Clocked', PageInHand', origin' = origin, store' = store, now' >= now,
         \A a \in Alerts : copies'[a] >= copies[a],
         kept' \in {kept, ckpt}, ckpt' \in {ckpt, kept}, disk' \in {disk, ckpt, Torn}
  PROVE  AckInv'
<1>1. \A a \in Indexed : a \in Alerts /\ copies[a] \in Nat /\ copies'[a] \in Nat
  BY DEF AckInv, Clocked, Indexed
<1>2. now \in Nat /\ now' \in Nat
  BY DEF AckInv, Clocked
<1>3. IsCheckpoint(kept)' /\ Acked(kept)'
  BY <1>1, <1>2 DEF AckInv, IsCheckpoint, Acked, Covered, Indexed
<1>4. IsCheckpoint(ckpt)' /\ Acked(ckpt)'
  BY <1>1, <1>2 DEF AckInv, IsCheckpoint, Acked, Covered, Indexed
<1>5. disk' = Torn \/ (IsCheckpoint(disk)' /\ Acked(disk)')
  BY <1>1, <1>2 DEF AckInv, IsCheckpoint, Acked, Covered, Indexed, Torn
<1> QED
  BY <1>3, <1>4, <1>5 DEF AckInv, Torn

(* An alert appears at the present time: no checkpoint covers it, and it   *)
(* is not before anything on the page.                                     *)
LEMMA PublishStep ==
  ASSUME AckInv, NEW a \in Alerts, Publish(a)
  PROVE  AckInv'
<1>1. /\ store' = [store EXCEPT ![a] = now] /\ store[a] = Absent
      /\ UNCHANGED <<faults, now, copies, disk, kept, ckpt, fresh, toShip, origin, pc>>
  BY DEF Publish
<1>2. Indexed' = Indexed \union {a} /\ a \notin Indexed /\ Indexed \subseteq Alerts
  BY <1>1 DEF AckInv, Clocked, Indexed, Absent
<1>3. store'[a] = now /\ \A b \in Indexed : store'[b] = store[b]
  BY <1>1, <1>2 DEF AckInv, Clocked
<1>4. Clocked'
  BY <1>1, <1>2 DEF AckInv, Clocked
<1>5. PageInHand'
  <2>1. \A b \in fresh : store[b] <= now
    BY DEF AckInv, Clocked, Indexed
  <2> QED
    BY <1>1, <1>2, <1>3, <2>1 DEF AckInv, Clocked, PageInHand, Covered
<1>6. \A c : IsCheckpoint(c) => ~(now < c.ts \/ a \in c.seen)
  BY <1>2 DEF IsCheckpoint, AckInv, Clocked
<1>7. IsCheckpoint(kept)' /\ Acked(kept)'
  BY <1>1, <1>2, <1>3, <1>6 DEF AckInv, IsCheckpoint, Acked, Covered
<1>8. IsCheckpoint(ckpt)' /\ Acked(ckpt)'
  BY <1>1, <1>2, <1>3, <1>6 DEF AckInv, IsCheckpoint, Acked, Covered
<1>9. disk' = Torn \/ (IsCheckpoint(disk)' /\ Acked(disk)')
  BY <1>1, <1>2, <1>3, <1>6 DEF AckInv, IsCheckpoint, Acked, Covered
<1> QED
  BY <1>1, <1>4, <1>5, <1>7, <1>8, <1>9 DEF AckInv, Torn

(* The collector starts from its file, or looks back for the first time.   *)
LEMMA LoadStep ==
  ASSUME AckInv, Load
  PROVE  AckInv'
<1> DEFINE start == IF now < Lookback THEN 0 ELSE now - Lookback
<1>1. start \in Nat /\ start <= now
  BY CollectorAssumption DEF AckInv, Clocked
<1>2. /\ disk # Torn /\ pc' = "fetching"
      /\ kept' = (IF disk = NoFile THEN At(start, {}) ELSE disk) /\ ckpt' = kept'
      /\ origin' = (IF disk = NoFile THEN start ELSE origin)
      /\ UNCHANGED <<now, store, copies, disk, fresh, toShip>>
  BY DEF Load
<1> HIDE DEF start
<1>3. Clocked' /\ PageInHand'
  BY <1>1, <1>2 DEF AckInv, Clocked, PageInHand, Indexed
<1>4. \A a \in Indexed : store[a] \in Nat
  BY DEF AckInv, Clocked, Indexed
<1>5. CASE disk = NoFile
  <2>1. kept' = At(start, {}) /\ ckpt' = At(start, {}) /\ origin' = start
    BY <1>2, <1>5
  <2>2. IsCheckpoint(kept)' /\ IsCheckpoint(ckpt)'
    BY <1>1, <1>2, <2>1 DEF IsCheckpoint, At
  <2>3. Acked(kept)' /\ Acked(ckpt)'
    BY <1>1, <1>2, <1>4, <2>1 DEF Acked, Covered, At, Indexed
  <2>4. IsCheckpoint(disk)' /\ Acked(disk)'
    BY <1>2, <1>4, <1>5 DEF AckInv, IsCheckpoint, Acked, Covered, Indexed, NoFile, At, Absent
  <2> QED
    BY <1>3, <2>2, <2>3, <2>4 DEF AckInv
<1>6. CASE disk # NoFile
  <2>1. kept' = disk /\ ckpt' = disk /\ origin' = origin /\ disk' = disk
    BY <1>2, <1>6
  <2>2. IsCheckpoint(disk) /\ Acked(disk)
    BY <1>2 DEF AckInv
  <2> QED
    BY <1>2, <1>3, <2>1, <2>2 DEF AckInv, IsCheckpoint, Acked, Covered, Indexed
<1> QED
  BY <1>5, <1>6

(* A page of the search: what it leaves out is not before what is on it.   *)
LEMMA FetchStep ==
  ASSUME AckInv, Fetch
  PROVE  AckInv'
<1>1. PICK page \in Earliest(Matches, BatchSize) :
        /\ fresh' = Fresh(page) /\ toShip' = fresh'
        /\ pc' = (IF fresh' = {} THEN "sleeping" ELSE "shipping")
        /\ kept' = (IF fresh' = {} THEN ckpt ELSE kept)
  BY DEF Fetch
<1>2. UNCHANGED <<now, store, copies, disk, ckpt, origin>>
  BY DEF Fetch
<1>3. /\ page \subseteq Matches
      /\ \A a \in page, b \in Matches \ page : store[a] <= store[b]
  BY DEF Earliest
<1>4. Clocked'
  BY <1>1, <1>2, <1>3 DEF AckInv, Clocked, Fresh, Matches, Indexed
<1>5. PageInHand'
  <2>1. ASSUME NEW a \in Indexed, ~Covered(ckpt, a), a \notin fresh', NEW b \in fresh'
        PROVE  store[b] <= store[a]
    <3>1. a \in Matches \ page /\ b \in page
      BY <1>1, <2>1 DEF Covered, Matches, Fresh, AckInv, Clocked, IsCheckpoint, Indexed
    <3> QED
      BY <1>3, <3>1
  <2> QED
    BY <1>1, <1>2, <2>1 DEF PageInHand, Covered, Indexed
<1> QED
  BY <1>1, <1>2, <1>4, <1>5, SameCheckpoints DEF AckInv, Clocked

(* What a chunk adds to the copies.                                        *)
LEMMA AcceptedCopies ==
  ASSUME AckInv, NEW chunk, chunk \subseteq Indexed, Accepted(chunk)
  PROVE  /\ copies' \in [Alerts -> Nat]
         /\ \A a \in Alerts : copies'[a] >= copies[a]
         /\ \A a \in chunk : copies'[a] > 0
<1>1. copies \in [Alerts -> Nat] /\ MaxCopies \in Nat /\ MaxCopies >= 2 /\ chunk \subseteq Alerts
  BY CollectorAssumption DEF AckInv, Clocked, Indexed
<1> QED
  BY <1>1 DEF Accepted

(* With its last chunk the page moves the checkpoint: what that covers was *)
(* covered before, or is on the page.                                      *)
LEMMA ShipStep ==
  ASSUME AckInv, NEW chunk \in Chunks, Ship(chunk)
  PROVE  AckInv'
<1>1. /\ pc = "shipping" /\ Accepted(chunk) /\ toShip' = toShip \ chunk
      /\ UNCHANGED <<now, store, disk, kept, fresh, origin>>
  BY DEF Ship
<1>2. chunk \subseteq toShip /\ toShip \subseteq fresh /\ fresh \subseteq Indexed
  BY DEF Chunks, Earliest, AckInv, Clocked
<1>3. /\ copies' \in [Alerts -> Nat]
      /\ \A a \in Alerts : copies'[a] >= copies[a]
      /\ \A a \in chunk : copies'[a] > 0
  BY <1>1, <1>2, AcceptedCopies
<1>4. /\ \A a \in fresh \ toShip' : copies'[a] > 0
      /\ fresh # {}
  BY <1>1, <1>2, <1>3 DEF AckInv, PageInHand, Clocked, Indexed
<1>5. Clocked'
  BY <1>1, <1>2, <1>3 DEF AckInv, Clocked, Indexed
<1>6. CASE toShip' # {}
  <2>1. ckpt' = ckpt /\ pc' = pc
    BY <1>6 DEF Ship
  <2>2. PageInHand'
    BY <1>1, <1>4, <2>1 DEF AckInv, PageInHand, Covered, Indexed
  <2> QED
    BY <1>1, <1>3, <1>5, <2>1, <2>2, SameCheckpoints DEF AckInv, Clocked
<1>7. CASE toShip' = {}
  <2> DEFINE last == Latest(fresh)
  <2>1. ckpt' = At(last, SeenAt(last)) /\ pc' = "saving"
    BY <1>1, <1>7 DEF Ship
  <2>2. (\E a \in fresh : last = store[a]) /\ \A a \in fresh : store[a] <= last
    BY <1>2, <1>4, LatestExists DEF AckInv
  <2> HIDE DEF last
  <2>3. last \in Nat /\ last <= now
    BY <1>2, <2>2 DEF AckInv, Clocked, Indexed
  <2>4. SeenAt(last) \subseteq Indexed /\ Indexed \subseteq Alerts
    BY <1>2 DEF SeenAt, AckInv, IsCheckpoint, Indexed
  <2>5. IsCheckpoint(ckpt)'
    BY <1>1, <2>1, <2>3, <2>4 DEF IsCheckpoint, At, Indexed
  <2>6. ASSUME NEW a \in Indexed, origin <= store[a], store[a] < last \/ a \in SeenAt(last)
        PROVE  copies'[a] > 0
    <3>1. copies[a] \in Nat /\ copies'[a] \in Nat /\ copies'[a] >= copies[a]
      BY <1>3, <2>4 DEF AckInv, Clocked
    <3>2. CASE Covered(ckpt, a)
      BY <2>6, <3>1, <3>2 DEF AckInv, Acked
    <3>3. CASE a \in fresh
      BY <1>4, <1>7, <3>3
    <3>4. ASSUME ~Covered(ckpt, a), a \notin fresh PROVE FALSE
      <4>1. \A b \in fresh : store[b] <= store[a]
        BY <1>1, <3>4 DEF AckInv, PageInHand
      <4>2. a \notin SeenAt(last)
        BY <3>4 DEF SeenAt, Covered
      <4>3. store[a] \in Nat
        BY DEF AckInv, Clocked, Indexed
      <4> QED
        BY <2>2, <2>3, <2>6, <4>1, <4>2, <4>3
    <3> QED
      BY <3>2, <3>3, <3>4
  <2>7. Acked(ckpt)'
    BY <1>1, <2>1, <2>6 DEF Acked, Covered, At, Indexed
  <2>8. PageInHand'
    BY <2>1 DEF PageInHand
  <2>9. \A a \in Indexed : a \in Alerts /\ copies[a] \in Nat /\ copies'[a] \in Nat
    BY <1>3 DEF AckInv, Clocked, Indexed
  <2>10. /\ IsCheckpoint(kept)' /\ Acked(kept)'
         /\ disk' = Torn \/ (IsCheckpoint(disk)' /\ Acked(disk)')
    BY <1>1, <1>3, <2>9 DEF AckInv, IsCheckpoint, Acked, Covered, Indexed
  <2> QED
    BY <1>5, <2>5, <2>7, <2>8, <2>10 DEF AckInv, Torn
<1> QED
  BY <1>6, <1>7

LEMMA NextAck == AckInv /\ [Next]_vars => AckInv'
<1> SUFFICES ASSUME AckInv, [Next]_vars PROVE AckInv'
  OBVIOUS
<1>1. now \in Nat /\ copies \in [Alerts -> Nat]
  BY DEF AckInv, Clocked
<1>2. ASSUME store' = store, origin' = origin, copies' = copies, fresh' = fresh, toShip' = toShip,
             now' \in Nat, now' >= now,
             pc' # "shipping" \/ (pc' = pc /\ ckpt' = ckpt),
             kept' \in {kept, ckpt}, ckpt' \in {ckpt, kept}, disk' \in {disk, ckpt, Torn}
      PROVE  AckInv'
  <2>1. Clocked'
    BY <1>1, <1>2 DEF AckInv, Clocked, Indexed
  <2>2. PageInHand'
    BY <1>2 DEF AckInv, PageInHand, Covered, Indexed
  <2> QED
    BY <1>1, <1>2, <2>1, <2>2, SameCheckpoints
<1>3. CASE UNCHANGED vars
  BY <1>1, <1>2, <1>3 DEF vars
<1>4. CASE Tick
  BY <1>1, <1>2, <1>4 DEF Tick
<1>5. ASSUME NEW a \in Alerts, Publish(a) PROVE AckInv'
  BY <1>5, PublishStep
<1>6. CASE Load
  BY <1>6, LoadStep
<1>7. CASE Fetch
  BY <1>7, FetchStep
<1>8. ASSUME NEW chunk \in Chunks, Ship(chunk) PROVE AckInv'
  BY <1>8, ShipStep
<1>9. CASE Truncate \/ Write \/ Wake
  BY <1>1, <1>2, <1>9 DEF Truncate, Write, Wake
<1>10. CASE FetchFails \/ ShipFails \/ Crash
  BY <1>1, <1>2, <1>10 DEF FetchFails, ShipFails, Crash
<1>11. ASSUME NEW chunk \in Chunks, ReplyLost(chunk) PROVE AckInv'
  <2>1. /\ Accepted(chunk) /\ pc' = "sleeping"
        /\ UNCHANGED <<now, store, disk, kept, ckpt, fresh, toShip, origin>>
    BY <1>11 DEF ReplyLost
  <2>2. chunk \subseteq Indexed
    BY DEF Chunks, Earliest, AckInv, Clocked
  <2>3. copies' \in [Alerts -> Nat] /\ \A a \in Alerts : copies'[a] >= copies[a]
    BY <2>1, <2>2, AcceptedCopies
  <2>4. Clocked' /\ PageInHand'
    BY <2>1, <2>3 DEF AckInv, Clocked, PageInHand, Indexed
  <2> QED
    BY <1>1, <2>1, <2>3, <2>4, SameCheckpoints
<1> QED
  BY <1>3, <1>4, <1>5, <1>6, <1>7, <1>8, <1>9, <1>10, <1>11 DEF Next, CycleStep

(* "the checkpoint only advances after ARGUS accepts the batch": whatever  *)
(* search, POST or reply is lost and whenever the collector is killed, an  *)
(* alert that a checkpoint passes by has been accepted.                    *)
THEOREM NothingPassedBy == Spec => []AtLeastOnce
<1>1. AckInv => AtLeastOnce
  BY DEF AckInv, Acked, AtLeastOnce
<1> QED
  BY <1>1, InitAck, NextAck, PTL DEF Spec
-----------------------------------------------------------------------------
(* While nothing fails: what has been accepted is covered by the           *)
(* checkpoint or was part of the page in hand; the ids a checkpoint        *)
(* remembers are not past it; main sleeps on run_cycle's checkpoint, and   *)
(* has not come down since it first came up.                               *)
Dealt(a) == Covered(ckpt, a) \/ (pc = "shipping" /\ a \in fresh \ toShip)

OnceInv ==
  faults = {} =>
    /\ \A a \in Alerts : copies[a] <= 1 /\ (copies[a] > 0 => a \in Indexed /\ Dealt(a))
    /\ \A a \in ckpt.seen : store[a] <= ckpt.ts
    /\ pc = "shipping" => \A a \in fresh : ~Covered(ckpt, a)
    /\ pc = "sleeping" => kept = ckpt
    /\ pc = "down" => disk = NoFile /\ \A a \in Alerts : copies[a] = 0

LEMMA InitOnce == Init => OnceInv
  BY DEF Init, OnceInv, NoFile, At, Absent

(* An alert appears: it was not there to be accepted, nor to be seen.      *)
LEMMA PublishOnce ==
  ASSUME AckInv, OnceInv, NEW a \in Alerts, Publish(a)
  PROVE  OnceInv'
<1> SUFFICES ASSUME faults = {} PROVE OnceInv'
  BY DEF OnceInv, Publish
<1>1. /\ store' = [store EXCEPT ![a] = now] /\ store[a] = Absent
      /\ UNCHANGED <<faults, now, copies, disk, kept, ckpt, fresh, toShip, origin, pc>>
  BY DEF Publish
<1>2. Indexed' = Indexed \union {a} /\ a \notin Indexed /\ Indexed \subseteq Alerts
  BY <1>1 DEF AckInv, Clocked, Indexed, Absent
<1>3. \A b \in Indexed : store'[b] = store[b]
  BY <1>1, <1>2 DEF AckInv, Clocked
<1>4. fresh \subseteq Indexed /\ ckpt.seen \subseteq Indexed
  BY DEF AckInv, Clocked, IsCheckpoint
<1> QED
  BY <1>1, <1>2, <1>3, <1>4 DEF OnceInv, Dealt, Covered

(* A page has nothing of what the checkpoint covers.                       *)
LEMMA FetchOnce ==
  ASSUME AckInv, OnceInv, Fetch
  PROVE  OnceInv'
<1> SUFFICES ASSUME faults = {} PROVE OnceInv'
  BY DEF OnceInv, Fetch
<1>1. PICK page \in Earliest(Matches, BatchSize) :
        /\ fresh' = Fresh(page) /\ toShip' = fresh'
        /\ pc' = (IF fresh' = {} THEN "sleeping" ELSE "shipping")
        /\ kept' = (IF fresh' = {} THEN ckpt ELSE kept)
  BY DEF Fetch
<1>2. UNCHANGED <<faults, now, store, copies, disk, ckpt, origin>> /\ pc = "fetching"
  BY DEF Fetch
<1>3. \A a \in fresh' : ~Covered(ckpt, a)
  <2> SUFFICES ASSUME NEW a \in fresh' PROVE ~Covered(ckpt, a)
    OBVIOUS
  <2>1. a \in Indexed /\ store[a] >= ckpt.ts /\ a \notin ckpt.seen
    BY <1>1 DEF Earliest, Matches, Fresh
  <2>2. store[a] \in Int /\ ckpt.ts \in Int
    BY <2>1 DEF AckInv, Clocked, IsCheckpoint, Indexed
  <2> QED
    BY <2>1, <2>2 DEF Covered
<1> QED
  BY <1>1, <1>2, <1>3 DEF OnceInv, Dealt, Covered, Indexed

(* A chunk is of alerts not yet accepted, and the checkpoint that follows  *)
(* the last one covers the page and all that was covered before.           *)
LEMMA ShipOnce ==
  ASSUME AckInv, OnceInv, NEW chunk \in Chunks, Ship(chunk)
  PROVE  OnceInv'
<1> SUFFICES ASSUME faults = {} PROVE OnceInv'
  BY DEF OnceInv, Ship
<1>1. /\ pc = "shipping" /\ Accepted(chunk) /\ toShip' = toShip \ chunk
      /\ UNCHANGED <<faults, now, store, disk, kept, fresh, origin>>
  BY DEF Ship
<1>2. chunk \subseteq toShip /\ toShip \subseteq fresh /\ fresh \subseteq Indexed
      /\ Indexed \subseteq Alerts /\ fresh # {}
  BY <1>1 DEF Chunks, Earliest, AckInv, Clocked, Indexed, PageInHand
<1>3. /\ \A a \in Alerts : copies[a] \in Nat /\ copies[a] <= 1
      /\ \A a \in Alerts : copies[a] > 0 => a \in Indexed /\ Dealt(a)
      /\ \A a \in fresh : ~Covered(ckpt, a)
      /\ \A a \in ckpt.seen : store[a] <= ckpt.ts
  BY <1>1 DEF OnceInv, AckInv, Clocked
<1>4. \A a \in chunk : copies[a] = 0
  BY <1>2, <1>3 DEF Dealt
<1>5. \A a \in Alerts : copies'[a] = IF a \in chunk THEN 1 ELSE copies[a]
  BY <1>1, <1>3, <1>4, CollectorAssumption DEF Accepted
<1>6. CASE toShip' # {}
  <2>1. ckpt' = ckpt /\ pc' = pc
    BY <1>6 DEF Ship
  <2> QED
    BY <1>1, <1>2, <1>3, <1>5, <2>1 DEF OnceInv, Dealt, Covered, Indexed
<1>7. CASE toShip' = {}
  <2> DEFINE last == Latest(fresh)
  <2>1. ckpt' = At(last, SeenAt(last)) /\ pc' = "saving"
    BY <1>1, <1>7 DEF Ship
  <2>2. (\E a \in fresh : last = store[a]) /\ \A a \in fresh : store[a] <= last
    BY <1>2, LatestExists DEF AckInv
  <2> HIDE DEF last
  <2>3. \A a \in Indexed : store[a] \in Nat
    BY DEF AckInv, Clocked, Indexed
  <2>4. last \in Nat /\ ckpt.ts \in Int /\ ckpt.seen \subseteq Indexed
    BY <1>2, <2>2, <2>3 DEF AckInv, IsCheckpoint
  <2>5. ckpt.ts <= last
    BY <1>2, <1>3, <2>2, <2>3, <2>4 DEF Covered
  <2>6. \A a \in SeenAt(last) : store[a] <= last
    BY <1>2, <1>3, <2>3, <2>4, <2>5 DEF SeenAt
  <2>7. ASSUME NEW a \in Indexed, Covered(ckpt, a) \/ a \in fresh
        PROVE  store[a] < last \/ a \in SeenAt(last)
    <3>1. CASE a \in fresh
      BY <1>2, <2>2, <2>3, <2>4, <3>1 DEF SeenAt
    <3>2. CASE Covered(ckpt, a)
      BY <1>3, <2>3, <2>4, <2>5, <3>2 DEF SeenAt, Covered
    <3> QED
      BY <2>7, <3>1, <3>2
  <2>8. \A a \in Alerts : copies'[a] > 0 => a \in Indexed /\ (store[a] < last \/ a \in SeenAt(last))
    BY <1>2, <1>3, <1>5, <2>7 DEF Dealt
  <2> QED
    BY <1>1, <1>3, <1>5, <2>1, <2>6, <2>8 DEF OnceInv, Dealt, Covered, At, Indexed
<1> QED
  BY <1>6, <1>7

LEMMA NextOnce == AckInv /\ OnceInv /\ [Next]_vars => OnceInv'
<1> SUFFICES ASSUME AckInv, OnceInv, [Next]_vars PROVE OnceInv'
  OBVIOUS
<1>1. CASE Tick \/ UNCHANGED vars
  BY <1>1 DEF Tick, vars, OnceInv, Dealt, Covered, Indexed
<1>2. ASSUME NEW a \in Alerts, Publish(a) PROVE OnceInv'
  BY <1>2, PublishOnce
<1>3. CASE Load
  <2>1. /\ UNCHANGED <<faults, store, copies, disk>> /\ pc = "down" /\ pc' = "fetching"
        /\ disk = NoFile => ckpt'.seen = {}
    BY <1>3 DEF Load, At
  <2>2. copies \in [Alerts -> Nat]
    BY DEF AckInv, Clocked
  <2> QED
    BY <2>1, <2>2 DEF OnceInv
<1>4. CASE Fetch
  BY <1>4, FetchOnce
<1>5. ASSUME NEW chunk \in Chunks, Ship(chunk) PROVE OnceInv'
  BY <1>5, ShipOnce
<1>6. CASE Truncate \/ Write
  BY <1>6 DEF Truncate, Write, OnceInv, Dealt, Covered, Indexed
<1>7. CASE Wake
  BY <1>7 DEF Wake, OnceInv, Dealt, Covered, Indexed
<1>8. CASE FetchFails \/ ShipFails \/ Crash \/ \E chunk \in Chunks : ReplyLost(chunk)
  BY <1>8 DEF FetchFails, ShipFails, Crash, ReplyLost, OnceInv
<1> QED
  BY <1>1, <1>2, <1>3, <1>4, <1>5, <1>6, <1>7, <1>8 DEF Next, CycleStep

(* "Boundary duplicates are filtered": in a behaviour without faults no    *)
(* alert is accepted twice, however many share a timestamp or a page ends  *)
(* between them.                                                           *)
THEOREM NothingShippedTwice == Spec => []ShippedOnce
<1>1. OnceInv => ShippedOnce
  BY DEF OnceInv, ShippedOnce
<1> QED
  BY <1>1, InitAck, NextAck, InitOnce, NextOnce, PTL DEF Spec
-----------------------------------------------------------------------------
(* The bounds of the clock and of the copies, and what the checkpoint in   *)
(* hand does not cover.                                                    *)
Bounded ==
  /\ faults \in Scenarios /\ now <= MaxTime
  /\ origin \in Absent..now
  /\ \A a \in Alerts : copies[a] <= MaxCopies
  /\ pc \in {"down", "fetching", "shipping", "saving", "writing", "sleeping"}
  /\ pc = "shipping" => \A a \in fresh : ~Covered(ckpt, a)

LEMMA InitBounded == Init => Bounded
  BY CollectorAssumption DEF Init, Bounded, Absent

LEMMA AcceptedBounded ==
  ASSUME AckInv, Bounded, NEW chunk, Accepted(chunk)
  PROVE  \A a \in Alerts : copies'[a] <= MaxCopies
BY CollectorAssumption DEF AckInv, Clocked, Bounded, Accepted

LEMMA NextBounded == AckInv /\ Bounded /\ [Next]_vars => Bounded'
<1> SUFFICES ASSUME AckInv, Bounded, [Next]_vars PROVE Bounded'
  OBVIOUS
<1>1. CASE Tick
  BY <1>1, CollectorAssumption DEF Tick, Bounded, Covered, AckInv, Clocked, Absent
<1>2. CASE UNCHANGED vars
  BY <1>2 DEF vars, Bounded, Covered
<1>3. ASSUME NEW a \in Alerts, Publish(a) PROVE Bounded'
  <2>1. /\ store' = [store EXCEPT ![a] = now] /\ store[a] = Absent
        /\ UNCHANGED <<faults, now, copies, disk, kept, ckpt, fresh, toShip, origin, pc>>
    BY <1>3 DEF Publish
  <2>2. a \notin fresh /\ fresh \subseteq Alerts
    BY <2>1 DEF AckInv, Clocked, Indexed
  <2>3. \A b \in fresh : store'[b] = store[b]
    BY <2>1, <2>2 DEF AckInv, Clocked
  <2> QED
    BY <2>1, <2>3 DEF Bounded, Covered
<1>4. CASE Load
  <2> DEFINE start == IF now < Lookback THEN 0 ELSE now - Lookback
  <2>1. start \in Absent..now
    BY CollectorAssumption DEF AckInv, Clocked, Absent
  <2>2. /\ pc' = "fetching" /\ origin' = (IF disk = NoFile THEN start ELSE origin)
        /\ UNCHANGED <<faults, now, copies>>
    BY <1>4 DEF Load
  <2> HIDE DEF start
  <2> QED
    BY <2>1, <2>2 DEF Bounded
<1>5. CASE Fetch
  <2>1. PICK page \in Earliest(Matches, BatchSize) :
          fresh' = Fresh(page) /\ pc' = (IF fresh' = {} THEN "sleeping" ELSE "shipping")
    BY <1>5 DEF Fetch
  <2>2. UNCHANGED <<faults, now, store, copies, ckpt, origin>>
    BY <1>5 DEF Fetch
  <2>3. ASSUME NEW a \in fresh' PROVE ~Covered(ckpt, a)
    <3>1. a \in Indexed /\ store[a] >= ckpt.ts /\ a \notin ckpt.seen
      BY <2>1 DEF Earliest, Matches, Fresh
    <3>2. store[a] \in Int /\ ckpt.ts \in Int
      BY <3>1 DEF AckInv, Clocked, IsCheckpoint, Indexed
    <3> QED
      BY <3>1, <3>2 DEF Covered
  <2> QED
    BY <2>1, <2>2, <2>3 DEF Bounded, Covered
<1>6. ASSUME NEW chunk \in Chunks, Ship(chunk) PROVE Bounded'
  <2>1. /\ pc = "shipping" /\ UNCHANGED <<faults, now, store, origin, fresh>>
        /\ (pc' = "saving" \/ (pc' = pc /\ ckpt' = ckpt))
    BY <1>6 DEF Ship
  <2>2. \A a \in Alerts : copies'[a] <= MaxCopies
    BY <1>6, AcceptedBounded DEF Ship
  <2> QED
    BY <2>1, <2>2 DEF Bounded, Covered
<1>7. CASE Truncate \/ Write \/ Wake \/ FetchFails \/ ShipFails \/ Crash
  BY <1>7 DEF Truncate, Write, Wake, FetchFails, ShipFails, Crash, Bounded
<1>8. ASSUME NEW chunk \in Chunks, ReplyLost(chunk) PROVE Bounded'
  <2>1. \A a \in Alerts : copies'[a] <= MaxCopies
    BY <1>8, AcceptedBounded DEF ReplyLost
  <2>2. pc' = "sleeping" /\ UNCHANGED <<faults, now, origin>>
    BY <1>8 DEF ReplyLost
  <2> QED
    BY <2>1, <2>2 DEF Bounded
<1> QED
  BY <1>1, <1>2, <1>3, <1>4, <1>5, <1>6, <1>7, <1>8 DEF Next, CycleStep

(* Every variable keeps its type, whatever fails: a checkpoint is of a     *)
(* time that has been, names alerts that are there, and while a page is    *)
(* being shipped the checkpoint covers none of it.                         *)
THEOREM CollectorIsTyped == Spec => []TypeOK
<1>1. AckInv /\ Bounded => TypeOK
  <2> SUFFICES ASSUME AckInv, Bounded PROVE TypeOK
    OBVIOUS
  <2>1. now \in 0..MaxTime /\ Absent..now \subseteq Int
    BY CollectorAssumption DEF AckInv, Clocked, Bounded
  <2>2. store \in [Alerts -> Absent..now] /\ copies \in [Alerts -> 0..MaxCopies]
    BY CollectorAssumption DEF AckInv, Clocked, Bounded, Absent
  <2>3. ASSUME NEW c, IsCheckpoint(c) PROVE c \in Checkpoints
    <3>1. /\ c = [ts |-> c.ts, seen |-> c.seen] /\ c.seen \subseteq Alerts /\ c.ts \in Int
          /\ c = NoFile \/ c.ts >= 0
      BY <2>3 DEF IsCheckpoint
    <3>2. c.ts <= now
      BY <2>3 DEF IsCheckpoint
    <3>3. c = NoFile => c.ts = Absent
      BY DEF NoFile, At
    <3>4. c.ts \in Absent..MaxTime
      BY <2>1, <3>1, <3>2, <3>3, CollectorAssumption DEF Absent
    <3> QED
      BY <3>1, <3>4 DEF Checkpoints
  <2>4. Torn \in Checkpoints
    BY CollectorAssumption DEF Torn, At, Checkpoints, Absent
  <2>5. {disk, kept, ckpt} \subseteq Checkpoints
    BY <2>3, <2>4 DEF AckInv
  <2>6. toShip \subseteq fresh /\ fresh \subseteq Indexed
    BY DEF AckInv, Clocked
  <2> QED
    BY <2>1, <2>2, <2>5, <2>6 DEF TypeOK, Bounded
<1> QED
  BY <1>1, InitAck, NextAck, InitBounded, NextBounded, PTL DEF Spec
=============================================================================
