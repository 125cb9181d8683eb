------------------------ MODULE EndpointEventsProofs ------------------------
(***************************************************************************)
(* Proofs about EndpointEvents for any number of Events, kinds of status   *)
(* and Fast DDS threads: what a status change and the destructor of the    *)
(* endpoint promise to the Events, in every order of the two.              *)
(***************************************************************************)
EXTENDS EndpointEvents, FiniteSetTheorems, TLAPS

-----------------------------------------------------------------------------
(* The inductive invariant.                                                *)

Creating == {"installing", "attached", "cursor"}
Usable   == {"live", "taking"}
Records  == [at : {"out", "update", "notify", "leave"}, type : EventTypes,
             limit : 0..IdMax, prev : 0..IdMax, all : BOOLEAN]

SourceTyped ==
    /\ slots \in [EventTypes -> 0..GenMax] /\ records \subseteq Events
    /\ nextId \in 0..IdMax /\ idOf \in [Events -> 0..IdMax] /\ exhausted \in BOOLEAN
UserTyped ==
    /\ ev \in [Events -> {"none", "gone"} \cup Creating \cup Usable]
    /\ evType \in [Events -> EventTypes]
    /\ cursor \in [Events -> Int] /\ seen \in [Events -> Int]
    /\ base \in [Events -> Int] /\ got \in [Events -> Int]
FlagsTyped ==
    /\ pending \in [Events -> BOOLEAN] /\ closing \in [Events -> BOOLEAN]
    /\ woken \in [Events -> BOOLEAN]
LifeTyped ==
    /\ install \in {"Detached", "Installing", "Attached"}
    /\ dtor \in {"none", "close", "detach", "drain", "deleted", "left"}
    /\ toClose \subseteq Events /\ ddsListener \in BOOLEAN
CallbackTyped ==
    /\ gate \in [accepting : BOOLEAN, inFlight : Int] /\ cb \in [Callbacks -> Records]
    /\ \A c \in Callbacks : cb[c].at = "update" => cb[c].prev = 0

Typed == SourceTyped /\ UserTyped /\ FlagsTyped /\ LifeTyped /\ CallbackTyped

\* Registration ids grow and are not used again.
Ids ==
    /\ \A e \in records : idOf[e] # 0 /\ (nextId # 0 => idOf[e] < nextId)
    /\ \A d, e \in records : idOf[d] = idOf[e] => d = e

\* An Event a user has is registered, or the destructor has closed it or will.
Recorded ==
    /\ \A e \in records : ev[e] \in Usable
    /\ \A e \in Events : ev[e] \in Usable => e \in records \/ e \in toClose \/ closing[e]
    /\ dtor = "none" => toClose = {}
    /\ dtor # "none" => records = {} /\ \A e \in Events : ev[e] \notin Creating
    /\ dtor \notin {"none", "close"} => toClose = {}

\* What an Event has reported lies between its creation and its cursor, and
\* only a generation beyond the cursor, or the last one, makes it ready.
Cursors ==
    \A e \in Events :
        /\ ev[e] \notin Usable => ~pending[e] /\ woken[e]
        /\ ev[e] \in {"none"} \cup Creating => got[e] = 0
        /\ ev[e] = "cursor" => cursor[e] = base[e]
        /\ ev[e] \in {"cursor"} \cup Usable => cursor[e] <= slots[evType[e]]
        /\ ev[e] \in Usable => got[e] = cursor[e] - base[e]
        /\ ev[e] = "taking" => cursor[e] < seen[e] /\ seen[e] <= slots[evType[e]]
        /\ ev[e] = "live" /\ pending[e] => exhausted \/ cursor[e] < slots[evType[e]]

\* The gate counts the callbacks inside it.
Entered == {c \in Callbacks : cb[c].at # "out"}
Gated == gate.inFlight = Cardinality(Entered)

\* The listener is detached before the endpoint is deleted.
Detached ==
    /\ dtor \in {"drain", "deleted"} => ~ddsListener
    /\ dtor = "deleted" => gate.inFlight = 0
    /\ dtor = "left" => (ddsListener => quarantined)

\* Who is not notified since a change will be, ready or not.
Awaited(e) == \E c \in Callbacks : cb[c].at = "notify" /\ e \in LeftToNotify(c)
Notified == \A e \in records : ~woken[e] => Awaited(e)

EventInv == Typed /\ Ids /\ Recorded /\ Cursors /\ Gated /\ Detached /\ Notified

-----------------------------------------------------------------------------
(* Initially nobody is inside the listener and no Event exists.            *)

LEMMA IdleTyped == Idle \in Records /\ Idle.at = "out" /\ Idle.prev = 0
  <1>1. (CHOOSE y \in EventTypes : TRUE) \in EventTypes
    BY EventAssumption
  <1>2. QED
    BY <1>1, EventAssumption DEF Idle, Records

LEMMA InitInv == EventInit => EventInv
  <1> SUFFICES ASSUME EventInit PROVE EventInv
    OBVIOUS
  <1>1. (CHOOSE y \in EventTypes : TRUE) \in EventTypes
    BY EventAssumption
  <1>2. Typed
    <2>0. exhausted \in BOOLEAN /\ ddsListener \in BOOLEAN
      BY Zenon DEF EventInit
    <2>1. SourceTyped
      BY <2>0, EventAssumption DEF EventInit, SourceTyped
    <2> LifeTyped
      BY <2>0 DEF EventInit, LifeTyped
    <2> UserTyped
      BY <1>1 DEF EventInit, UserTyped
    <2>2. FlagsTyped
      BY DEF EventInit, FlagsTyped
    <2>3. CallbackTyped
      BY IdleTyped DEF EventInit, CallbackTyped
    <2>4. QED
      BY <2>1, <2>2, <2>3 DEF Typed
  <1>3. Ids /\ Recorded /\ Detached /\ Notified
    BY DEF EventInit, Ids, Recorded, Detached, Notified, Usable, Creating
  <1>4. Cursors
    BY <1>1, EventAssumption DEF EventInit, Cursors, Usable, Creating
  <1>5. Gated
    <2>1. Entered = {}
      BY IdleTyped DEF EventInit, Entered
    <2>2. QED
      BY <2>1, FS_EmptySet DEF EventInit, Gated
  <1>6. QED
    BY <1>2, <1>3, <1>4, <1>5 DEF EventInv

-----------------------------------------------------------------------------
(* Callbacks.                                                              *)

LEMMA EnteredFinite == IsFiniteSet(Entered) /\ Cardinality(Entered) \in Nat
  <1>1. Entered \subseteq Callbacks
    BY DEF Entered
  <1>2. QED
    BY <1>1, EventAssumption, FS_Subset, FS_CardinalityType

\* A callback that stays inside, or outside, leaves the count alone.
LEMMA SameEntered ==
  ASSUME \A c \in Callbacks : cb'[c].at = "out" <=> cb[c].at = "out", gate'.inFlight = gate.inFlight, Gated
  PROVE  Gated'
  BY DEF Gated, Entered

LEMMA EnterKeeps ==
  ASSUME EventInv, NEW c \in Callbacks, NEW y \in EventTypes, EnterCallback(c, y)
  PROVE  EventInv'
  <1> DEFINE new == [Idle EXCEPT !.at = "update", !.type = y]
  <1>1. new \in Records /\ new.at = "update" /\ new.prev = 0
    BY IdleTyped DEF Records
  <1>2. /\ cb' = [cb EXCEPT ![c] = new] /\ cb[c].at = "out" /\ ddsListener /\ gate.accepting
        /\ gate' = [gate EXCEPT !.inFlight = @ + 1]
        /\ UNCHANGED <<sourceVars, userVars, lifeVars, pending, woken>>
    BY DEF EnterCallback
  <1> HIDE DEF new
  <1>3. Typed'
    BY <1>1, <1>2 DEF EventInv, Typed, SourceTyped, UserTyped, FlagsTyped, LifeTyped, CallbackTyped,
                      sourceVars, userVars, lifeVars
  <1>4. Ids' /\ Recorded' /\ Cursors'
    BY <1>2 DEF EventInv, Ids, Recorded, Cursors, sourceVars, userVars, lifeVars
  <1>5. Gated'
    <2>1. Entered' = Entered \cup {c} /\ c \notin Entered
      BY <1>1, <1>2 DEF EventInv, Typed, CallbackTyped, Entered
    <2>2. Cardinality(Entered') = Cardinality(Entered) + 1
      BY <2>1, EnteredFinite, FS_AddElement
    <2>3. gate'.inFlight = gate.inFlight + 1
      BY <1>2 DEF EventInv, Typed, CallbackTyped
    <2>4. QED
      BY <2>2, <2>3 DEF EventInv, Gated
  <1>6. Detached'
    BY <1>2 DEF EventInv, Detached, lifeVars
  <1>7. Notified'
    <2>1. \A d \in Callbacks : cb[d].at = "notify" => cb'[d] = cb[d]
      BY <1>2 DEF EventInv, Typed, CallbackTyped
    <2>2. QED
      BY <1>2, <2>1 DEF EventInv, Notified, Awaited, LeftToNotify, sourceVars, userVars
  <1>8. QED
    BY <1>3, <1>4, <1>5, <1>6, <1>7 DEF EventInv

LEMMA UpdateKeeps ==
  ASSUME EventInv, NEW c \in Callbacks, UpdateTotals(c)
  PROVE  EventInv'
  <1>1. /\ cb[c].at = "update" /\ cb[c].prev = 0 /\ cb[c] \in Records
        /\ UNCHANGED <<records, nextId, idOf, userVars, lifeVars, gate>>
    BY DEF EventInv, Typed, CallbackTyped, UpdateTotals
  <1> DEFINE y == cb[c].type
             all == slots[y] = GenMax
             hit == {e \in records : all \/ evType[e] = y}
             last == (IF nextId = 0 THEN IdMax + 1 ELSE nextId) - 1
  <1>2. CASE exhausted
    <2>1. cb' = [cb EXCEPT ![c].at = "leave"] /\ UNCHANGED <<slots, exhausted, pending, woken>>
      BY <1>2 DEF UpdateTotals
    <2>2. /\ \A d \in Callbacks : d # c => cb'[d] = cb[d]
          /\ cb'[c] = [cb[c] EXCEPT !.at = "leave"] /\ cb'[c].at = "leave" /\ cb' \in [Callbacks -> Records]
      BY <1>1, <2>1 DEF EventInv, Typed, CallbackTyped, Records
    <2>3. Typed'
      BY <1>1, <2>1, <2>2 DEF EventInv, Typed, SourceTyped, UserTyped, FlagsTyped, LifeTyped, CallbackTyped,
                      userVars, lifeVars
    <2>4. Ids' /\ Recorded' /\ Cursors' /\ Detached'
      BY <1>1, <2>1 DEF EventInv, Ids, Recorded, Cursors, Detached, userVars, lifeVars
    <2>5. Gated'
      BY <1>1, <2>2, SameEntered DEF EventInv
    <2>6. Notified'
      BY <1>1, <2>1, <2>2 DEF EventInv, Notified, Awaited, LeftToNotify, userVars
    <2>7. QED
      BY <2>3, <2>4, <2>5, <2>6 DEF EventInv
  <1>3. CASE ~exhausted
    <2>1. /\ slots' = IF all THEN slots ELSE [slots EXCEPT ![y] = @ + 1]
          /\ exhausted' = all
          /\ pending' = [e \in Events |-> pending[e] \/ e \in hit]
          /\ woken' = [e \in Events |-> woken[e] /\ e \notin hit]
          /\ cb' = [cb EXCEPT ![c] = [@ EXCEPT !.at = "notify", !.all = all, !.limit = last]]
      BY <1>3 DEF UpdateTotals
    <2>2. y \in EventTypes /\ last \in 0..IdMax /\ all \in BOOLEAN /\ hit \subseteq records
      BY <1>1, EventAssumption DEF EventInv, Typed, SourceTyped, Records
    <2>3. \A e \in records : idOf[e] \in 1..last
      BY <2>2, EventAssumption DEF EventInv, Typed, SourceTyped, Ids
    <2>4. \A e \in Events : e \in hit <=> e \in records /\ (all \/ evType[e] = y)
      OBVIOUS
    <2> HIDE DEF all, last, hit
    <2>5. /\ \A d \in Callbacks : d # c => cb'[d] = cb[d]
          /\ cb'[c].at = "notify" /\ cb'[c].all = all /\ cb'[c].limit = last /\ cb'[c].prev = 0
          /\ cb'[c].type = y /\ cb' \in [Callbacks -> Records]
      BY <1>1, <2>1, <2>2 DEF EventInv, Typed, CallbackTyped, Records
    <2>6. /\ slots' \in [EventTypes -> 0..GenMax] /\ \A z \in EventTypes : slots[z] <= slots'[z]
          /\ all \/ slots'[y] = slots[y] + 1
      BY <2>1, <2>2, EventAssumption DEF all, EventInv, Typed, SourceTyped
    <2>7. Typed'
      <3>1. SourceTyped' /\ UserTyped' /\ LifeTyped'
        BY <1>1, <2>1, <2>2, <2>6 DEF EventInv, Typed, SourceTyped, UserTyped, LifeTyped, userVars, lifeVars
      <3>2. CallbackTyped'
        BY <1>1, <2>5 DEF EventInv, Typed, CallbackTyped
      <3>3. FlagsTyped'
        <4>1. \A e \in Events : (pending[e] \/ e \in hit) \in BOOLEAN /\ (woken[e] /\ e \notin hit) \in BOOLEAN
          OBVIOUS
        <4>2. pending' \in [Events -> BOOLEAN] /\ woken' \in [Events -> BOOLEAN]
          BY <2>1, <4>1
        <4>3. QED
          BY <1>1, <4>2 DEF EventInv, Typed, FlagsTyped, userVars
      <3>4. QED
        BY <3>1, <3>2, <3>3 DEF Typed
    <2>8. Ids' /\ Recorded' /\ Detached'
      BY <1>1 DEF EventInv, Ids, Recorded, Detached, userVars, lifeVars
    <2>9. Gated'
      BY <1>1, <2>5, SameEntered DEF EventInv
    <2>10. Cursors'
      <3>1. ASSUME NEW e \in Events
            PROVE  /\ pending'[e] <=> pending[e] \/ e \in hit
                   /\ woken'[e] <=> woken[e] /\ e \notin hit
                   /\ e \in hit => ev[e] \in Usable
                   /\ e \in hit => exhausted' \/ slots'[evType[e]] = slots[evType[e]] + 1
        BY <2>1, <2>4, <2>6, <3>1 DEF EventInv, Recorded
      <3>2. \A e \in Events : /\ evType[e] \in EventTypes /\ cursor[e] \in Int
                              /\ slots[evType[e]] \in Int /\ slots'[evType[e]] \in Int
        BY <2>6 DEF EventInv, Typed, SourceTyped, UserTyped
      <3>3. UNCHANGED <<ev, evType, cursor, seen, base, got>> /\ seen \in [Events -> Int]
        BY <1>1 DEF userVars, EventInv, Typed, UserTyped
      <3>4. QED
        BY <1>3, <2>6, <3>1, <3>2, <3>3 DEF EventInv, Cursors, Usable, Creating
    <2>11. Notified'
      <3> SUFFICES ASSUME NEW e \in records', ~woken'[e] PROVE Awaited(e)'
        BY DEF Notified
      <3>1. e \in records /\ e \in Events /\ UNCHANGED <<records, idOf, evType>>
        BY <1>1 DEF userVars, EventInv, Typed, SourceTyped
      <3>2. CASE e \in hit
        <4>1. e \in LeftToNotify(c)'
          BY <2>3, <2>4, <2>5, <3>1, <3>2 DEF LeftToNotify
        <4>2. QED
          BY <2>5, <4>1 DEF Awaited
      <3>3. CASE e \notin hit
        <4>1. ~woken[e]
          BY <2>1, <3>1, <3>3
        <4>2. PICK d \in Callbacks : cb[d].at = "notify" /\ e \in LeftToNotify(d)
          BY <3>1, <4>1 DEF EventInv, Notified, Awaited
        <4>3. d # c /\ cb'[d] = cb[d]
          BY <1>1, <2>5, <4>2
        <4>4. QED
          BY <3>1, <4>2, <4>3 DEF Awaited, LeftToNotify
      <3>4. QED
        BY <3>2, <3>3
    <2>12. QED
      BY <2>7, <2>8, <2>9, <2>10, <2>11 DEF EventInv
  <1>4. QED
    BY <1>2, <1>3

LEMMA NotifyKeeps ==
  ASSUME EventInv, NEW c \in Callbacks, NotifyOne(c)
  PROVE  EventInv'
  <1>1. /\ cb[c].at = "notify" /\ cb[c] \in Records
        /\ UNCHANGED <<sourceVars, userVars, lifeVars, gate, pending>>
    BY DEF EventInv, Typed, CallbackTyped, NotifyOne
  <1>2. Ids' /\ Recorded' /\ Detached'
    BY <1>1 DEF EventInv, Ids, Recorded, Detached, sourceVars, userVars, lifeVars
  <1>3. CASE LeftToNotify(c) = {}
    <2>1. cb' = [cb EXCEPT ![c].at = "leave"] /\ UNCHANGED woken
      BY <1>3 DEF NotifyOne
    <2>2. /\ \A d \in Callbacks : d # c => cb'[d] = cb[d]
          /\ cb'[c].at = "leave" /\ cb' \in [Callbacks -> Records]
      BY <1>1, <2>1 DEF EventInv, Typed, CallbackTyped, Records
    <2>3. Typed'
      BY <1>1, <2>1, <2>2 DEF EventInv, Typed, SourceTyped, UserTyped, FlagsTyped, LifeTyped, CallbackTyped,
                      sourceVars, userVars, lifeVars
    <2>4. Gated'
      BY <1>1, <2>2, SameEntered DEF EventInv
    <2>5. Notified'
      <3>1. \A e \in records : ~woken[e] => \E d \in Callbacks : d # c /\ cb[d].at = "notify" /\ e \in LeftToNotify(d)
        BY <1>3 DEF EventInv, Notified, Awaited
      <3>2. QED
        BY <1>1, <2>1, <2>2, <3>1 DEF Notified, Awaited, LeftToNotify, sourceVars, userVars
    <2>6. Cursors'
      BY <1>1, <2>1 DEF EventInv, Cursors, sourceVars, userVars
    <2>7. QED
      BY <1>2, <2>3, <2>4, <2>5, <2>6 DEF EventInv
  <1>4. CASE LeftToNotify(c) # {}
    <2>1. PICK e \in LeftToNotify(c) :
                /\ \A z \in LeftToNotify(c) : idOf[e] <= idOf[z]
                /\ cb' = [cb EXCEPT ![c].prev = idOf[e]]
                /\ woken' = [woken EXCEPT ![e] = TRUE]
      BY <1>4 DEF NotifyOne
    <2>2. e \in records /\ e \in Events /\ idOf[e] \in 0..IdMax
      BY DEF LeftToNotify, EventInv, Typed, SourceTyped
    <2>3. /\ \A d \in Callbacks : d # c => cb'[d] = cb[d]
          /\ cb'[c] = [cb[c] EXCEPT !.prev = idOf[e]] /\ cb' \in [Callbacks -> Records]
      BY <1>1, <2>1, <2>2 DEF EventInv, Typed, CallbackTyped, Records
    <2>4. /\ cb'[c].at = "notify" /\ cb'[c].prev = idOf[e] /\ cb'[c].limit = cb[c].limit
          /\ cb'[c].all = cb[c].all /\ cb'[c].type = cb[c].type
      BY <1>1, <2>3 DEF Records
    <2>5. Typed'
      <3>1. woken' \in [Events -> BOOLEAN]
        BY <2>1, <2>2 DEF EventInv, Typed, FlagsTyped
      <3>2. CallbackTyped'
        BY <1>1, <2>3, <2>4 DEF EventInv, Typed, CallbackTyped
      <3>3. QED
        BY <1>1, <3>1, <3>2 DEF EventInv, Typed, SourceTyped, UserTyped, FlagsTyped, LifeTyped,
                                sourceVars, userVars, lifeVars
    <2>6. Gated'
      BY <1>1, <2>3, <2>4, SameEntered DEF EventInv
    <2>7. Notified'
      <3> SUFFICES ASSUME NEW z \in records', ~woken'[z] PROVE Awaited(z)'
        BY DEF Notified
      <3>1. z \in records /\ z \in Events /\ UNCHANGED <<records, idOf, evType>>
        BY <1>1 DEF sourceVars, userVars, EventInv, Typed, SourceTyped
      <3>2. z # e /\ ~woken[z]
        BY <2>1, <2>2, <3>1 DEF EventInv, Typed, FlagsTyped
      <3>3. PICK d \in Callbacks : cb[d].at = "notify" /\ z \in LeftToNotify(d)
        BY <3>1, <3>2 DEF EventInv, Notified, Awaited
      <3>4. CASE d = c
        <4>1. idOf[e] < idOf[z]
          BY <2>1, <2>2, <3>1, <3>2, <3>3, <3>4 DEF EventInv, Ids, Typed, SourceTyped
        <4>2. z \in LeftToNotify(c)'
          BY <2>4, <3>1, <3>3, <3>4, <4>1 DEF LeftToNotify
        <4>3. QED
          BY <2>4, <4>2 DEF Awaited
      <3>5. CASE d # c
        BY <2>3, <3>1, <3>3, <3>5 DEF Awaited, LeftToNotify
      <3>6. QED
        BY <3>4, <3>5
    <2>8. Cursors'
      <3>1. \A d \in Events : woken[d] => woken'[d]
        BY <2>1, <2>2 DEF EventInv, Typed, FlagsTyped
      <3>2. QED
        BY <1>1, <3>1 DEF EventInv, Cursors, sourceVars, userVars
    <2>9. QED
      BY <1>2, <2>5, <2>6, <2>7, <2>8 DEF EventInv
  <1>5. QED
    BY <1>3, <1>4

LEMMA LeaveKeeps ==
  ASSUME EventInv, NEW c \in Callbacks, LeaveCallback(c)
  PROVE  EventInv'
  <1>1. /\ cb[c].at = "leave" /\ cb' = [cb EXCEPT ![c] = Idle]
        /\ gate' = [gate EXCEPT !.inFlight = @ - 1]
        /\ UNCHANGED <<sourceVars, userVars, lifeVars, pending, woken>>
    BY DEF LeaveCallback
  <1>2. /\ \A d \in Callbacks : d # c => cb'[d] = cb[d]
        /\ cb'[c].at = "out" /\ cb' \in [Callbacks -> Records]
    BY <1>1, IdleTyped DEF EventInv, Typed, CallbackTyped
  <1>3. Typed'
    BY <1>1, <1>2 DEF EventInv, Typed, SourceTyped, UserTyped, FlagsTyped, LifeTyped, CallbackTyped,
                      sourceVars, userVars, lifeVars
  <1>4. Ids' /\ Recorded' /\ Cursors'
    BY <1>1 DEF EventInv, Ids, Recorded, Cursors, sourceVars, userVars, lifeVars
  <1>5. c \in Entered /\ Entered' = Entered \ {c}
    BY <1>1, <1>2 DEF Entered
  <1>6. Cardinality(Entered') = Cardinality(Entered) - 1 /\ Cardinality(Entered) # 0
    BY <1>5, EnteredFinite, FS_RemoveElement, FS_EmptySet
  <1>7. gate'.inFlight = gate.inFlight - 1
    BY <1>1 DEF EventInv, Typed, CallbackTyped
  <1>8. Gated'
    BY <1>6, <1>7 DEF EventInv, Gated
  <1>9. Detached'
    BY <1>1, <1>6 DEF EventInv, Detached, Gated, lifeVars
  <1>10. Notified'
    BY <1>1, <1>2 DEF EventInv, Notified, Awaited, LeftToNotify, sourceVars, userVars
  <1>11. QED
    BY <1>3, <1>4, <1>8, <1>9, <1>10 DEF EventInv

-----------------------------------------------------------------------------
(* The users of the Events.                                                *)

\* A step of the user of Event e alone.
UserFrame(e) ==
    /\ \A d \in Events \ {e} : /\ ev'[d] = ev[d] /\ evType'[d] = evType[d] /\ cursor'[d] = cursor[d]
                              /\ seen'[d] = seen[d] /\ base'[d] = base[d] /\ got'[d] = got[d]
                              /\ pending'[d] = pending[d] /\ closing'[d] = closing[d]
                              /\ woken'[d] = woken[d] /\ idOf'[d] = idOf[d]
    /\ UNCHANGED <<slots, dtor, toClose, quarantined, gate, cb>>

\* What such a step keeps of the other Events.
LEMMA OthersKeepCursors ==
  ASSUME EventInv, NEW e \in Events, UserFrame(e), exhausted => exhausted',
         /\ ev'[e] \notin Usable => ~pending'[e] /\ woken'[e]
         /\ ev'[e] \in {"none"} \cup Creating => got'[e] = 0
         /\ ev'[e] = "cursor" => cursor'[e] = base'[e]
         /\ ev'[e] \in {"cursor"} \cup Usable => cursor'[e] <= slots[evType'[e]]
         /\ ev'[e] \in Usable => got'[e] = cursor'[e] - base'[e]
         /\ ev'[e] = "taking" => cursor'[e] < seen'[e] /\ seen'[e] <= slots[evType'[e]]
         /\ ev'[e] = "live" /\ pending'[e] => exhausted' \/ cursor'[e] < slots[evType'[e]]
  PROVE  Cursors'
  <1> SUFFICES ASSUME NEW d \in Events
               PROVE  /\ ev'[d] \notin Usable => ~pending'[d] /\ woken'[d]
                      /\ ev'[d] \in {"none"} \cup Creating => got'[d] = 0
                      /\ ev'[d] = "cursor" => cursor'[d] = base'[d]
                      /\ ev'[d] \in {"cursor"} \cup Usable => cursor'[d] <= slots'[evType'[d]]
                      /\ ev'[d] \in Usable => got'[d] = cursor'[d] - base'[d]
                      /\ ev'[d] = "taking" => cursor'[d] < seen'[d] /\ seen'[d] <= slots'[evType'[d]]
                      /\ ev'[d] = "live" /\ pending'[d] => exhausted' \/ cursor'[d] < slots'[evType'[d]]
    BY DEF Cursors
  <1>1. CASE d = e
    BY <1>1 DEF UserFrame
  <1>2. CASE d # e
    <2>1. /\ ev'[d] = ev[d] /\ evType'[d] = evType[d] /\ cursor'[d] = cursor[d] /\ seen'[d] = seen[d]
          /\ base'[d] = base[d] /\ got'[d] = got[d] /\ pending'[d] = pending[d]
          /\ woken'[d] = woken[d] /\ slots' = slots
      BY <1>2 DEF UserFrame
    <2>2. QED
      BY <2>1 DEF EventInv, Cursors
  <1>3. QED
    BY <1>1, <1>2

\* An Event that joins or leaves the records takes no notification from others.
LEMMA OthersAreNotified ==
  ASSUME EventInv, NEW e \in Events, UserFrame(e), records' \ {e} = records \ {e},
         e \in records' => woken'[e] \/ (e \in records /\ woken'[e] = woken[e] /\ UNCHANGED <<idOf, evType>>)
  PROVE  Notified'
  <1> SUFFICES ASSUME NEW d \in records', ~woken'[d] PROVE Awaited(d)'
    BY DEF Notified
  <1>1. d \in records /\ ~woken[d] /\ idOf'[d] = idOf[d] /\ evType'[d] = evType[d] /\ cb' = cb
    BY DEF UserFrame, EventInv, Typed, SourceTyped
  <1>2. PICK c \in Callbacks : cb[c].at = "notify" /\ d \in LeftToNotify(c)
    BY <1>1 DEF EventInv, Notified, Awaited
  <1>3. QED
    BY <1>1, <1>2 DEF Awaited, LeftToNotify

\* Steps of a creation before the registration, and of a take.
LEMMA QuietKeeps ==
  ASSUME EventInv, NEW e \in Events, UserFrame(e), Typed', Cursors',
         UNCHANGED <<records, nextId, idOf, exhausted, woken, closing>>,
         ev'[e] \in Creating => dtor = "none",
         ev'[e] \in Usable <=> ev[e] \in Usable,
         ev[e] \in Usable => evType'[e] = evType[e],
         ddsListener' = ddsListener \/ dtor = "none"
  PROVE  EventInv'
  <1>1. UNCHANGED <<dtor, toClose, gate, cb, quarantined>>
    BY DEF UserFrame
  <1>2. Ids'
    BY DEF EventInv, Ids
  <1>3. \A d \in Events : d # e => ev'[d] = ev[d]
    BY DEF UserFrame
  <1>4. Recorded'
    <2>1. \A d \in records' : ev'[d] \in Usable
      BY <1>3 DEF EventInv, Recorded, Typed, SourceTyped
    <2>2. \A d \in Events : ev'[d] \in Usable => d \in records' \/ d \in toClose' \/ closing'[d]
      BY <1>1, <1>3 DEF EventInv, Recorded
    <2>3. dtor' # "none" => records' = {} /\ \A d \in Events : ev'[d] \notin Creating
      BY <1>1, <1>3 DEF EventInv, Recorded
    <2>4. QED
      BY <1>1, <2>1, <2>2, <2>3 DEF EventInv, Recorded
  <1>5. Gated' /\ Detached'
    BY <1>1 DEF EventInv, Gated, Entered, Detached
  <1>6. Notified'
    <2>1. \A d \in records : evType'[d] = evType[d]
      BY DEF EventInv, Recorded, UserFrame, Typed, SourceTyped
    <2>2. \A d \in records : Awaited(d) => Awaited(d)'
      BY <1>1, <2>1 DEF Awaited, LeftToNotify
    <2>3. QED
      BY <2>2 DEF EventInv, Notified
  <1>7. QED
    BY <1>2, <1>4, <1>5, <1>6 DEF EventInv

LEMMA CreateKeeps ==
  ASSUME EventInv, NEW e \in Events, BeginCreateEvent(e) \/ InstallListener(e) \/ TakeCursor(e)
  PROVE  EventInv'
  <1> USE DEF sourceVars, userVars, lifeVars, EventAt
  <1>1. CASE BeginCreateEvent(e)
    <2>1. /\ ev[e] = "none" /\ dtor = "none" /\ ev'[e] \in {"installing", "attached"}
          /\ ev' \in [Events -> {"none", "gone"} \cup Creating \cup Usable]
          /\ evType' \in [Events -> EventTypes]
      BY <1>1 DEF BeginCreateEvent, EventInv, Typed, UserTyped, Creating
    <2>2. /\ UserFrame(e)
          /\ UNCHANGED <<records, nextId, idOf, exhausted, woken, closing, pending, got, cursor, seen, base>>
      BY <1>1 DEF BeginCreateEvent, UserFrame, EventInv, Typed, UserTyped
    <2>3. Typed'
      BY <1>1, <2>1, <2>2 DEF BeginCreateEvent, UserFrame, EventInv, Typed, SourceTyped, UserTyped, FlagsTyped, LifeTyped,
                              CallbackTyped
    <2>4. Cursors'
      BY <2>1, <2>2, OthersKeepCursors DEF EventInv, Cursors, Creating, Usable
    <2>5. ddsListener' = ddsListener
      BY <1>1 DEF BeginCreateEvent
    <2>6. QED
      BY <2>1, <2>2, <2>3, <2>4, <2>5, QuietKeeps DEF Creating, Usable
  <1>2. CASE InstallListener(e)
    <2>1. /\ ev[e] = "installing" /\ ev'[e] \in {"gone", "attached"}
          /\ ev' \in [Events -> {"none", "gone"} \cup Creating \cup Usable]
      BY <1>2 DEF InstallListener, EventInv, Typed, UserTyped, Creating
    <2>2. /\ UserFrame(e)
          /\ UNCHANGED <<records, nextId, idOf, exhausted, woken, closing, pending, got, cursor, seen, base, evType>>
      BY <1>2 DEF InstallListener, UserFrame, EventInv, Typed, UserTyped
    <2>3. install' \in {"Detached", "Installing", "Attached"} /\ ddsListener' \in BOOLEAN
      BY <1>2 DEF InstallListener, FinishInstall
    <2>4. Typed'
      BY <1>2, <2>1, <2>2, <2>3 DEF UserFrame, EventInv, Typed, SourceTyped, UserTyped, FlagsTyped, LifeTyped,
                              CallbackTyped
    <2>5. Cursors'
      BY <2>1, <2>2, OthersKeepCursors DEF EventInv, Cursors, Creating, Usable
    <2>6. dtor = "none"
      BY <2>1 DEF EventInv, Recorded, Creating
    <2>7. QED
      BY <2>1, <2>2, <2>4, <2>5, <2>6, QuietKeeps DEF Creating, Usable
  <1>3. CASE TakeCursor(e)
    <2>1. /\ ev[e] = "attached" /\ ev'[e] = "cursor"
          /\ ev' \in [Events -> {"none", "gone"} \cup Creating \cup Usable]
          /\ cursor'[e] = slots[evType[e]] /\ base'[e] = slots[evType[e]]
          /\ slots[evType[e]] \in Int
          /\ cursor' \in [Events -> Int] /\ base' \in [Events -> Int]
      BY <1>3 DEF TakeCursor, EventInv, Typed, UserTyped, SourceTyped, Creating
    <2>2. /\ UserFrame(e)
          /\ UNCHANGED <<records, nextId, idOf, exhausted, woken, closing, pending, got, seen, evType,
                         ddsListener, install>>
      BY <1>3 DEF TakeCursor, UserFrame, EventInv, Typed, UserTyped
    <2>3. Typed'
      BY <2>1, <2>2 DEF UserFrame, EventInv, Typed, SourceTyped, UserTyped, FlagsTyped, LifeTyped, CallbackTyped
    <2>4. Cursors'
      BY <2>1, <2>2, OthersKeepCursors DEF EventInv, Cursors, Creating, Usable
    <2>5. dtor = "none"
      BY <2>1 DEF EventInv, Recorded, Creating
    <2>6. QED
      BY <2>1, <2>2, <2>3, <2>4, <2>5, QuietKeeps DEF Creating, Usable
  <1>4. QED
    BY <1>1, <1>2, <1>3

LEMMA TakeKeeps ==
  ASSUME EventInv, NEW e \in Events, BeginTake(e) \/ FinishTake(e)
  PROVE  EventInv'
  <1> USE DEF sourceVars, userVars, lifeVars, EventAt
  <1>0. slots[evType[e]] \in Int /\ cursor[e] \in Int /\ seen[e] \in Int /\ base[e] \in Int /\ got[e] \in Int
    BY DEF EventInv, Typed, UserTyped, SourceTyped
  <1>1. CASE BeginTake(e)
    <2>1. /\ ev[e] = "live" /\ ev'[e] = "taking" /\ seen'[e] = slots[evType[e]] /\ slots[evType[e]] # cursor[e]
          /\ ev' \in [Events -> {"none", "gone"} \cup Creating \cup Usable]
          /\ seen' \in [Events -> Int]
      BY <1>0, <1>1 DEF BeginTake, EventInv, Typed, UserTyped, Usable
    <2>2. /\ UserFrame(e)
          /\ UNCHANGED <<records, nextId, idOf, exhausted, woken, closing, pending, got, cursor, base, evType,
                         ddsListener, install>>
      BY <1>1 DEF BeginTake, UserFrame, EventInv, Typed, UserTyped
    <2>3. Typed'
      BY <2>1, <2>2 DEF UserFrame, EventInv, Typed, SourceTyped, UserTyped, FlagsTyped, LifeTyped, CallbackTyped
    <2>4. Cursors'
      BY <1>0, <2>1, <2>2, OthersKeepCursors DEF EventInv, Cursors, Creating, Usable
    <2>5. QED
      BY <2>1, <2>2, <2>3, <2>4, QuietKeeps DEF Creating, Usable
  <1>2. CASE FinishTake(e)
    <2>1. /\ ev[e] = "taking" /\ ev'[e] = "live" /\ cursor'[e] = seen[e] /\ ~pending'[e]
          /\ got'[e] = got[e] + (seen[e] - cursor[e])
          /\ ev' \in [Events -> {"none", "gone"} \cup Creating \cup Usable]
          /\ seen' \in [Events -> Int] /\ cursor' \in [Events -> Int]
          /\ got' \in [Events -> Int] /\ pending' \in [Events -> BOOLEAN]
      BY <1>0, <1>2 DEF FinishTake, AdvanceCursor, ClearPending, EventInv, Typed, UserTyped, FlagsTyped, Usable
    <2>2. /\ UserFrame(e)
          /\ UNCHANGED <<records, nextId, idOf, exhausted, woken, closing, base, evType, ddsListener, install>>
      BY <1>2 DEF FinishTake, AdvanceCursor, ClearPending, UserFrame, EventInv, Typed, UserTyped, FlagsTyped
    <2>3. Typed'
      BY <2>1, <2>2 DEF UserFrame, EventInv, Typed, SourceTyped, UserTyped, FlagsTyped, LifeTyped, CallbackTyped
    <2>4. Cursors'
      BY <1>0, <2>1, <2>2, OthersKeepCursors DEF EventInv, Cursors, Creating, Usable
    <2>5. QED
      BY <2>1, <2>2, <2>3, <2>4, QuietKeeps DEF Creating, Usable
  <1>3. QED
    BY <1>1, <1>2

LEMMA RegisterKeeps ==
  ASSUME EventInv, NEW e \in Events, FinishCreateEvent(e) \/ CreateEventThrows(e)
  PROVE  EventInv'
  <1> USE DEF sourceVars, userVars, lifeVars, EventAt
  <1>0. ev[e] = "cursor" /\ dtor = "none" /\ e \notin records /\ e \notin toClose
    BY DEF FinishCreateEvent, CreateEventThrows, EventInv, Recorded, Creating, Usable
  <1>1. CASE ev'[e] = "gone"
    <2>2. /\ ev' = [ev EXCEPT ![e] = "gone"] /\ nextId' \in 0..IdMax
          /\ nextId # 0 /\ nextId' # 0 => nextId' >= nextId
          /\ nextId = 0 => nextId' = 0
          /\ exhausted' \in BOOLEAN /\ (exhausted => exhausted')
          /\ UNCHANGED <<records, idOf, slots, evType, cursor, seen, closing, base, got, lifeVars, gate, cb, pending, woken>>
      <3>1. CASE FinishCreateEvent(e)
        <4>1. e \in DOMAIN ev
          BY DEF EventInv, Typed, UserTyped
        <4>2. ~(ev' = [ev EXCEPT ![e] = "live"])
          BY <1>1, <4>1
        <4>3. /\ exhausted' = TRUE /\ ev' = [ev EXCEPT ![e] = "gone"] /\ UNCHANGED <<nextId, idOf, records>>
              /\ UNCHANGED <<slots, evType, cursor, seen, closing, base, got, lifeVars, gate, cb, pending, woken>>
          BY <3>1, <4>2 DEF FinishCreateEvent, RegisterEvent
        <4>4. QED
          BY <4>3 DEF EventInv, Typed, SourceTyped
      <3>2. CASE CreateEventThrows(e)
        BY <3>2, EventAssumption DEF CreateEventThrows, EventInv, Typed, SourceTyped
      <3>3. QED
        BY <3>1, <3>2
    <2>3. UserFrame(e)
      BY <2>2 DEF UserFrame, EventInv, Typed, UserTyped
    <2>4. Typed'
      BY <2>2 DEF EventInv, Typed, SourceTyped, UserTyped, FlagsTyped, LifeTyped, CallbackTyped
    <2>5. Cursors'
      BY <1>0, <1>1, <2>2, <2>3, OthersKeepCursors DEF EventInv, Cursors, Creating, Usable
    <2>6. Ids'
      BY <2>2 DEF EventInv, Ids, Typed, SourceTyped
    <2>7. Recorded'
      BY <1>0, <2>2 DEF EventInv, Recorded, Creating, Usable, Typed, UserTyped
    <2>8. Gated' /\ Detached'
      BY <2>2 DEF EventInv, Gated, Entered, Detached
    <2>9. Notified'
      BY <2>2 DEF EventInv, Notified, Awaited, LeftToNotify
    <2>10. QED
      BY <2>4, <2>5, <2>6, <2>7, <2>8, <2>9 DEF EventInv
  <1>2. CASE ev'[e] # "gone"
    <2>1. /\ nextId # 0 /\ nextId' = IF nextId = IdMax THEN 0 ELSE nextId + 1
          /\ idOf' = [idOf EXCEPT ![e] = nextId] /\ records' = records \cup {e}
          /\ ev' = [ev EXCEPT ![e] = "live"]
          /\ UNCHANGED <<exhausted, slots, evType, cursor, seen, closing, base, got, lifeVars, gate, cb, pending, woken>>
      BY <1>2 DEF FinishCreateEvent, CreateEventThrows, RegisterEvent, EventInv, Typed, UserTyped
    <2>2. UserFrame(e) /\ ev'[e] = "live"
      BY <2>1 DEF UserFrame, EventInv, Typed, UserTyped, SourceTyped
    <2>3. Typed'
      BY <2>1, EventAssumption DEF EventInv, Typed, SourceTyped, UserTyped, FlagsTyped, LifeTyped, CallbackTyped, Usable
    <2>4. Cursors'
      <3>1. cursor[e] \in Int /\ base[e] \in Int /\ got[e] = 0 /\ cursor[e] = base[e] /\ ~pending[e]
            /\ cursor[e] <= slots[evType[e]]
        BY <1>0 DEF EventInv, Typed, UserTyped, Cursors, Creating, Usable
      <3>2. QED
        BY <2>1, <2>2, <3>1, OthersKeepCursors DEF Creating, Usable
    <2>5. Ids'
      BY <2>1 DEF EventInv, Ids, Typed, SourceTyped
    <2>6. Recorded'
      BY <1>0, <2>1 DEF EventInv, Recorded, Creating, Usable, Typed, UserTyped, SourceTyped
    <2>7. Gated' /\ Detached'
      BY <2>1 DEF EventInv, Gated, Entered, Detached
    <2>8. woken[e]
      BY <1>0 DEF EventInv, Cursors, Usable
    <2>9. Notified'
      BY <2>1, <2>2, <2>8, OthersAreNotified
    <2>10. QED
      BY <2>3, <2>4, <2>5, <2>6, <2>7, <2>9 DEF EventInv
  <1>3. QED
    BY <1>1, <1>2

LEMMA DestroyKeeps ==
  ASSUME EventInv, NEW e \in Events, DestroyEvent(e)
  PROVE  EventInv'
  <1> USE DEF sourceVars, userVars, lifeVars, EventAt
  <1>1. /\ ev[e] = "live" /\ records' = records \ {e} /\ ev' = [ev EXCEPT ![e] = "gone"]
        /\ closing' = [closing EXCEPT ![e] = TRUE] /\ cursor' = [cursor EXCEPT ![e] = 0]
        /\ base' = [base EXCEPT ![e] = 0] /\ got' = [got EXCEPT ![e] = 0]
        /\ pending' = [pending EXCEPT ![e] = FALSE] /\ woken' = [woken EXCEPT ![e] = TRUE]
        /\ UNCHANGED <<slots, nextId, idOf, exhausted, evType, seen, lifeVars, gate, cb>>
    BY DEF DestroyEvent
  <1>2. UserFrame(e) /\ ev'[e] = "gone" /\ ~pending'[e] /\ woken'[e]
    BY <1>1 DEF UserFrame, EventInv, Typed, UserTyped, FlagsTyped
  <1>3. Typed'
    BY <1>1 DEF EventInv, Typed, SourceTyped, UserTyped, FlagsTyped, LifeTyped, CallbackTyped
  <1>4. Cursors'
    BY <1>1, <1>2, OthersKeepCursors DEF Creating, Usable
  <1>5. Ids'
    BY <1>1 DEF EventInv, Ids
  <1>6. Recorded'
    <2>1. \A d \in Events : d # e => ev'[d] = ev[d] /\ closing'[d] = closing[d]
      BY <1>2 DEF UserFrame
    <2>2. QED
      BY <1>1, <1>2, <2>1 DEF EventInv, Recorded, Usable, Creating, Typed, SourceTyped
  <1>7. Gated' /\ Detached'
    BY <1>1 DEF EventInv, Gated, Entered, Detached
  <1>8. Notified'
    BY <1>1, <1>2, OthersAreNotified
  <1>9. QED
    BY <1>3, <1>4, <1>5, <1>6, <1>7, <1>8 DEF EventInv

-----------------------------------------------------------------------------
(* The destructor of the endpoint.                                         *)

LEMMA BeginDestroyKeeps ==
  ASSUME EventInv, BeginDestroy
  PROVE  EventInv'
  <1> USE DEF sourceVars, userVars, lifeVars
  <1>1. /\ dtor = "none" /\ dtor' = "close" /\ toClose' = records /\ records' = {}
        /\ \A e \in Events : ev[e] \notin Creating
        /\ UNCHANGED <<slots, nextId, idOf, exhausted, userVars, install, installer,
                       ddsListener, quarantined, gate, cb, pending, woken>>
    BY DEF BeginDestroy, Creating
  <1>2. Typed'
    BY <1>1 DEF EventInv, Typed, SourceTyped, UserTyped, FlagsTyped, LifeTyped, CallbackTyped
  <1>3. Ids' /\ Notified' /\ Detached'
    BY <1>1 DEF Ids, Notified, Detached
  <1>4. Recorded'
    BY <1>1 DEF EventInv, Recorded
  <1>5. Cursors' /\ Gated'
    BY <1>1 DEF EventInv, Cursors, Gated, Entered
  <1>6. QED
    BY <1>2, <1>3, <1>4, <1>5 DEF EventInv

LEMMA DestructorKeeps ==
  ASSUME EventInv, DestroyStep
  PROVE  EventInv'
  <1> USE DEF sourceVars, userVars, lifeVars
  <1>1. CASE CloseRecord
    <2>1. /\ dtor = "close" /\ dtor' \in {"close", "detach"} /\ toClose' \subseteq toClose
          /\ dtor' = "detach" => toClose' = {}
          /\ \A e \in Events : (closing[e] => closing'[e]) /\ (e \in toClose => e \in toClose' \/ closing'[e])
          /\ closing' \in [Events -> BOOLEAN]
          /\ UNCHANGED <<sourceVars, ev, evType, cursor, seen, base, got, ddsListener, install, gate, cb, pending, woken>>
      BY <1>1 DEF CloseRecord, LeftToClose, CloseOne, EventInv, Typed, FlagsTyped, LifeTyped
    <2>2. Typed'
      BY <2>1 DEF EventInv, Typed, SourceTyped, UserTyped, FlagsTyped, LifeTyped, CallbackTyped
    <2>3. Ids' /\ Cursors' /\ Gated' /\ Detached'
      BY <2>1 DEF EventInv, Ids, Cursors, Gated, Entered, Detached
    <2>4. Recorded'
      BY <2>1 DEF EventInv, Recorded
    <2>5. Notified'
      BY <2>1 DEF EventInv, Notified, Awaited, LeftToNotify
    <2>6. QED
      BY <2>2, <2>3, <2>4, <2>5 DEF EventInv
  <1>2. CASE DetachListener \/ DeleteParent
    <2>1. /\ dtor \in {"detach", "drain"} /\ dtor' \in {"drain", "left", "deleted"}
          /\ ddsListener' \in BOOLEAN
          /\ UNCHANGED <<sourceVars, userVars, toClose, install, gate, cb, pending, woken>>
      BY <1>2 DEF DetachListener, DeleteParent, EventInv, Typed, LifeTyped
    <2>2. Typed'
      BY <2>1 DEF EventInv, Typed, SourceTyped, UserTyped, FlagsTyped, LifeTyped, CallbackTyped
    <2>3. Ids' /\ Cursors' /\ Gated'
      BY <2>1 DEF EventInv, Ids, Cursors, Gated, Entered
    <2>4. Recorded'
      BY <2>1 DEF EventInv, Recorded
    <2>5. Notified'
      BY <2>1 DEF EventInv, Notified, Awaited, LeftToNotify
    <2>6. Detached'
      BY <1>2 DEF DetachListener, DeleteParent, Drained, EventInv, Detached
    <2>7. QED
      BY <2>2, <2>3, <2>4, <2>5, <2>6 DEF EventInv
  <1>3. CASE StopAccepting
    <2>1. /\ gate' = [gate EXCEPT !.accepting = FALSE]
          /\ UNCHANGED <<sourceVars, userVars, lifeVars, cb, pending, woken>>
      BY <1>3 DEF StopAccepting
    <2>2. gate'.inFlight = gate.inFlight /\ gate' \in [accepting : BOOLEAN, inFlight : Int]
      BY <2>1 DEF EventInv, Typed, CallbackTyped
    <2>3. Typed'
      BY <2>1, <2>2 DEF EventInv, Typed, SourceTyped, UserTyped, FlagsTyped, LifeTyped, CallbackTyped
    <2>4. Ids' /\ Cursors' /\ Gated' /\ Detached' /\ Recorded'
      BY <2>1, <2>2 DEF EventInv, Ids, Cursors, Gated, Entered, Detached, Recorded
    <2>5. Notified'
      BY <2>1 DEF EventInv, Notified, Awaited, LeftToNotify
    <2>6. QED
      BY <2>3, <2>4, <2>5 DEF EventInv
  <1>4. QED
    BY <1>1, <1>2, <1>3 DEF DestroyStep

-----------------------------------------------------------------------------
(* The theorem.                                                            *)

LEMMA StepInv == EventInv /\ [EventNext]_eventVars => EventInv'
  <1> SUFFICES ASSUME EventInv, [EventNext]_eventVars PROVE EventInv'
    OBVIOUS
  <1>1. CASE UNCHANGED eventVars
    BY <1>1 DEF eventVars, EventInv, Typed, SourceTyped, UserTyped, FlagsTyped, LifeTyped, CallbackTyped, Ids, Recorded,
                Cursors, Gated, Entered, Detached, Notified, Awaited, LeftToNotify
  <1>2. CASE \E e \in Events : \/ BeginCreateEvent(e) \/ CreateStep(e)
                               \/ BeginTake(e) \/ FinishTake(e) \/ DestroyEvent(e)
    BY <1>2, CreateKeeps, RegisterKeeps, TakeKeeps, DestroyKeeps DEF CreateStep
  <1>3. CASE \E c \in Callbacks : CallbackStep(c) \/ \E y \in EventTypes : EnterCallback(c, y)
    BY <1>3, EnterKeeps, UpdateKeeps, NotifyKeeps, LeaveKeeps DEF CallbackStep
  <1>4. CASE BeginDestroy \/ DestroyStep
    BY <1>4, BeginDestroyKeeps, DestructorKeeps
  <1>5. QED
    BY <1>1, <1>2, <1>3, <1>4 DEF EventNext

LEMMA InvDelivers == EventInv => EventsDelivered
  <1> SUFFICES ASSUME EventInv PROVE EventsDelivered
    OBVIOUS
  <1>1. EventTypeOK
    BY DEF EventInv, Typed, SourceTyped, LifeTyped, Ids, Gated, Entered, EventTypeOK
  <1>2. NothingSwallowed
    BY DEF EventInv, Typed, SourceTyped, UserTyped, Cursors, NothingSwallowed, Usable
  <1>3. NoSpuriousReady
    BY DEF EventInv, Cursors, NoSpuriousReady
  <1>4. ReadyIsNotified
    BY DEF EventInv, Notified, Awaited, ReadyIsNotified
  <1>5. CallbacksDrained
    <2>1. dtor = "deleted" => Cardinality(Entered) = 0
      BY DEF EventInv, Detached, Gated
    <2>2. dtor = "deleted" => Entered = {}
      BY <2>1, EnteredFinite, FS_EmptySet
    <2>3. QED
      BY <2>2 DEF EventInv, Detached, Entered, CallbacksDrained
  <1>6. ParentClosesEvents
    BY DEF EventInv, Recorded, Usable, ParentClosesEvents
  <1>7. QED
    BY <1>1, <1>2, <1>3, <1>4, <1>5, <1>6 DEF EventsDelivered

\* Status changes reach the Events they belong to, and none is touched after its
\* endpoint is deleted: EventsDelivered, for any number of Events, kinds of status
\* and Fast DDS threads, and for any number of generations and registration ids.
THEOREM EventsAreDelivered == EventSpec => []EventsDelivered
  BY InitInv, StepInv, InvDelivers, PTL DEF EventSpec
=============================================================================
