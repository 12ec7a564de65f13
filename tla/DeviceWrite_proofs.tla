------------------------- MODULE DeviceWrite_proofs -------------------------
(***************************************************************************)
(* The safety properties of DeviceWrite for every set of commands and      *)
(* fields and whatever else the reader is asked for.                       *)
(***************************************************************************)
EXTENDS DeviceWrite, TLAPS

(* A command whose write reached the device and whose debounce entry is not
   dropped yet. *)
Storing == {"releaseIo", "releaseFlag", "notify", "remember", "store", "uncache"}
NoneStoring == \A w \in Writer : wpc[w] \notin Storing
AllAsked == \A w \in Writer : wpc[w] # "request"

(* While the debounce would answer, what it answers with is current. *)
FreshIsCurrent ==
    fresh /\ ~excused /\ NoneStoring =>
        IF rpc \in {"release", "publish"} THEN rdraft = device ELSE snapshot = device

Verifying == {"Quick", "Full"}

(* When nobody is about to ask for a read of the fields and none is queued, the
   reader has published the device, or is about to, or is about to read it. *)
StaleIsAskedFor ==
    forced \notin Verifying /\ ~excused /\ NoneStoring /\ AllAsked =>
        /\ rpc = "top" => snapshot = device
        /\ rpc \in {"locking", "reading"} => rplan \in Verifying \/ snapshot = device
        /\ rpc \in {"release", "publish"} => rdraft = device

IInv ==
    /\ TypeOK
    /\ WritesAreSerialized
    /\ NoStrandedWriter
    /\ FreshIsCurrent
    /\ StaleIsAskedFor

-----------------------------------------------------------------------------
(* The Boolean variables of TypeOK and the rest of it: the provers take them
   apart. *)
BoolOK ==
    fresh \in BOOLEAN /\ writing \in BOOLEAN /\ excused \in BOOLEAN

DataOK ==
    /\ device \in State /\ snapshot \in State /\ rdraft \in State
    /\ draft \in [Writer -> State]
    /\ io \in Writer \cup {Free, TheReader}
    /\ wpc \in [Writer -> WriterPcs]
    /\ rpc \in {"top", "locking", "reading", "release", "publish"}
    /\ rplan \in ReaderPlans
    /\ forced \in ReaderPlans \cup {RP!NoPlan}

(* The plans of the reader by name, and which of them outrank which. *)
LEMMA PlanFacts ==
  /\ ReaderPlans = {"PresenceOnly", "BatteryOnly", "Quick", "Full"}
  /\ RP!NoPlan = "NoPlan"
  /\ \A plan \in ReaderPlans \cup {RP!NoPlan} :
        RP!Rank[plan] >= RP!Rank["Quick"] <=> plan \in Verifying
  BY DEF ReaderPlans, RP!Plans, RP!NoPlan, RP!Rank, Verifying

LEMMA MergeType ==
  ASSUME NEW plan \in ReaderPlans, NEW pending \in ReaderPlans \cup {RP!NoPlan}
  PROVE  /\ RP!Merge(pending, plan) \in ReaderPlans
         /\ pending \in Verifying => RP!Merge(pending, plan) \in Verifying
         /\ plan = "Quick" => RP!Merge(pending, plan) \in Verifying
  BY PlanFacts DEF RP!Merge, RP!Stronger, RP!Rank, Verifying

LEMMA TypeParts == TypeOK <=> BoolOK /\ DataOK
  BY Zenon DEF TypeOK, BoolOK, DataOK

(* The initial state satisfies the invariant: the snapshot is the device. *)
LEMMA InitIInv == Init => IInv
<1> SUFFICES ASSUME Init PROVE IInv
  OBVIOUS
<1>1. BoolOK
  BY Zenon DEF Init, BoolOK
<1>2. DataOK
  BY PlanFacts DEF Init, DataOK, State, WriterPcs, Free, TheReader, Untouched, Factory
<1>3. WritesAreSerialized /\ NoStrandedWriter
  BY DEF Init, WritesAreSerialized, NoStrandedWriter, Holding
<1>4. FreshIsCurrent /\ StaleIsAskedFor
  BY Zenon DEF Init, FreshIsCurrent, StaleIsAskedFor
<1>5. QED BY <1>1, <1>2, <1>3, <1>4, TypeParts DEF IInv

(* No step of any thread leaves the types: the Boolean variables. *)
Asks == \E plan \in Asked : Ask(plan)

LEMMA BoolStep == BoolOK /\ [Next]_vars => BoolOK'
<1> SUFFICES ASSUME BoolOK, [Next]_vars PROVE BoolOK'
  OBVIOUS
<1> USE DEF BoolOK, shared, worker, reader
<1>1. ASSUME NEW w \in Writer, Enqueue(w) \/ Worker(w)
      PROVE  BoolOK'
  BY <1>1, Zenon DEF Enqueue, Worker, BeginWrite, Wait, Expire, RefuseExpired, TakeIo, ReadBase,
     Mutate, MutateFails, ReleaseIo, ReleaseFlag, Notify, Remember, Store, Uncache,
     RequestQuick
<1>2. CASE Reader \/ ReadFails \/ DebounceExpires \/ Asks
  BY <1>2, Zenon DEF Reader, StartPass, ReaderTakeIo, KeepEntry, SkipDevice, ReadDevice,
     ReadBattery, FallBack, ReaderReleaseIo, Publish, ReadFails, DebounceExpires, Asks, Ask
<1>3. CASE UNCHANGED vars
  BY <1>3, Zenon DEF vars
<1>4. QED BY <1>1, <1>2, <1>3, Zenon DEF Next, Asks

(* ... and the rest of the state. *)
LEMMA DataStep == DataOK /\ [Next]_vars => DataOK'
<1> SUFFICES ASSUME DataOK, [Next]_vars PROVE DataOK'
  OBVIOUS
<1> USE DEF DataOK, shared, worker, reader
<1>1. ASSUME NEW w \in Writer, NEW to \in WriterPcs, Goto(w, to)
      PROVE  wpc' \in [Writer -> WriterPcs]
  BY <1>1 DEF Goto
<1>2. ASSUME NEW w \in Writer, Enqueue(w) \/ Worker(w)
      PROVE  DataOK'
  <2>0. \A f \in Field, s \in State : [s EXCEPT ![f] = w] \in State
    BY DEF State
  <2>00. [draft EXCEPT ![w] = Untouched] \in [Writer -> State]
    BY DEF State, Untouched
  <2>1. CASE Enqueue(w) \/ BeginWrite(w) \/ Wait(w) \/ Expire(w) \/ RefuseExpired(w)
    <3>1. wpc' \in [Writer -> WriterPcs]
      BY <2>1 DEF Enqueue, BeginWrite, Wait, Expire, RefuseExpired, Goto, WriterPcs
    <3>2. QED BY <2>1, <3>1 DEF Enqueue, BeginWrite, Wait, Expire, RefuseExpired
  <2>2. CASE TakeIo(w) \/ ReadBase(w)
    <3>1. wpc' \in [Writer -> WriterPcs]
      BY <2>2 DEF TakeIo, ReadBase, Goto, WriterPcs
    <3>2. QED BY <2>2, <3>1 DEF TakeIo, ReadBase
  <2>3. CASE Mutate(w)
    <3>1. wpc' \in [Writer -> WriterPcs]
      BY <2>3 DEF Mutate, Goto, WriterPcs
    <3>0. PICK f \in Field : /\ device' = [device EXCEPT ![f] = w]
                             /\ draft' = [draft EXCEPT ![w][f] = w]
      BY <2>3 DEF Mutate
    <3>2. device' \in State
      BY <2>0, <3>0
    <3>3. draft' \in [Writer -> State]
      <4>1. draft' = [draft EXCEPT ![w] = [draft[w] EXCEPT ![f] = w]]
        BY <3>0
      <4>2. [draft[w] EXCEPT ![f] = w] \in State
        BY <2>0
      <4>3. QED BY <4>1, <4>2
    <3>4. QED BY <2>3, <3>1, <3>2, <3>3 DEF Mutate
  <2>4. CASE MutateFails(w)
    <3>1. wpc' \in [Writer -> WriterPcs]
      BY <2>4 DEF MutateFails, Goto, WriterPcs
    <3>2. device' \in State
      BY <2>0, <2>4 DEF MutateFails
    <3>3. QED BY <2>00, <2>4, <3>1, <3>2 DEF MutateFails
  <2>5. CASE ReleaseIo(w) \/ ReleaseFlag(w) \/ Notify(w)
    <3>1. wpc' \in [Writer -> WriterPcs]
      BY <2>5 DEF ReleaseIo, ReleaseFlag, Notify, AfterNotify, Goto, WriterPcs
    <3>2. QED BY <2>5, <3>1 DEF ReleaseIo, ReleaseFlag, Notify
  <2>6. CASE Remember(w) \/ Store(w) \/ Uncache(w) \/ RequestQuick(w)
    <3>1. wpc' \in [Writer -> WriterPcs]
      BY <2>6 DEF Remember, Store, Uncache, RequestQuick, Goto, WriterPcs
    <3>2. draft' \in [Writer -> State] /\ snapshot' \in State
      BY <2>00, <2>6 DEF Remember, Store, Uncache, RequestQuick
    <3>3. forced' \in ReaderPlans \cup {RP!NoPlan}
      BY <2>6, PlanFacts, MergeType DEF Remember, Store, Uncache, RequestQuick
    <3>4. QED BY <2>6, <3>1, <3>2, <3>3 DEF Remember, Store, Uncache, RequestQuick
  <2>7. QED BY <1>2, <2>1, <2>2, <2>3, <2>4, <2>5, <2>6, Zenon DEF Worker
<1>3. CASE Reader \/ ReadFails \/ DebounceExpires \/ Asks
  <2>1. CASE StartPass
    BY <2>1 DEF StartPass
  <2>2. CASE Publish
    BY <2>2, PlanFacts DEF Publish, Untouched, State
  <2>3. CASE Asks
    BY <2>3, AskedAssumption, MergeType DEF Asks, Ask
  <2>4. CASE \/ ReaderTakeIo \/ KeepEntry \/ SkipDevice \/ ReadDevice \/ ReadBattery
             \/ FallBack \/ ReaderReleaseIo \/ ReadFails \/ DebounceExpires
    BY <2>4 DEF ReaderTakeIo, KeepEntry, SkipDevice, ReadDevice, ReadBattery, FallBack,
       ReaderReleaseIo, ReadFails, DebounceExpires
  <2>5. QED BY <1>3, <2>1, <2>2, <2>3, <2>4, Zenon DEF Reader
<1>4. CASE UNCHANGED vars
  BY <1>4 DEF vars
<1>5. QED BY <1>2, <1>3, <1>4, Zenon DEF Next, Asks

-----------------------------------------------------------------------------
(* Only BeginWrite raises the flag and enters the turn, only ReleaseFlag drops
   the flag and ends it. *)
LEMMA StayInTurn ==
  ASSUME WritesAreSerialized, writing' = writing,
         \A w \in Writer : wpc'[w] \in Holding <=> wpc[w] \in Holding
  PROVE  WritesAreSerialized'
  BY Zenon DEF WritesAreSerialized

LEMMA WritesStep == DataOK /\ WritesAreSerialized /\ [Next]_vars => WritesAreSerialized'
<1> SUFFICES ASSUME DataOK, WritesAreSerialized, [Next]_vars PROVE WritesAreSerialized'
  OBVIOUS
<1> USE DEF shared, worker, reader
<1>0. wpc \in [Writer -> WriterPcs]
  BY DEF DataOK
<1>1. ASSUME NEW w \in Writer, BeginWrite(w)
      PROVE  WritesAreSerialized'
  BY <1>0, <1>1 DEF BeginWrite, Goto, WritesAreSerialized, Holding
<1>2. ASSUME NEW w \in Writer, ReleaseFlag(w)
      PROVE  WritesAreSerialized'
  <2>1. /\ wpc[w] \in Holding /\ wpc'[w] \notin Holding
        /\ \A v \in Writer : v # w => wpc'[v] = wpc[v]
    BY <1>0, <1>2 DEF ReleaseFlag, Goto, Holding
  <2>2. ~writing'
    BY <1>2 DEF ReleaseFlag
  <2>3. \A v \in Writer : wpc'[v] \notin Holding
    BY <2>1, Zenon DEF WritesAreSerialized
  <2>4. QED BY <2>2, <2>3, Zenon DEF WritesAreSerialized
<1>3. ASSUME NEW w \in Writer, Enqueue(w) \/ Worker(w), ~BeginWrite(w), ~ReleaseFlag(w)
      PROVE  WritesAreSerialized'
  <2>1. writing' = writing
    BY <1>3, Zenon DEF Enqueue, Worker, Wait, Expire, RefuseExpired, TakeIo, ReadBase,
       Mutate, MutateFails, ReleaseIo, Notify, Remember, Store, Uncache, RequestQuick
  <2>2. CASE Notify(w)
    <3>1. \A v \in Writer : wpc'[v] \in Holding <=> wpc[v] \in Holding
      BY <1>0, <2>2 DEF Notify, AfterNotify, Goto, Holding
    <3>2. QED BY <2>1, <3>1, StayInTurn
  <2>3. CASE ~Notify(w)
    <3>1. \A v \in Writer : wpc'[v] \in Holding <=> wpc[v] \in Holding
      BY <1>0, <1>3, <2>3 DEF Enqueue, Worker, Wait, Expire, RefuseExpired, TakeIo, ReadBase,
       Mutate, MutateFails, ReleaseIo, Remember, Store, Uncache, RequestQuick, Goto, Holding
    <3>2. QED BY <2>1, <3>1, StayInTurn
  <2>4. QED BY <2>2, <2>3
<1>4. CASE Reader \/ ReadFails \/ DebounceExpires \/ Asks \/ UNCHANGED vars
  <2>1. wpc' = wpc /\ writing' = writing
    BY <1>4, Zenon DEF Reader, StartPass, ReaderTakeIo, KeepEntry, SkipDevice, ReadDevice,
       ReadBattery, FallBack, ReaderReleaseIo, Publish, ReadFails, DebounceExpires, Asks, Ask, vars
  <2>2. QED BY <2>1, StayInTurn
<1>5. QED BY <1>1, <1>2, <1>3, <1>4, Zenon DEF Next, Asks

-----------------------------------------------------------------------------
(* Threads that will take the flag or notify. *)
Awake == {"queued", "expired", "notify", "abandonNotify"}

LEMMA StrandedStep == DataOK /\ NoStrandedWriter /\ [Next]_vars => NoStrandedWriter'
<1> SUFFICES ASSUME DataOK, NoStrandedWriter, [Next]_vars PROVE NoStrandedWriter'
  OBVIOUS
<1> USE DEF shared, worker, reader, NoStrandedWriter
<1>0. wpc \in [Writer -> WriterPcs]
  BY DEF DataOK
<1>1. ASSUME NEW w \in Writer, BeginWrite(w)
      PROVE  NoStrandedWriter'
  BY <1>1 DEF BeginWrite
<1>2. ASSUME NEW w \in Writer, Wait(w) \/ RefuseExpired(w)
      PROVE  NoStrandedWriter'
  <2>1. writing /\ writing' = writing
    BY <1>2, Zenon DEF Wait, RefuseExpired
  <2>2. QED BY <2>1
<1>3. ASSUME NEW w \in Writer, ReleaseFlag(w)
      PROVE  NoStrandedWriter'
  <2>1. wpc'[w] \in {"notify", "abandonNotify"}
    BY <1>0, <1>3 DEF ReleaseFlag, Goto
  <2>2. QED BY <2>1
<1>4. ASSUME NEW w \in Writer, Enqueue(w) \/ Expire(w)
      PROVE  NoStrandedWriter'
  <2>1. wpc'[w] \in {"queued", "expired"}
    BY <1>0, <1>4 DEF Enqueue, Expire, Goto
  <2>2. QED BY <2>1
<1>5. ASSUME NEW w \in Writer, Notify(w)
      PROVE  NoStrandedWriter'
  <2>1. CASE \E v \in Writer : /\ wpc[v] = "asleep"
                               /\ wpc' = [wpc EXCEPT ![w] = AfterNotify(w), ![v] = "queued"]
    <3>1. PICK v \in Writer : /\ wpc[v] = "asleep"
                              /\ wpc' = [wpc EXCEPT ![w] = AfterNotify(w), ![v] = "queued"]
      BY <2>1
    <3>2. wpc'[v] = "queued"
      BY <1>0, <3>1
    <3>3. QED BY <3>2
  <2>2. CASE (\A v \in Writer : wpc[v] # "asleep") /\ Goto(w, AfterNotify(w))
    <3>1. \A v \in Writer : wpc'[v] # "asleep"
      BY <1>0, <2>2 DEF Goto, AfterNotify
    <3>2. QED BY <3>1
  <2>3. QED BY <1>5, <2>1, <2>2, Zenon DEF Notify
<1>6. ASSUME NEW w \in Writer,
             \/ TakeIo(w) \/ ReadBase(w) \/ Mutate(w) \/ MutateFails(w) \/ ReleaseIo(w)
             \/ Remember(w) \/ Store(w) \/ Uncache(w) \/ RequestQuick(w)
      PROVE  NoStrandedWriter'
  <2>1. writing' = writing
    BY <1>6, Zenon DEF TakeIo, ReadBase, Mutate, MutateFails, ReleaseIo, Remember, Store,
       Uncache, RequestQuick
  <2>2. \A v \in Writer : /\ wpc'[v] = "asleep" <=> wpc[v] = "asleep"
                          /\ wpc'[v] \in Awake <=> wpc[v] \in Awake
    BY <1>0, <1>6 DEF TakeIo, ReadBase, Mutate, MutateFails, ReleaseIo, Remember, Store,
       Uncache, RequestQuick, Goto, Awake
  <2>3. QED BY <2>1, <2>2, Zenon DEF Awake
<1>7. CASE Reader \/ ReadFails \/ DebounceExpires \/ Asks \/ UNCHANGED vars
  <2>1. wpc' = wpc /\ writing' = writing
    BY <1>7, Zenon DEF Reader, StartPass, ReaderTakeIo, KeepEntry, SkipDevice, ReadDevice,
       ReadBattery, FallBack, ReaderReleaseIo, Publish, ReadFails, DebounceExpires, Asks, Ask, vars
  <2>2. QED BY <2>1
<1>8. QED
  BY <1>1, <1>2, <1>3, <1>4, <1>5, <1>6, <1>7, Zenon DEF Next, Asks, Worker

-----------------------------------------------------------------------------
(* A step of a command that touches nothing the two parts speak of, and leaves
   no storing or asking command behind unnoticed, keeps them. *)
LEMMA StayCurrent ==
  ASSUME FreshIsCurrent, StaleIsAskedFor,
         UNCHANGED <<device, snapshot, fresh, forced, excused, rpc, rplan, rdraft>>,
         NoneStoring' => NoneStoring, NoneStoring' /\ AllAsked' => AllAsked
  PROVE  FreshIsCurrent' /\ StaleIsAskedFor'
<1> USE DEF FreshIsCurrent, StaleIsAskedFor
<1>1. QED OBVIOUS

(* A command goes from where nothing is stored to where nothing is stored, or
   moves along its way to Uncache. *)
LEMMA StayNoticed ==
  ASSUME NEW w \in Writer, NEW to, wpc \in [Writer -> WriterPcs], Goto(w, to),
         wpc[w] \in Storing => to \in Storing,
         wpc[w] # "request"
  PROVE  (NoneStoring' => NoneStoring) /\ (AllAsked' => AllAsked)
<1>1. \A v \in Writer : v # w => wpc'[v] = wpc[v]
  BY DEF Goto
<1>2. wpc'[w] = to
  BY DEF Goto
<1>3. NoneStoring' => NoneStoring
  BY <1>1, <1>2, Zenon DEF NoneStoring
<1>4. AllAsked' => AllAsked
  BY <1>1, Zenon DEF AllAsked
<1>5. QED BY <1>3, <1>4

(* A step of a command keeps both parts: a write puts the command among the
   storing ones, where it stays until it drops the debounce entry; from there it
   is about to ask for a read until it has. *)
LEMMA WorkerCurrent ==
  ASSUME NEW w \in Writer, DataOK, FreshIsCurrent, StaleIsAskedFor,
         Enqueue(w) \/ Worker(w)
  PROVE  FreshIsCurrent' /\ StaleIsAskedFor'
<1> USE DEF shared, worker, reader
<1>0. wpc \in [Writer -> WriterPcs]
  BY DEF DataOK
<1>1. CASE Enqueue(w) \/ BeginWrite(w) \/ Wait(w) \/ Expire(w) \/ RefuseExpired(w) \/ TakeIo(w)
           \/ ReadBase(w)
  <2>1. UNCHANGED <<device, snapshot, fresh, forced, excused, rpc, rplan, rdraft>>
    BY <1>1, Zenon DEF Enqueue, BeginWrite, Wait, Expire, RefuseExpired, TakeIo, ReadBase
  <2>2. PICK to \in WriterPcs : Goto(w, to)
    BY <1>1 DEF Enqueue, BeginWrite, Wait, Expire, RefuseExpired, TakeIo, ReadBase, WriterPcs
  <2>3. wpc[w] \notin Storing /\ wpc[w] # "request"
    BY <1>1 DEF Enqueue, BeginWrite, Wait, Expire, RefuseExpired, TakeIo, ReadBase, Storing
  <2>4. QED BY <1>0, <2>1, <2>2, <2>3, StayNoticed, StayCurrent
<1>2. CASE Mutate(w) \/ Store(w)
  <2>1. wpc'[w] \in Storing
    BY <1>0, <1>2 DEF Mutate, Store, Goto, Storing
  <2>2. ~NoneStoring'
    BY <2>1 DEF NoneStoring
  <2>3. QED BY <2>2 DEF FreshIsCurrent, StaleIsAskedFor
<1>3. CASE MutateFails(w)
  <2>1. CASE excused'
    BY <2>1 DEF FreshIsCurrent, StaleIsAskedFor
  <2>2. CASE UNCHANGED <<device, excused>>
    <3>1. UNCHANGED <<device, snapshot, fresh, forced, excused, rpc, rplan, rdraft>>
      BY <1>3, <2>2, Zenon DEF MutateFails
    <3>2. Goto(w, "abandonIo") /\ wpc[w] \notin Storing /\ wpc[w] # "request"
      BY <1>3 DEF MutateFails, Storing
    <3>3. QED BY <1>0, <3>1, <3>2, StayNoticed, StayCurrent
  <2>3. QED BY <1>3, <2>1, <2>2 DEF MutateFails
<1>4. CASE ReleaseIo(w) \/ ReleaseFlag(w)
  <2>1. UNCHANGED <<device, snapshot, fresh, forced, excused, rpc, rplan, rdraft>>
    BY <1>4, Zenon DEF ReleaseIo, ReleaseFlag
  <2>2. PICK to \in WriterPcs : Goto(w, to) /\ (wpc[w] \in Storing => to \in Storing)
    BY <1>4 DEF ReleaseIo, ReleaseFlag, Storing, WriterPcs
  <2>3. wpc[w] # "request"
    BY <1>4 DEF ReleaseIo, ReleaseFlag
  <2>4. QED BY <1>0, <2>1, <2>2, <2>3, StayNoticed, StayCurrent
<1>5. CASE Notify(w)
  <2>1. UNCHANGED <<device, snapshot, fresh, forced, excused, rpc, rplan, rdraft>>
    BY <1>5, Zenon DEF Notify
  <2>2. \A v \in Writer : /\ wpc'[v] \in Storing <=> wpc[v] \in Storing
                          /\ wpc'[v] = "request" <=> wpc[v] = "request"
    BY <1>0, <1>5 DEF Notify, AfterNotify, Goto, Storing
  <2>3. (NoneStoring' => NoneStoring) /\ (AllAsked' => AllAsked)
    BY <2>2, Zenon DEF NoneStoring, AllAsked
  <2>4. QED BY <2>1, <2>3, StayCurrent
<1>6. CASE Remember(w)
  <2>1. CASE excused'
    BY <2>1 DEF FreshIsCurrent, StaleIsAskedFor
  <2>2. CASE Goto(w, "store") /\ UNCHANGED excused
    <3>1. UNCHANGED <<device, snapshot, fresh, forced, excused, rpc, rplan, rdraft>>
      BY <1>6, <2>2, Zenon DEF Remember
    <3>2. "store" \in Storing /\ wpc[w] # "request"
      BY <1>6 DEF Remember, Storing
    <3>3. QED BY <1>0, <2>2, <3>1, <3>2, StayNoticed, StayCurrent
  <2>3. QED BY <1>6, <2>1, <2>2 DEF Remember
<1>7. CASE Uncache(w)
  <2>1. ~fresh'
    BY <1>7 DEF Uncache
  <2>2. wpc'[w] = "request"
    BY <1>0, <1>7 DEF Uncache, Goto
  <2>3. ~AllAsked'
    BY <2>2 DEF AllAsked
  <2>4. QED BY <2>1, <2>3 DEF FreshIsCurrent, StaleIsAskedFor
<1>8. CASE RequestQuick(w)
  <2>1. forced' \in Verifying
    BY <1>8, MergeType, PlanFacts DEF RequestQuick, DataOK
  <2>2. UNCHANGED <<device, snapshot, fresh, excused, rpc, rplan, rdraft>>
    BY <1>8, Zenon DEF RequestQuick
  <2>3. \A v \in Writer : wpc'[v] \in Storing <=> wpc[v] \in Storing
    BY <1>0, <1>8 DEF RequestQuick, Goto, Storing
  <2>4. NoneStoring' <=> NoneStoring
    BY <2>3, Zenon DEF NoneStoring
  <2>5. FreshIsCurrent'
    BY <2>2, <2>4 DEF FreshIsCurrent
  <2>6. StaleIsAskedFor'
    BY <2>1 DEF StaleIsAskedFor
  <2>7. QED BY <2>5, <2>6
<1>9. QED BY <1>1, <1>2, <1>3, <1>4, <1>5, <1>6, <1>7, <1>8, Zenon DEF Worker

(* A step of the reader keeps both parts: what it publishes is the device, or
   the entry of a moment when nothing was owed. *)
LEMMA ReaderCurrent ==
  ASSUME DataOK, FreshIsCurrent, StaleIsAskedFor,
         Reader \/ ReadFails \/ DebounceExpires \/ Asks
  PROVE  FreshIsCurrent' /\ StaleIsAskedFor'
<1> USE DEF shared, worker, reader
<1>1. wpc' = wpc
  BY Zenon DEF Reader, StartPass, ReaderTakeIo, KeepEntry, SkipDevice, ReadDevice,
     ReadBattery, FallBack, ReaderReleaseIo, Publish, ReadFails, DebounceExpires, Asks, Ask
<1>2. (NoneStoring' <=> NoneStoring) /\ (AllAsked' <=> AllAsked)
  BY <1>1 DEF NoneStoring, AllAsked
<1> USE DEF FreshIsCurrent, StaleIsAskedFor
<1>3. CASE StartPass
  <2>1. forced \in Verifying => rplan' \in Verifying
    BY <1>3, PlanFacts DEF StartPass, DataOK, RP!Rank, Verifying
  <2>2. forced' \notin Verifying /\ rpc = "top" /\ rpc' = "locking"
    BY <1>3, PlanFacts DEF StartPass, Verifying
  <2>3. UNCHANGED <<device, snapshot, fresh, excused>>
    BY <1>3 DEF StartPass
  <2>4. QED BY <1>2, <2>1, <2>2, <2>3
<1>4. CASE ReaderTakeIo \/ ReaderReleaseIo
  BY <1>2, <1>4 DEF ReaderTakeIo, ReaderReleaseIo
<1>5. CASE KeepEntry
  <2>1. /\ rpc = "reading" /\ rpc' = "release" /\ rdraft' = snapshot
        /\ UNCHANGED <<device, fresh, forced, excused>>
    BY <1>5 DEF KeepEntry
  <2>2. fresh \/ rplan \notin Verifying
    BY <1>5, PlanFacts DEF KeepEntry, RP!UseCachedRead, Verifying
  <2>3. QED BY <1>2, <2>1, <2>2
<1>6. CASE ReadDevice
  BY <1>6 DEF ReadDevice
<1>7. CASE ReadBattery
  <2>1. /\ rpc = "reading" /\ rpc' = "release" /\ rdraft' = snapshot /\ rplan \notin Verifying
        /\ UNCHANGED <<device, forced>>
    BY <1>7 DEF ReadBattery, Reading, Verifying
  <2>2. ~excused' => ~excused /\ forced \notin Verifying /\ AllAsked
    <3>1. ~excused' => ~excused /\ ~VerificationDue
      BY <1>7, Zenon DEF ReadBattery
    <3>2. ~VerificationDue => forced \notin Verifying /\ AllAsked
      BY PlanFacts DEF VerificationDue, AllAsked, DataOK
    <3>3. QED BY <3>1, <3>2
  <2>3. QED BY <1>2, <2>1, <2>2
<1>8. CASE FallBack
  <2>1. /\ rpc = "reading" /\ rpc' = "release" /\ rdraft' = snapshot
        /\ UNCHANGED <<device, forced, fresh>>
    BY <1>8 DEF FallBack, Reading, shared
  <2>2. ~excused' => ~excused /\ rplan \notin Verifying
    <3>1. ~excused' => ~excused /\ rplan # "Quick"
      BY <1>8, Zenon DEF FallBack
    <3>2. rplan # "Full"
      BY <1>8 DEF FallBack, Reading
    <3>3. QED BY <3>1, <3>2 DEF Verifying
  <2>3. fresh => rplan \notin {"BatteryOnly", "Quick"}
    BY <1>8 DEF FallBack, Reading, RP!UseCachedRead
  <2>4. rplan \in {"BatteryOnly", "Quick"}
    BY <1>8 DEF FallBack, Reading
  <2>5. QED BY <1>2, <2>1, <2>2, <2>3, <2>4
<1>9. CASE Publish
  BY <1>2, <1>9 DEF Publish
<1>10. CASE ReadFails \/ SkipDevice
  <2>1. excused'
    BY <1>10, Zenon DEF ReadFails, SkipDevice
  <2>2. QED BY <2>1
<1>11. CASE DebounceExpires
  BY <1>2, <1>11 DEF DebounceExpires
<1>12. CASE Asks
  <2>1. PICK plan \in Asked : Ask(plan)
    BY <1>12 DEF Asks
  <2>2. forced \in Verifying => forced' \in Verifying
    BY <2>1, AskedAssumption, MergeType DEF Ask, DataOK
  <2>3. QED BY <1>2, <2>1, <2>2 DEF Ask
<1>13. QED
  BY <1>3, <1>4, <1>5, <1>6, <1>7, <1>8, <1>9, <1>10, <1>11, <1>12, Zenon DEF Reader

(* Every step preserves the invariant. *)
LEMMA IInvStep == IInv /\ [Next]_vars => IInv'
<1> SUFFICES ASSUME IInv, [Next]_vars PROVE IInv'
  OBVIOUS
<1>1. BoolOK /\ DataOK
  BY TypeParts, Zenon DEF IInv
<1>2. TypeOK'
  <2>1. BoolOK' /\ DataOK'
    BY <1>1, BoolStep, DataStep, Zenon
  <2>2. QED BY <2>1, Zenon DEF TypeOK, BoolOK, DataOK
<1>3. WritesAreSerialized' /\ NoStrandedWriter'
  BY <1>1, WritesStep, StrandedStep, Zenon DEF IInv
<1>4. FreshIsCurrent' /\ StaleIsAskedFor'
  <2>1. ASSUME NEW w \in Writer, Enqueue(w) \/ Worker(w)
        PROVE  FreshIsCurrent' /\ StaleIsAskedFor'
    BY <1>1, <2>1, WorkerCurrent DEF IInv
  <2>2. CASE Reader \/ ReadFails \/ DebounceExpires \/ Asks
    BY <1>1, <2>2, ReaderCurrent DEF IInv
  <2>3. CASE UNCHANGED vars
    BY <2>3 DEF IInv, FreshIsCurrent, StaleIsAskedFor, NoneStoring, AllAsked, vars, shared,
       worker, reader
  <2>4. QED BY <2>1, <2>2, <2>3, Zenon DEF Next, Asks
<1>5. QED BY <1>2, <1>3, <1>4, Zenon DEF IInv

-----------------------------------------------------------------------------
(* The invariant holds in every behaviour. *)
THEOREM Inductive == Spec => []IInv
<1>1. Init => IInv
  BY InitIInv
<1>2. IInv /\ [Next]_vars => IInv'
  BY IInvStep
<1>3. QED BY <1>1, <1>2, PTL DEF Spec

(* Every variable stays in its type, however many commands there are. *)
THEOREM TypeCorrect == Spec => []TypeOK
<1>1. IInv => TypeOK
  BY DEF IInv
<1>2. QED BY <1>1, Inductive, PTL

(* begin_device_write gives the flag to one command at a time, with any number
   of them queueing, expiring, barging in and failing. *)
THEOREM MutualExclusion == Spec => []WritesAreSerialized
<1>1. IInv => WritesAreSerialized
  BY DEF IInv
<1>2. QED BY <1>1, Inductive, PTL

(* A notify_one that reaches a thread which then expires strands nobody: while
   the flag is down and a command sleeps, some thread is on its way. *)
THEOREM NobodyStranded == Spec => []NoStrandedWriter
<1>1. IInv => NoStrandedWriter
  BY DEF IInv
<1>2. QED BY <1>1, Inductive, PTL

(* Dropping the debounce entry and asking for a Quick read repairs every stale
   publication, in whatever order the passes and the requests of others come:
   once all is answered and no read of the fields is queued, the published
   snapshot is the device, unless that read failed, was skipped, had no
   projection or was forestalled by a BatteryOnly pass. *)
THEOREM Converges == Spec => []SnapshotConverges
<1>1. IInv => SnapshotConverges
  <2> SUFFICES ASSUME IInv, rpc = "top", ~VerificationDue, ~excused,
                      \A w \in Writer : wpc[w] \in {"idle", "queued", "asleep", "expired",
                                                    "answered", "failed"}
               PROVE  snapshot = device
    BY DEF SnapshotConverges
  <2>1. NoneStoring /\ AllAsked
    BY DEF NoneStoring, AllAsked, Storing
  <2>2. forced \notin Verifying
    BY PlanFacts DEF VerificationDue, IInv, TypeOK
  <2>3. QED BY <2>1, <2>2 DEF IInv, StaleIsAskedFor
<1>2. QED BY <1>1, Inductive, PTL
=============================================================================
