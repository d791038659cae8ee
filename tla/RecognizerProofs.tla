--------------------------- MODULE RecognizerProofs ---------------------------
(***************************************************************************)
(* Proofs about one recognizer handle: whatever calls are made of it and   *)
(* whichever of their steps fail, a session has one owner, a line is read  *)
(* from the buffer it was written to, every session fans out over the      *)
(* handle's own pool, and a failed switch leaves the active session.       *)
(*                                                                         *)
(* The argument is one inductive invariant in five parts, IInv.  That a    *)
(* session has one owner holds only together with what the slots say of    *)
(* its width, and with where in a call a slot is known to be empty.        *)
(***************************************************************************)
EXTENDS Recognizer, FiniteSetTheorems, TLAPS

(* A slot is empty or names a live session of its width; its plan, if it   *)
(* has one, works on that session.                                         *)
Fits(o) ==
  IF o.session = Nil THEN o = Empty
  ELSE /\ width[o.session] = o.width /\ o.width # 0
       /\ o.plan \in {Nil, o.session}

SlotsFit == Fits(active) /\ Fits(cached) /\ \A w \in Widths : Fits(resident[w])

(* Where in a call what is known of the slots. *)
ControlInv ==
  /\ pc = "absent" => cached = Empty /\ intra_pool = Nil /\ intra_workers = 0
  /\ pc = "absent" <=> active.session = Nil
  /\ pc = "publish" <=> candidate # Nil
  /\ pc = "publish" => width[candidate] = target
  /\ pc \in {"absent", "clone", "enable", "build", "publish"} => ~resident_widths_enabled
  /\ pc \in {"build", "publish"} => cached.session = Nil
  /\ pc \in {"configure", "build", "publish"} => target \in Widths /\ active.width # target
  /\ pc \in {"compiled", "execute_compiled"} => target \in Widths /\ Compiled(target)
  /\ pc = "execute_compiled" => filled = target
  /\ pc \in {"preprocess", "plan", "execute", "execute_plan"} => active.width = target
  /\ pc \in {"plan", "execute", "execute_plan"} => filled = active.session
  /\ pc = "execute_plan" => active.plan = active.session

(* No two of the owners own the same session, and they own all there are. *)
Apart ==
  /\ active.session # Nil => active.session \notin {cached.session, candidate}
  /\ cached.session # Nil => cached.session # candidate
  /\ \A w \in Widths : resident[w].session # Nil =>
       resident[w].session \notin {active.session, cached.session, candidate}
  /\ \A v, w \in Widths :
       resident[v].session = resident[w].session /\ v # w => resident[v].session = Nil

AllOwned ==
  \A s \in Live :
    \/ s \in {active.session, cached.session, candidate}
    \/ \E w \in Widths : resident[w].session = s

(* Which widths the slots hold. *)
WidthsInv ==
  /\ ~resident_widths_enabled /\ pc # "enable" =>
       \A w \in Widths : resident[w].session = Nil
  /\ pc = "enable" =>
       \A w \in Widths : resident[w].session # Nil =>
         resident[w].width = w /\ w # active.width /\ resident[w].plan = Nil
  /\ ~resident_widths_enabled /\ cached.session # Nil => cached.width # active.width

(* A session that is not there borrows no pool. *)
PoolInv ==
  /\ OnePool
  /\ \A s \in Sessions \ Live : external[s] = Detached

(* A plan is freed once and not after its session. *)
PlansInv ==
  \A s \in Sessions : s \in plans <=>
    s \in {active.plan, cached.plan} \cup {resident[w].plan : w \in Widths}

(* With resident widths no width is ever lost: the lookup of a slot by its *)
(* width never comes back empty-handed.                                    *)
NoWidthLost ==
  resident_widths_enabled =>
    \A w \in Widths : w = active.width \/ \E v \in Widths : resident[v].width = w

OwnersInv == SlotsFit /\ Apart /\ AllOwned

IInv ==
  /\ TypeOK /\ ControlInv /\ OwnersInv /\ WidthsInv /\ PoolInv /\ PlansInv
  /\ NoWidthLost

-----------------------------------------------------------------------------
(* Types                                                                   *)

LEMMA Borrows ==
  ASSUME NEW pool \in Pools \cup {Nil}, NEW n \in 0 .. MaxWorkers
  PROVE  Borrow(pool, n) \in Attachment
  BY MaxWorkersAssumption DEF Borrow, Attachment, Detached

LEMMA Slots ==
  /\ Empty \in Slot /\ Detached \in Attachment
  /\ \A s \in Sessions \cup {Nil}, w \in Widths \cup {0}, d \in BOOLEAN :
       [Empty EXCEPT !.session = s, !.width = w, !.disabled = d] \in Slot
  /\ \A s \in Sessions \cup {Nil}, w \in Widths \cup {0} :
       [Empty EXCEPT !.session = s, !.width = w] \in Slot
  BY DEF Empty, Slot, Detached, Attachment

LEMMA PoolSizes ==
  ASSUME TypeOK
  PROVE  PoolSize \in 1 .. MaxWorkers \/ PoolSize = 0
  BY MaxWorkersAssumption DEF PoolSize, TypeOK

LEMMA SetWorkersTypes ==
  ASSUME TypeOK, NEW n \in 1 .. MaxWorkers, SetWorkers(n)
  PROVE  /\ intra_pool' \in Pools \cup {Nil} /\ intra_workers' \in 0 .. MaxWorkers
         /\ capacity' \in [Pools -> 0 .. MaxWorkers]
         /\ external' \in [Sessions -> Attachment]
         /\ x64_slots' \in [Widths -> Attachment \cup {Nil}]
<1> USE MaxWorkersAssumption
<1>t. /\ intra_pool \in Pools \cup {Nil} /\ intra_workers \in 0 .. MaxWorkers
      /\ capacity \in [Pools -> 0 .. MaxWorkers]
      /\ external \in [Sessions -> Attachment]
      /\ x64_slots \in [Widths -> Attachment \cup {Nil}]
  BY DEF TypeOK
<1>a. ASSUME NEW p \in Pools \cup {Nil}, NEW k \in 0 .. MaxWorkers, Attach(p, k)
      PROVE  /\ external' \in [Sessions -> Attachment]
             /\ x64_slots' \in [Widths -> Attachment \cup {Nil}]
  <2> DEFINE B == Borrow(p, k)
  <2>1. B \in Attachment
    BY <1>a, Borrows
  <2>2. /\ external' = [s \in Sessions |->
             IF s \in {active.session, cached.session} \cup {resident[w].session : w \in Widths}
             THEN B ELSE external[s]]
        /\ x64_slots' = [w \in Widths |-> IF Compiled(w) THEN B ELSE Nil]
    BY <1>a DEF Attach
  <2> HIDE DEF B
  <2> QED
    BY <2>1, <2>2, <1>t
<1>p. PoolSize \in 0 .. MaxWorkers
  BY PoolSizes
<1>1. CASE UNCHANGED <<pools, external, x64_slots>>
  BY <1>1, <1>t DEF pools
<1>2. CASE intra_workers' = n /\ Attach(intra_pool, n) /\ UNCHANGED <<intra_pool, capacity>>
  BY <1>2, <1>t, <1>a, n \in 0 .. MaxWorkers
<1>3. CASE /\ intra_workers' = PoolSize /\ Attach(intra_pool, PoolSize)
           /\ UNCHANGED <<intra_pool, capacity>>
  BY <1>3, <1>t, <1>p, <1>a
<1>4. CASE \E p \in Pools, size \in 2 .. n :
             /\ capacity' = [q \in Pools |->
                  IF q = p THEN size ELSE IF q = intra_pool THEN 0 ELSE capacity[q]]
             /\ intra_pool' = p /\ intra_workers' = size /\ Attach(p, size)
  <2>1. PICK p \in Pools, size \in 2 .. n :
             /\ capacity' = [q \in Pools |->
                  IF q = p THEN size ELSE IF q = intra_pool THEN 0 ELSE capacity[q]]
             /\ intra_pool' = p /\ intra_workers' = size /\ Attach(p, size)
    BY <1>4
  <2>2. size \in 0 .. MaxWorkers
    OBVIOUS
  <2>3. capacity' \in [Pools -> 0 .. MaxWorkers]
    BY <2>1, <2>2, <1>t
  <2> QED
    BY <2>1, <2>2, <2>3, <1>a
<1> QED
  BY <1>1, <1>2, <1>3, <1>4 DEF SetWorkers

LEMMA FreedTypes ==
  ASSUME TypeOK, NEW S, FreeSessions(S)
  PROVE  /\ width' \in [Sessions -> Widths \cup {0}]
         /\ external' \in [Sessions -> Attachment]
  BY Slots DEF TypeOK, FreeSessions

LEMMA OpenTypes ==
  ASSUME TypeOK, NEW w \in Widths, NEW d \in BOOLEAN, Open(w, d)
  PROVE  /\ active' \in Slot /\ width' \in [Sessions -> Widths \cup {0}]
         /\ x64_slots' \in [Widths -> Attachment \cup {Nil}]
         /\ fast_shared' \in BOOLEAN
<1>1. PICK s \in Sessions, compiled \in SUBSET Widths, shared \in BOOLEAN :
        /\ active' = [Empty EXCEPT !.session = s, !.width = w, !.disabled = d]
        /\ width' = [width EXCEPT ![s] = w]
        /\ x64_slots' = [v \in Widths |-> IF v \in compiled THEN Detached ELSE Nil]
        /\ fast_shared' = shared
  BY DEF Open
<1> QED
  BY <1>1, Slots DEF TypeOK

LEMMA TypeStep ==
  ASSUME TypeOK, ControlInv, [Next]_vars
  PROVE  TypeOK'
<1>s. SUFFICES ASSUME Next PROVE TypeOK'
  BY DEF TypeOK, vars, slots, pools, sessions
<1>1. CASE Create
  BY <1>1, OpenTypes DEF Create, Open, TypeOK, pools
<1>2. CASE Clone
  BY <1>2, OpenTypes DEF Clone, Open, TypeOK, pools
<1>3. CASE AttachClone
  BY <1>3, SetWorkersTypes DEF AttachClone, TypeOK, slots
<1>4. CASE Free
  <2>1. capacity' \in [Pools -> 0 .. MaxWorkers]
    BY <1>4, MaxWorkersAssumption DEF Free, TypeOK
  <2>2. /\ width' \in [Sessions -> Widths \cup {0}]
        /\ external' \in [Sessions -> Attachment]
    BY <1>4, FreedTypes DEF Free
  <2>3. /\ active' \in Slot /\ cached' \in Slot /\ resident' \in [Widths -> Slot]
        /\ x64_slots' \in [Widths -> Attachment \cup {Nil}]
    BY <1>4, Slots DEF Free
  <2>4. intra_workers' \in 0 .. MaxWorkers /\ intra_pool' = Nil /\ plans' \subseteq Sessions
    BY <1>4, MaxWorkersAssumption DEF Free, TypeOK
  <2> QED
    BY <1>4, <2>1, <2>2, <2>3, <2>4 DEF Free, TypeOK
<1>5. CASE SetThreads
  BY <1>5, SetWorkersTypes DEF SetThreads, TypeOK, slots
<1>6. CASE EnableBegin
  BY <1>6 DEF EnableBegin, TypeOK, slots, pools, sessions
<1>7. ASSUME NEW w \in Widths, NEW s \in Sessions, EnableSlot(w, s)
      PROVE  TypeOK'
  <2>1. Borrow(intra_pool, intra_workers) \in Attachment
    BY Borrows DEF TypeOK
  <2>2. external' \in [Sessions -> Attachment] /\ width' \in [Sessions -> Widths \cup {0}]
    BY <1>7, <2>1 DEF EnableSlot, TypeOK
  <2>3. resident' \in [Widths -> Slot]
    BY <1>7, Slots DEF EnableSlot, TypeOK
  <2> QED
    BY <1>7, <2>2, <2>3 DEF EnableSlot, TypeOK, pools
<1>8. CASE EnableFails
  BY <1>8, FreedTypes, Slots DEF EnableFails, TypeOK, pools
<1>9. CASE EnableDone
  BY <1>9 DEF EnableDone, TypeOK, pools, sessions
<1>10. CASE \E w \in Widths : Start(w)
  BY <1>10 DEF Start, Canonical, TypeOK, slots, pools, sessions
<1>11. CASE CompiledPreprocess \/ CompiledRejects
  BY <1>11 DEF CompiledPreprocess, CompiledRejects, Canonical, TypeOK, slots, pools,
               sessions
<1>12. CASE ExecuteCompiled \/ BuildFails \/ PreprocessFails \/ Execute
  BY <1>12 DEF ExecuteCompiled, BuildFails, PreprocessFails, Execute, Finish, TypeOK,
               slots, pools, sessions
<1>13. ASSUME NEW w \in Widths, ConfigureResident(w)
       PROVE  TypeOK'
  BY <1>13 DEF ConfigureResident, TypeOK, pools, sessions
<1>14. CASE ActivateCached
  BY <1>14 DEF ActivateCached, TypeOK, pools, sessions
<1>15. CASE ReleaseCached
  BY <1>15, FreedTypes, Slots DEF ReleaseCached, TypeOK, pools
<1>16. ASSUME NEW s \in Sessions, Build(s)
       PROVE  TypeOK'
  <2>1. width' \in [Sessions -> Widths \cup {0}]
    BY <1>16 DEF Build, ControlInv, TypeOK
  <2> QED
    BY <1>16, <2>1 DEF Build, TypeOK, slots, pools
<1>17. CASE CandidateRejected
  BY <1>17, FreedTypes DEF CandidateRejected, Finish, TypeOK, slots, pools
<1>18. CASE Publish
  <2>1. target \in Widths /\ candidate \in Sessions
    BY <1>18 DEF Publish, ControlInv, TypeOK
  <2>2. external' \in [Sessions -> Attachment]
    BY <1>18, Borrows DEF Publish, TypeOK
  <2>3. active' \in Slot /\ cached' \in Slot
    BY <1>18, <2>1, Slots DEF Publish, TypeOK
  <2> QED
    BY <1>18, <2>2, <2>3 DEF Publish, TypeOK, pools
<1>19. CASE Preprocess
  BY <1>19 DEF Preprocess, TypeOK, Slot, slots, pools, sessions
<1>20. CASE NoPlan
  BY <1>20 DEF NoPlan, TypeOK, slots, pools, sessions
<1>21. CASE UsePlan \/ PlanFails \/ PlanRunFails
  <2>1. active' \in Slot /\ plans' \subseteq Sessions
    <3>1. active \in Slot /\ active.session \in Sessions /\ plans \subseteq Sessions
      BY <1>21 DEF UsePlan, PlanFails, PlanRunFails, ControlInv, TypeOK, Slot
    <3>2. /\ [active EXCEPT !.plan = active.session] \in Slot
          /\ [active EXCEPT !.disabled = TRUE] \in Slot
          /\ [active EXCEPT !.plan = Nil, !.disabled = TRUE] \in Slot
      BY <3>1 DEF Slot
    <3> QED
      BY <1>21, <3>1, <3>2 DEF UsePlan, PlanFails, PlanRunFails, sessions
  <2> QED
    BY <1>21, <2>1 DEF UsePlan, PlanFails, PlanRunFails, TypeOK, pools, sessions
<1> QED
  BY <1>s, <1>1, <1>2, <1>3, <1>4, <1>5, <1>6, <1>7, <1>8, <1>9, <1>10, <1>11, <1>12,
     <1>13, <1>14, <1>15, <1>16, <1>17, <1>18, <1>19, <1>20, <1>21
     DEF Next, Enable, Recognize, Configure

-----------------------------------------------------------------------------
(* Owners                                                                  *)

LEMMA AtRest ==
  ASSUME IInv, pc = "absent"
  PROVE  /\ active = Empty /\ cached = Empty /\ candidate = Nil
         /\ \A w \in Widths : resident[w] = Empty
         /\ Live = {} /\ \A s \in Sessions : width[s] = 0
         /\ plans = {} /\ resident_widths_enabled = FALSE
<1>1. /\ active = Empty /\ cached = Empty /\ candidate = Nil
      /\ ~resident_widths_enabled /\ \A w \in Widths : resident[w] = Empty
  BY DEF IInv, ControlInv, WidthsInv, OwnersInv, SlotsFit, Fits
<1>2. Live = {}
  BY <1>1, NilAssumption DEF IInv, OwnersInv, AllOwned, Live, Empty
<1>3. plans = {}
  BY <1>1, NilAssumption DEF IInv, PlansInv, TypeOK, Empty
<1> QED
  BY <1>1, <1>2, <1>3 DEF Live, IInv, TypeOK

(* The steps that change no owner. *)
KeepsOwners == UNCHANGED <<active, cached, resident, candidate, width>>

LEMMA OwnersKept ==
  ASSUME OwnersInv, KeepsOwners
  PROVE  OwnersInv'
  BY DEF OwnersInv, SlotsFit, Fits, Apart, AllOwned, Live, KeepsOwners

(* A fast plan that comes or goes stays with the session it works on. *)
LEMMA OwnersPlanned ==
  ASSUME TypeOK, OwnersInv, active.session # Nil,
         UNCHANGED <<cached, resident, candidate, width>>,
         \E p \in {active.plan, active.session, Nil}, d \in BOOLEAN :
           active' = [active EXCEPT !.plan = p, !.disabled = d]
  PROVE  OwnersInv'
<1>1. /\ active'.session = active.session /\ active'.width = active.width
      /\ active'.plan \in {active.plan, active.session, Nil}
  BY DEF TypeOK, Slot
<1> QED
  BY <1>1 DEF OwnersInv, SlotsFit, Fits, Apart, AllOwned, Live

LEMMA OwnersOpen ==
  ASSUME IInv, pc = "absent", NEW w \in Widths, NEW d \in BOOLEAN, Open(w, d)
  PROVE  OwnersInv'
<1>1. PICK s \in Sessions :
        /\ active' = [Empty EXCEPT !.session = s, !.width = w, !.disabled = d]
        /\ width' = [width EXCEPT ![s] = w]
  BY DEF Open
<1>2. active'.session = s /\ active'.width = w /\ active'.plan = Nil
  BY <1>1 DEF Empty
<1>3. /\ cached' = Empty /\ candidate' = Nil /\ \A v \in Widths : resident'[v] = Empty
      /\ \A t \in Sessions : width[t] = 0
  BY AtRest DEF Open
<1>4. width'[s] = w /\ w # 0 /\ \A t \in Sessions : width'[t] # 0 => t = s
  BY <1>1, <1>3, WidthsAssumption DEF IInv, TypeOK
<1>5. Empty.session = Nil
  BY DEF Empty
<1> QED
  BY <1>2, <1>3, <1>4, <1>5, NilAssumption DEF OwnersInv, SlotsFit, Fits, Apart, AllOwned, Live

LEMMA OwnersStep ==
  ASSUME IInv, [Next]_vars
  PROVE  OwnersInv'
<1> USE DEF IInv
<1>e. Empty.session = Nil /\ Empty.width = 0 /\ Empty.plan = Nil
  BY DEF Empty
<1>n. \A s \in Sessions : s # Nil
  BY NilAssumption
<1>s. SUFFICES ASSUME Next, ~KeepsOwners PROVE OwnersInv'
  BY OwnersKept DEF vars, slots, sessions, KeepsOwners
<1>1. CASE Create \/ Clone
  BY <1>1, OwnersOpen DEF Create, Clone
<1>2. CASE Free
  <2>1. /\ active' = Empty /\ cached' = Empty /\ candidate' = Nil
        /\ \A w \in Widths : resident'[w] = Empty
    BY <1>2 DEF Free, ControlInv
  <2>2. ASSUME NEW s \in Sessions
        PROVE  width'[s] = 0
    <3> DEFINE owned == {active, cached} \cup {resident[w] : w \in Widths}
    <3>1. width'[s] = IF s \in {o.session : o \in owned} THEN 0 ELSE width[s]
      BY <1>2 DEF Free, FreeSessions
    <3>2. CASE width[s] = 0
      BY <3>1, <3>2
    <3>3. CASE width[s] # 0
      <4>1. \E o \in owned : o.session = s
        BY <1>2, <3>3, <1>n DEF Free, ControlInv, OwnersInv, AllOwned, Live
      <4> QED
        BY <4>1, <3>1
    <3> QED
      BY <3>2, <3>3
  <2> QED
    BY <2>1, <2>2, <1>e DEF OwnersInv, SlotsFit, Fits, Apart, AllOwned, Live
<1>3. ASSUME NEW w \in Widths, NEW s \in Sessions, EnableSlot(w, s)
      PROVE  OwnersInv'
  <2>1. /\ width[s] = 0 /\ resident[w].session = Nil
        /\ \A v \in Widths : resident'[v] =
             IF v = w THEN [Empty EXCEPT !.session = s, !.width = w] ELSE resident[v]
        /\ \A t \in Sessions : width'[t] = IF t = s THEN w ELSE width[t]
        /\ UNCHANGED <<active, cached, candidate>> /\ pc = "enable"
    BY <1>3 DEF EnableSlot, Unbuilt, TypeOK
  <2>2. resident'[w].session = s /\ resident'[w].width = w /\ resident'[w].plan = Nil
    BY <2>1 DEF Empty
  <2>3. s \notin {active.session, cached.session} /\ \A v \in Widths : resident[v].session # s
    BY <2>1, <1>n DEF OwnersInv, SlotsFit, Fits
  <2>4. candidate = Nil /\ w # 0
    BY <2>1, WidthsAssumption DEF ControlInv
  <2>5. SlotsFit'
    BY <2>1, <2>2, <2>3, <2>4, <1>n DEF OwnersInv, SlotsFit, Fits, TypeOK, Slot
  <2>6. Apart'
    BY <2>1, <2>2, <2>3, <2>4, <1>n DEF OwnersInv, Apart
  <2>7. AllOwned'
    BY <2>1, <2>2, <2>4 DEF OwnersInv, AllOwned, Live
  <2> QED
    BY <2>5, <2>6, <2>7 DEF OwnersInv
<1>4. CASE EnableFails
  <2>1. /\ \A w \in Widths : resident'[w] = Empty
        /\ \A t \in Sessions : width'[t] =
             IF \E w \in Widths : resident[w].session = t THEN 0 ELSE width[t]
        /\ UNCHANGED <<active, cached, candidate>> /\ pc = "enable"
    BY <1>4 DEF EnableFails, FreeSessions
  <2>2. candidate = Nil
    BY <2>1 DEF ControlInv
  <2>3. SlotsFit'
    BY <2>1, <1>e, <1>n DEF OwnersInv, SlotsFit, Fits, Apart, TypeOK, Slot
  <2>4. Apart'
    BY <2>1, <1>e DEF OwnersInv, Apart
  <2>5. AllOwned'
    BY <2>1 DEF OwnersInv, AllOwned, Live
  <2> QED
    BY <2>3, <2>4, <2>5 DEF OwnersInv
<1>5. ASSUME NEW w \in Widths, ConfigureResident(w)
      PROVE  OwnersInv'
  <2>1. /\ active' = resident[w]
        /\ \A v \in Widths : resident'[v] = IF v = w THEN active ELSE resident[v]
        /\ UNCHANGED <<cached, candidate, width>>
    BY <1>5 DEF ConfigureResident, TypeOK, sessions
  <2> QED
    BY <2>1, <1>n DEF OwnersInv, SlotsFit, Fits, Apart, AllOwned, Live
<1>6. CASE ActivateCached
  <2>1. active' = cached /\ cached' = active /\ UNCHANGED <<resident, candidate, width>>
    BY <1>6 DEF ActivateCached, sessions
  <2> QED
    BY <2>1 DEF OwnersInv, SlotsFit, Fits, Apart, AllOwned, Live
<1>7. CASE ReleaseCached
  <2>1. /\ cached' = Empty /\ UNCHANGED <<active, resident, candidate>>
        /\ \A t \in Sessions : width'[t] = IF t = cached.session THEN 0 ELSE width[t]
    BY <1>7 DEF ReleaseCached, FreeSessions
  <2>2. SlotsFit'
    BY <2>1, <1>e, <1>n DEF OwnersInv, SlotsFit, Fits, Apart, TypeOK, Slot
  <2>3. Apart' /\ AllOwned'
    BY <2>1, <1>e DEF OwnersInv, Apart, AllOwned, Live
  <2> QED
    BY <2>2, <2>3 DEF OwnersInv
<1>8. ASSUME NEW s \in Sessions, Build(s)
      PROVE  OwnersInv'
  <2>1. /\ candidate' = s /\ UNCHANGED <<active, cached, resident>> /\ width[s] = 0
        /\ \A t \in Sessions : width'[t] = IF t = s THEN target ELSE width[t]
        /\ candidate = Nil /\ target \in Widths /\ target # 0
    BY <1>8, WidthsAssumption DEF Build, slots, TypeOK, ControlInv
  <2>2. s \notin {active.session, cached.session} /\ \A v \in Widths : resident[v].session # s
    BY <2>1, <1>n DEF OwnersInv, SlotsFit, Fits
  <2>3. SlotsFit'
    BY <2>1, <2>2, <1>n DEF OwnersInv, SlotsFit, Fits, TypeOK, Slot
  <2>4. Apart' /\ AllOwned'
    BY <2>1, <2>2, <1>n DEF OwnersInv, Apart, AllOwned, Live
  <2> QED
    BY <2>3, <2>4 DEF OwnersInv
<1>9. CASE CandidateRejected
  <2>1. /\ candidate' = Nil /\ UNCHANGED <<active, cached, resident>>
        /\ \A t \in Sessions : width'[t] = IF t = candidate THEN 0 ELSE width[t]
    BY <1>9 DEF CandidateRejected, FreeSessions, slots
  <2>2. SlotsFit'
    BY <2>1, <1>n DEF OwnersInv, SlotsFit, Fits, Apart, TypeOK, Slot
  <2>3. Apart' /\ AllOwned'
    BY <2>1, <1>n DEF OwnersInv, Apart, AllOwned, Live
  <2> QED
    BY <2>2, <2>3 DEF OwnersInv
<1>10. CASE Publish
  <2>1. /\ cached' = active /\ UNCHANGED <<resident, width>> /\ candidate' = Nil
        /\ active'.session = candidate /\ active'.width = target /\ active'.plan = Nil
    BY <1>10 DEF Publish, Empty
  <2>2. /\ candidate # Nil /\ width[candidate] = target /\ target \in Widths /\ target # 0
        /\ cached.session = Nil
    BY <1>10, WidthsAssumption DEF Publish, ControlInv
  <2> QED
    BY <2>1, <2>2, <1>n DEF OwnersInv, SlotsFit, Fits, Apart, AllOwned, Live
<1>11. CASE UsePlan \/ PlanFails \/ PlanRunFails
  <2>1. /\ UNCHANGED <<cached, resident, candidate, width>> /\ active.session # Nil
        /\ \/ UNCHANGED active
           \/ active' = [active EXCEPT !.plan = active.session]
           \/ active' = [active EXCEPT !.disabled = TRUE]
           \/ active' = [active EXCEPT !.plan = Nil, !.disabled = TRUE]
    BY <1>11 DEF UsePlan, PlanFails, PlanRunFails, sessions, ControlInv
  <2>2. active \in Slot
    BY DEF TypeOK
  <2>3. active = [active EXCEPT !.plan = active.plan, !.disabled = active.disabled]
    BY <2>2 DEF Slot
  <2>4. [active EXCEPT !.plan = active.session] =
          [active EXCEPT !.plan = active.session, !.disabled = active.disabled]
    BY <2>2 DEF Slot
  <2>5. [active EXCEPT !.disabled = TRUE] =
          [active EXCEPT !.plan = active.plan, !.disabled = TRUE]
    BY <2>2 DEF Slot
  <2>6. active.disabled \in BOOLEAN
    BY <2>2 DEF Slot
  <2> QED
    BY <2>1, <2>3, <2>4, <2>5, <2>6, OwnersPlanned
<1>12. CASE \/ AttachClone \/ SetThreads \/ EnableBegin \/ EnableDone \/ CompiledPreprocess
            \/ CompiledRejects \/ ExecuteCompiled \/ BuildFails \/ Preprocess
            \/ PreprocessFails \/ NoPlan \/ Execute \/ \E w \in Widths : Start(w)
  BY <1>s, <1>12 DEF AttachClone, SetThreads, EnableBegin, EnableDone, CompiledPreprocess,
     CompiledRejects, ExecuteCompiled, BuildFails, Preprocess, PreprocessFails, NoPlan,
     Execute, Start, KeepsOwners, slots, sessions
<1> QED
  BY <1>s, <1>1, <1>2, <1>3, <1>4, <1>5, <1>6, <1>7, <1>8, <1>9, <1>10, <1>11, <1>12
     DEF Next, Enable, Recognize, Configure

-----------------------------------------------------------------------------
(* Control and widths                                                      *)

(* What the steps of the Medium plan do to the active slot. *)
LEMMA Planned ==
  ASSUME TypeOK, ControlInv, UsePlan \/ PlanFails \/ PlanRunFails
  PROVE  /\ active'.session = active.session /\ active'.width = active.width
         /\ active.session \in Sessions
         /\ UNCHANGED <<target, cached, resident, resident_widths_enabled, candidate,
                        x64_slots, pools, width, external, filled>>
<1>1. active \in Slot
  BY DEF TypeOK
<1>2. active.session # Nil
  BY DEF UsePlan, PlanFails, PlanRunFails, ControlInv
<1> QED
  BY <1>1, <1>2 DEF UsePlan, PlanFails, PlanRunFails, sessions, Slot

(* A new handle. *)
LEMMA Opened ==
  ASSUME IInv, Create \/ Clone
  PROVE  /\ pc = "absent" /\ pc' \in {"idle", "clone"}
         /\ \E w \in Widths, d \in BOOLEAN : Open(w, d)
         /\ cached' = Empty /\ candidate' = Nil /\ ~resident_widths_enabled'
         /\ \A w \in Widths : resident'[w] = Empty
         /\ UNCHANGED <<pools, plans, external>>
<1>1. /\ pc = "absent" /\ pc' \in {"idle", "clone"}
      /\ \E w \in Widths, d \in BOOLEAN : Open(w, d)
  BY DEF Create, Clone
<1>2. PICK w \in Widths, d \in BOOLEAN : Open(w, d)
  BY <1>1
<1>3. UNCHANGED <<cached, resident, resident_widths_enabled, candidate, pools, plans, external>>
  BY <1>2 DEF Open
<1> QED
  BY <1>1, <1>3, AtRest

LEMMA ControlStep ==
  ASSUME IInv, [Next]_vars
  PROVE  ControlInv'
<1> USE DEF IInv
<1>e. Empty.session = Nil /\ Empty.width = 0 /\ Empty.plan = Nil
  BY DEF Empty
<1>n. \A s \in Sessions : s # Nil
  BY NilAssumption
<1>s. SUFFICES ASSUME Next PROVE ControlInv'
  BY DEF vars, slots, sessions, pools, ControlInv, Compiled
<1>1. CASE Create \/ Clone
  <2>1. PICK w \in Widths, d \in BOOLEAN : Open(w, d)
    BY <1>1, Opened
  <2>2. PICK s \in Sessions :
          active' = [Empty EXCEPT !.session = s, !.width = w, !.disabled = d]
    BY <2>1 DEF Open
  <2>3. active'.session = s
    BY <2>2 DEF Empty
  <2>4. /\ pc = "absent" /\ pc' \in {"idle", "clone"} /\ candidate' = Nil
        /\ ~resident_widths_enabled'
    BY <1>1, Opened
  <2> QED
    BY <2>3, <2>4, <1>n DEF ControlInv
<1>2. CASE Free
  BY <1>2, <1>e DEF Free, ControlInv
<1>3. CASE AttachClone \/ SetThreads
  BY <1>3 DEF AttachClone, SetThreads, slots, ControlInv
<1>4. CASE EnableBegin
  BY <1>4 DEF EnableBegin, slots, ControlInv
<1>5. ASSUME NEW w \in Widths, NEW s \in Sessions, EnableSlot(w, s)
      PROVE  ControlInv'
  BY <1>5 DEF EnableSlot, ControlInv
<1>6. CASE EnableFails \/ EnableDone
  BY <1>6 DEF EnableFails, EnableDone, ControlInv
<1>7. ASSUME NEW w \in Widths, Start(w)
      PROVE  ControlInv'
  BY <1>7 DEF Start, Canonical, slots, ControlInv, Compiled
<1>8. CASE CompiledPreprocess \/ CompiledRejects
  BY <1>8 DEF CompiledPreprocess, CompiledRejects, Canonical, slots, ControlInv, Compiled
<1>9. CASE ExecuteCompiled \/ BuildFails \/ PreprocessFails \/ Execute
  BY <1>9 DEF ExecuteCompiled, BuildFails, PreprocessFails, Execute, Finish, slots, ControlInv
<1>10. ASSUME NEW w \in Widths, ConfigureResident(w)
       PROVE  ControlInv'
  <2>1. active' = resident[w] /\ resident[w].width = target /\ target # 0
    BY <1>10, WidthsAssumption DEF ConfigureResident, ControlInv
  <2>2. resident[w].session # Nil
    BY <2>1, <1>e DEF OwnersInv, SlotsFit, Fits
  <2> QED
    BY <1>10, <2>1, <2>2 DEF ConfigureResident, ControlInv
<1>11. CASE ActivateCached
  BY <1>11 DEF ActivateCached, ControlInv
<1>12. CASE ReleaseCached
  BY <1>12, <1>e DEF ReleaseCached, ControlInv
<1>13. ASSUME NEW s \in Sessions, Build(s)
       PROVE  ControlInv'
  <2>1. width'[s] = target
    BY <1>13 DEF Build, TypeOK
  <2> QED
    BY <1>13, <2>1, <1>n DEF Build, slots, ControlInv
<1>14. CASE CandidateRejected
  BY <1>14 DEF CandidateRejected, Finish, slots, ControlInv
<1>15. CASE Publish
  <2>1. active'.session = candidate /\ active'.width = target
    BY <1>15 DEF Publish, Empty
  <2> QED
    BY <1>15, <2>1 DEF Publish, ControlInv
<1>16. CASE Preprocess
  BY <1>16 DEF Preprocess, slots, ControlInv
<1>17. CASE NoPlan
  BY <1>17 DEF NoPlan, slots, ControlInv
<1>18. CASE UsePlan \/ PlanFails \/ PlanRunFails
  <2>1. UsePlan => active'.plan = active.session
    <3>1. active \in Slot /\ (UsePlan => active.plan \in {Nil, active.session})
      BY DEF TypeOK, OwnersInv, SlotsFit, Fits, UsePlan, ControlInv
    <3> QED
      BY <3>1 DEF UsePlan, Slot
  <2> QED
    BY <1>18, <2>1, Planned DEF UsePlan, PlanFails, PlanRunFails, ControlInv
<1> QED
  BY <1>s, <1>1, <1>2, <1>3, <1>4, <1>5, <1>6, <1>7, <1>8, <1>9, <1>10, <1>11, <1>12,
     <1>13, <1>14, <1>15, <1>16, <1>17, <1>18 DEF Next, Enable, Recognize, Configure

LEMMA WidthsStep ==
  ASSUME IInv, [Next]_vars
  PROVE  WidthsInv' /\ NoWidthLost'
<1> USE DEF IInv
<1> DEFINE Same == UNCHANGED <<active, cached, resident, resident_widths_enabled>>
<1>e. Empty.session = Nil /\ Empty.width = 0 /\ Empty.plan = Nil
  BY DEF Empty
<1>n. \A s \in Sessions : s # Nil
  BY NilAssumption
<1>0. ASSUME Same, pc' = "enable" <=> pc = "enable"
      PROVE  WidthsInv' /\ NoWidthLost'
  BY <1>0 DEF WidthsInv, NoWidthLost
<1>s. SUFFICES ASSUME Next PROVE WidthsInv' /\ NoWidthLost'
  BY <1>0 DEF vars, slots
<1>1. CASE Create \/ Clone
  <2>1. /\ \A w \in Widths : resident'[w].session = Nil
        /\ cached'.session = Nil /\ ~resident_widths_enabled' /\ pc' # "enable"
    BY <1>1, <1>e, Opened
  <2> QED
    BY <2>1 DEF WidthsInv, NoWidthLost
<1>2. CASE Free
  BY <1>2, <1>e DEF Free, WidthsInv, NoWidthLost
<1>3. CASE EnableBegin
  BY <1>3 DEF EnableBegin, slots, WidthsInv, NoWidthLost
<1>4. ASSUME NEW w \in Widths, NEW s \in Sessions, EnableSlot(w, s)
      PROVE  WidthsInv' /\ NoWidthLost'
  <2>1. /\ \A v \in Widths : resident'[v] =
             IF v = w THEN [Empty EXCEPT !.session = s, !.width = w] ELSE resident[v]
        /\ UNCHANGED <<active, cached, resident_widths_enabled, pc>> /\ pc = "enable"
        /\ w # active.width
    BY <1>4 DEF EnableSlot, Unbuilt, TypeOK
  <2>2. resident'[w].width = w /\ resident'[w].plan = Nil
    BY <2>1 DEF Empty
  <2>3. ~resident_widths_enabled
    BY <2>1 DEF ControlInv
  <2> QED
    BY <2>1, <2>2, <2>3 DEF WidthsInv, NoWidthLost
<1>5. CASE EnableFails
  BY <1>5, <1>e DEF EnableFails, WidthsInv, NoWidthLost, ControlInv
<1>6. CASE EnableDone
  BY <1>6 DEF EnableDone, Unbuilt, WidthsInv, NoWidthLost
<1>7. ASSUME NEW w \in Widths, ConfigureResident(w)
      PROVE  WidthsInv' /\ NoWidthLost'
  <2>1. /\ active' = resident[w] /\ pc' = "preprocess" /\ resident_widths_enabled'
        /\ \A v \in Widths : resident'[v] = IF v = w THEN active ELSE resident[v]
        /\ resident_widths_enabled
    BY <1>7 DEF ConfigureResident, TypeOK
  <2>2. WidthsInv'
    BY <2>1 DEF WidthsInv
  <2>3. ASSUME NEW u \in Widths
        PROVE  u = active'.width \/ \E v \in Widths : resident'[v].width = u
    <3>1. CASE u = active.width
      BY <3>1, <2>1
    <3>2. CASE u # active.width
      <4>1. PICK v \in Widths : resident[v].width = u
        BY <3>2, <2>1 DEF NoWidthLost
      <4> QED
        BY <4>1, <2>1
    <3> QED
      BY <3>1, <3>2
  <2> QED
    BY <2>2, <2>3 DEF NoWidthLost
<1>8. CASE ActivateCached
  BY <1>8 DEF ActivateCached, WidthsInv, NoWidthLost, ControlInv
<1>9. CASE ReleaseCached
  BY <1>9, <1>e DEF ReleaseCached, WidthsInv, NoWidthLost
<1>10. ASSUME NEW s \in Sessions, Build(s)
       PROVE  WidthsInv' /\ NoWidthLost'
  BY <1>10, <1>0 DEF Build, slots
<1>11. CASE Publish
  <2>1. active'.width = target /\ cached' = active
    BY <1>11 DEF Publish, Empty
  <2> QED
    BY <1>11, <2>1 DEF Publish, WidthsInv, NoWidthLost, ControlInv
<1>12. CASE UsePlan \/ PlanFails \/ PlanRunFails
  <2>1. pc' # "enable" /\ pc # "enable"
    BY <1>12 DEF UsePlan, PlanFails, PlanRunFails
  <2> QED
    BY <1>12, <2>1, Planned DEF WidthsInv, NoWidthLost
<1>13. CASE \/ AttachClone \/ SetThreads \/ CompiledPreprocess \/ CompiledRejects
            \/ ExecuteCompiled \/ BuildFails \/ CandidateRejected \/ Preprocess
            \/ PreprocessFails \/ NoPlan \/ Execute \/ \E w \in Widths : Start(w)
  <2>1. Same /\ (pc' = "enable" <=> pc = "enable")
    BY <1>13 DEF AttachClone, SetThreads, CompiledPreprocess, CompiledRejects, Canonical,
       ExecuteCompiled, BuildFails, CandidateRejected, Preprocess, PreprocessFails, NoPlan,
       Execute, Start, Finish, slots
  <2> QED
    BY <2>1, <1>0
<1> QED
  BY <1>s, <1>1, <1>2, <1>3, <1>4, <1>5, <1>6, <1>7, <1>8, <1>9, <1>10, <1>11, <1>12,
     <1>13 DEF Next, Enable, Recognize, Configure

-----------------------------------------------------------------------------
(* Pools                                                                   *)

LEMMA DetachedIsNone ==
  ASSUME NEW n
  PROVE  Borrow(Nil, n) = Detached
  BY DEF Borrow

(* Every session but one under construction is in a slot. *)
LEMMA Attaches ==
  ASSUME IInv, candidate = Nil, NEW p \in Pools \cup {Nil}, NEW n \in 0 .. MaxWorkers,
         Attach(p, n), UNCHANGED <<width, candidate>>
  PROVE  /\ \A s \in Live' \ {candidate'} : external'[s] = Borrow(p, n)
         /\ \A w \in Widths : Compiled(w)' => x64_slots'[w] = Borrow(p, n)
         /\ \A s \in Sessions \ Live' : external'[s] = Detached
<1> USE DEF IInv
<1>1. \A s \in Sessions : external'[s] =
        IF s \in {active.session, cached.session} \/ \E w \in Widths : resident[w].session = s
        THEN Borrow(p, n) ELSE external[s]
  BY DEF Attach
<1>2. \A w \in Widths : x64_slots'[w] = IF Compiled(w) THEN Borrow(p, n) ELSE Nil
  BY DEF Attach
<1>3. ASSUME NEW s \in Sessions
      PROVE  (s \in {active.session, cached.session} \/ \E w \in Widths : resident[w].session = s)
               <=> s \in Live
  <2>1. s # Nil
    BY NilAssumption
  <2> QED
    BY <2>1 DEF OwnersInv, SlotsFit, Fits, AllOwned, Live
<1> QED
  BY <1>1, <1>2, <1>3 DEF Live, Compiled, PoolInv

LEMMA SetWorkersPool ==
  ASSUME IInv, candidate = Nil, UNCHANGED <<width, candidate>>,
         NEW n \in 1 .. MaxWorkers, SetWorkers(n)
  PROVE  PoolInv'
<1> USE DEF IInv
<1>t. /\ intra_pool \in Pools \cup {Nil} /\ intra_workers \in 0 .. MaxWorkers
      /\ capacity \in [Pools -> 0 .. MaxWorkers] /\ n \in 0 .. MaxWorkers
      /\ MaxWorkers \in Nat \ {0} /\ Nil \notin Pools
  BY MaxWorkersAssumption, NilAssumption DEF TypeOK
<1>c. \A p \in Pools : capacity[p] # 0 <=> p = intra_pool
  BY DEF PoolInv, OnePool
<1>p. PoolSize \in 1 .. MaxWorkers
  BY <1>t, <1>c DEF PoolSize
<1>1. CASE UNCHANGED <<pools, external, x64_slots>>
  BY <1>1 DEF pools, PoolInv, OnePool, Live, Compiled, PoolSize
<1>2. CASE /\ n = 1 \/ PoolSize >= n
           /\ intra_workers' = n /\ Attach(intra_pool, n) /\ UNCHANGED <<intra_pool, capacity>>
  <2>1. intra_workers' <= PoolSize'
    BY <1>2, <1>t, <1>p DEF PoolSize
  <2> QED
    BY <1>2, <2>1, <1>t, <1>c, Attaches DEF PoolInv, OnePool
<1>3. CASE /\ intra_workers' = PoolSize /\ Attach(intra_pool, PoolSize)
           /\ UNCHANGED <<intra_pool, capacity>>
  <2>1. intra_workers' <= PoolSize' /\ PoolSize \in 0 .. MaxWorkers
    BY <1>3, <1>t, <1>p DEF PoolSize
  <2> QED
    BY <1>3, <2>1, <1>t, <1>c, Attaches DEF PoolInv, OnePool
<1>4. CASE \E p \in Pools, size \in 2 .. n :
             /\ capacity[p] = 0
             /\ capacity' = [q \in Pools |->
                  IF q = p THEN size ELSE IF q = intra_pool THEN 0 ELSE capacity[q]]
             /\ intra_pool' = p /\ intra_workers' = size /\ Attach(p, size)
  <2>1. PICK p \in Pools, size \in 2 .. n :
             /\ capacity[p] = 0
             /\ capacity' = [q \in Pools |->
                  IF q = p THEN size ELSE IF q = intra_pool THEN 0 ELSE capacity[q]]
             /\ intra_pool' = p /\ intra_workers' = size /\ Attach(p, size)
    BY <1>4
  <2>2. size \in 0 .. MaxWorkers /\ size # 0
    BY <1>t
  <2>3. \A q \in Pools : capacity'[q] # 0 <=> q = intra_pool'
    BY <2>1, <2>2, <1>c
  <2>4. intra_workers' <= PoolSize'
    BY <2>1, <2>2, <1>t DEF PoolSize
  <2> QED
    BY <2>1, <2>2, <2>3, <2>4, Attaches DEF PoolInv, OnePool
<1> QED
  BY <1>1, <1>2, <1>3, <1>4 DEF SetWorkers

LEMMA PoolStep ==
  ASSUME IInv, [Next]_vars
  PROVE  PoolInv'
<1> USE DEF IInv
<1>n. \A s \in Sessions : s # Nil
  BY NilAssumption
<1> DEFINE Same == UNCHANGED <<pools, x64_slots>>
<1>0. ASSUME Same, UNCHANGED <<width, external, candidate>>
      PROVE  PoolInv'
  BY <1>0 DEF pools, PoolInv, OnePool, Live, Compiled, PoolSize
<1>f. ASSUME Same, NEW S, FreeSessions(S), candidate' = Nil, candidate \in S \cup {Nil}
      PROVE  PoolInv'
  <2>1. \A s \in Sessions : /\ width'[s] = IF s \in S THEN 0 ELSE width[s]
                            /\ external'[s] = IF s \in S THEN Detached ELSE external[s]
    BY <1>f DEF FreeSessions
  <2>2. \A s \in Live' : s \in Live /\ s \notin S /\ s # candidate
    BY <2>1, <1>f, <1>n DEF Live
  <2> QED
    BY <1>f, <2>1, <2>2 DEF pools, PoolInv, OnePool, Live, Compiled, PoolSize
<1>s. SUFFICES ASSUME Next PROVE PoolInv'
  BY <1>0 DEF vars, sessions
<1>1. CASE Create \/ Clone
  <2>1. PICK w \in Widths, d \in BOOLEAN : Open(w, d)
    BY <1>1, Opened
  <2>2. PICK s \in Sessions, compiled \in SUBSET Widths :
          /\ width' = [width EXCEPT ![s] = w]
          /\ x64_slots' = [v \in Widths |-> IF v \in compiled THEN Detached ELSE Nil]
    BY <2>1 DEF Open
  <2>3. intra_pool = Nil /\ intra_workers = 0 /\ \A t \in Sessions : t \notin Live
    BY <1>1, Opened, AtRest DEF ControlInv
  <2>4. \A t \in Sessions : external'[t] = Detached
    BY <1>1, Opened, <2>3 DEF PoolInv
  <2>5. \A v \in Widths : x64_slots'[v] # Nil => x64_slots'[v] = Detached
    BY <2>2
  <2>6. UNCHANGED <<intra_pool, intra_workers, capacity>>
    BY <1>1, Opened DEF pools
  <2>7. Borrow(intra_pool', intra_workers') = Detached
    BY <2>3, <2>6, DetachedIsNone
  <2> QED
    BY <2>4, <2>5, <2>6, <2>7 DEF PoolInv, OnePool, Live, Compiled, PoolSize
<1>2. CASE Free
  <2>1. \A t \in Sessions : external'[t] = Detached
    <3> DEFINE owned == {active, cached} \cup {resident[w] : w \in Widths}
    <3>1. ASSUME NEW t \in Sessions
          PROVE  external'[t] = IF t \in {o.session : o \in owned} THEN Detached ELSE external[t]
      BY <1>2 DEF Free, FreeSessions
    <3>2. ASSUME NEW t \in Live
          PROVE  \E o \in owned : o.session = t
      BY <1>2, <1>n DEF Free, ControlInv, OwnersInv, AllOwned, Live
    <3> QED
      BY <3>1, <3>2 DEF PoolInv, Live
  <2>2. /\ intra_pool' = Nil /\ intra_workers' = 0 /\ \A w \in Widths : x64_slots'[w] = Nil
        /\ \A p \in Pools : capacity'[p] = IF p = intra_pool THEN 0 ELSE capacity[p]
    BY <1>2 DEF Free
  <2>3. \A p \in Pools : capacity'[p] = 0 /\ p # Nil
    BY <2>2, NilAssumption DEF PoolInv, OnePool
  <2> QED
    BY <2>1, <2>2, <2>3, DetachedIsNone DEF PoolInv, OnePool, Live, Compiled, PoolSize
<1>3. CASE AttachClone \/ SetThreads
  <2>1. candidate = Nil /\ UNCHANGED <<width, candidate>>
    BY <1>3 DEF AttachClone, SetThreads, ControlInv
  <2> QED
    BY <1>3, <2>1, SetWorkersPool DEF AttachClone, SetThreads
<1>4. ASSUME NEW w \in Widths, NEW s \in Sessions, EnableSlot(w, s)
      PROVE  PoolInv'
  <2>1. /\ \A t \in Sessions : /\ width'[t] = IF t = s THEN w ELSE width[t]
                               /\ external'[t] = IF t = s THEN Borrow(intra_pool, intra_workers)
                                                 ELSE external[t]
        /\ Same /\ UNCHANGED candidate /\ w # 0
    BY <1>4, WidthsAssumption DEF EnableSlot, TypeOK
  <2> QED
    BY <2>1 DEF pools, PoolInv, OnePool, Live, Compiled, PoolSize
<1>5. CASE EnableFails
  BY <1>5, <1>f DEF EnableFails, ControlInv
<1>6. CASE ReleaseCached
  BY <1>6, <1>f DEF ReleaseCached, ControlInv
<1>7. ASSUME NEW s \in Sessions, Build(s)
      PROVE  PoolInv'
  <2>1. /\ \A t \in Sessions : width'[t] = IF t = s THEN target ELSE width[t]
        /\ candidate' = s /\ candidate = Nil /\ Same /\ UNCHANGED external
        /\ target # 0
    BY <1>7, WidthsAssumption DEF Build, TypeOK, ControlInv
  <2> QED
    BY <2>1, <1>n DEF pools, PoolInv, OnePool, Live, Compiled, PoolSize
<1>8. CASE CandidateRejected
  BY <1>8, <1>f DEF CandidateRejected, slots
<1>9. CASE Publish
  <2>1. /\ \A t \in Sessions : external'[t] =
             IF t = candidate THEN Borrow(intra_pool, intra_workers) ELSE external[t]
        /\ candidate' = Nil /\ Same /\ UNCHANGED width
        /\ width[candidate] # 0
    BY <1>9, WidthsAssumption DEF Publish, TypeOK, ControlInv
  <2> QED
    BY <2>1, <1>n DEF pools, PoolInv, OnePool, Live, Compiled, PoolSize
<1>10. CASE UsePlan \/ PlanFails \/ PlanRunFails
  BY <1>10, <1>0, Planned
<1>11. CASE \/ EnableBegin \/ EnableDone \/ CompiledPreprocess \/ CompiledRejects
            \/ ExecuteCompiled \/ ActivateCached \/ BuildFails \/ Preprocess
            \/ PreprocessFails \/ NoPlan \/ Execute \/ \E w \in Widths : Start(w)
            \/ \E w \in Widths : ConfigureResident(w)
  <2>1. Same /\ UNCHANGED <<width, external, candidate>>
    BY <1>11 DEF EnableBegin, EnableDone, CompiledPreprocess, CompiledRejects,
       ExecuteCompiled, ActivateCached, BuildFails, Preprocess, PreprocessFails, NoPlan,
       Execute, Start, ConfigureResident, sessions
  <2> QED
    BY <2>1, <1>0
<1> QED
  BY <1>s, <1>1, <1>2, <1>3, <1>4, <1>5, <1>6, <1>7, <1>8, <1>9, <1>10, <1>11
     DEF Next, Enable, Recognize, Configure

-----------------------------------------------------------------------------
(* Plans                                                                   *)

LEMMA PlansStep ==
  ASSUME IInv, [Next]_vars
  PROVE  PlansInv'
<1> USE DEF IInv
<1>e. Empty.session = Nil /\ Empty.width = 0 /\ Empty.plan = Nil
  BY DEF Empty
<1>n. \A s \in Sessions : s # Nil
  BY NilAssumption
<1>p. \A s \in Sessions : s \in plans <=>
        \/ s \in {active.plan, cached.plan} \/ \E w \in Widths : resident[w].plan = s
  BY DEF PlansInv
<1>u. /\ active.plan # Nil => active.plan = active.session
      /\ cached.plan # Nil => cached.plan = cached.session
      /\ \A w \in Widths : resident[w].plan # Nil => resident[w].plan = resident[w].session
  BY <1>e DEF OwnersInv, SlotsFit, Fits
<1>g. SUFFICES ASSUME NEW x \in Sessions
               PROVE  x \in plans' <=>
                        \/ x \in {active'.plan, cached'.plan}
                        \/ \E w \in Widths : resident'[w].plan = x
  BY DEF PlansInv
<1> DEFINE G == x \in plans' <=>
                  \/ x \in {active'.plan, cached'.plan}
                  \/ \E w \in Widths : resident'[w].plan = x
<1> DEFINE Same == UNCHANGED <<active, cached, resident, plans>>
<1>0. ASSUME Same PROVE G
  BY <1>0, <1>p
<1>s. SUFFICES ASSUME Next PROVE G
  BY <1>0 DEF vars, slots, sessions
<1>1. CASE Create \/ Clone
  <2>1. PICK w \in Widths, d \in BOOLEAN : Open(w, d)
    BY <1>1, Opened
  <2>2. PICK t \in Sessions :
          active' = [Empty EXCEPT !.session = t, !.width = w, !.disabled = d]
    BY <2>1 DEF Open
  <2>3. active'.plan = Nil
    BY <2>2 DEF Empty
  <2>4. plans' = {}
    BY <1>1, Opened, AtRest
  <2> QED
    BY <1>1, <1>e, <1>n, <2>3, <2>4, Opened
<1>2. CASE Free
  <2>1. /\ active' = Empty /\ cached' = Empty /\ \A w \in Widths : resident'[w] = Empty
        /\ plans' = {t \in plans :
             \A o \in {active, cached} \cup {resident[w] : w \in Widths} : o.plan # t}
    BY <1>2 DEF Free
  <2> QED
    BY <2>1, <1>e, <1>n, <1>p
<1>3. ASSUME NEW w \in Widths, NEW t \in Sessions, EnableSlot(w, t)
      PROVE  G
  <2>1. /\ \A v \in Widths : resident'[v] =
             IF v = w THEN [Empty EXCEPT !.session = t, !.width = w] ELSE resident[v]
        /\ UNCHANGED <<active, cached, plans>> /\ resident[w].session = Nil
    BY <1>3 DEF EnableSlot, Unbuilt, TypeOK
  <2>2. resident'[w].plan = Nil
    BY <2>1 DEF Empty
  <2>3. resident[w].plan = Nil
    BY <2>1, <1>u
  <2> QED
    BY <2>1, <2>2, <2>3, <1>n, <1>p
<1>4. CASE EnableFails
  <2>1. \A w \in Widths : resident[w].plan = Nil
    BY <1>4, <1>u DEF EnableFails, WidthsInv
  <2> QED
    BY <1>4, <2>1, <1>e, <1>n, <1>p DEF EnableFails
<1>5. ASSUME NEW w \in Widths, ConfigureResident(w)
      PROVE  G
  <2>1. /\ active' = resident[w] /\ UNCHANGED <<cached, plans>>
        /\ \A v \in Widths : resident'[v] = IF v = w THEN active ELSE resident[v]
    BY <1>5 DEF ConfigureResident, TypeOK, sessions
  <2> QED
    BY <2>1, <1>p
<1>6. CASE ActivateCached
  BY <1>6, <1>p DEF ActivateCached, sessions
<1>7. CASE ReleaseCached
  <2>1. /\ cached' = Empty /\ UNCHANGED <<active, resident>> /\ plans' = plans \ {cached.plan}
    BY <1>7 DEF ReleaseCached
  <2>2. cached.plan # Nil =>
          cached.plan # active.plan /\ \A w \in Widths : resident[w].plan # cached.plan
    BY <1>u DEF OwnersInv, Apart
  <2> QED
    BY <2>1, <2>2, <1>e, <1>n, <1>p
<1>8. CASE Publish
  <2>1. /\ active'.plan = Nil /\ cached' = active /\ UNCHANGED <<resident, plans>>
        /\ cached.session = Nil
    BY <1>8 DEF Publish, Empty, ControlInv
  <2> QED
    BY <2>1, <1>u, <1>n, <1>p
<1>9. CASE UsePlan
  <2>1. active \in Slot /\ active.session \in Sessions /\ UNCHANGED <<cached, resident>>
    BY <1>9, Planned DEF TypeOK
  <2>2. \/ active.plan # Nil /\ UNCHANGED <<active, plans>>
        \/ /\ active.plan = Nil /\ active'.plan = active.session
           /\ plans' = plans \cup {active.session}
    BY <1>9, <2>1 DEF UsePlan, Slot
  <2> QED
    BY <2>1, <2>2, <1>n, <1>p
<1>10. CASE PlanFails
  <2>1. active'.plan = active.plan /\ UNCHANGED <<cached, resident, plans>>
    BY <1>10 DEF PlanFails, sessions, TypeOK, Slot
  <2> QED
    BY <2>1, <1>p
<1>11. CASE PlanRunFails
  <2>1. /\ active'.plan = Nil /\ UNCHANGED <<cached, resident>> /\ plans' = plans \ {active.plan}
    BY <1>11 DEF PlanRunFails, TypeOK, Slot
  <2>2. active.plan # Nil =>
          cached.plan # active.plan /\ \A w \in Widths : resident[w].plan # active.plan
    BY <1>u DEF OwnersInv, Apart
  <2> QED
    BY <2>1, <2>2, <1>n, <1>p
<1>12. CASE \/ AttachClone \/ SetThreads \/ EnableBegin \/ EnableDone \/ CompiledPreprocess
            \/ CompiledRejects \/ ExecuteCompiled \/ BuildFails \/ CandidateRejected
            \/ Preprocess \/ PreprocessFails \/ NoPlan \/ Execute
            \/ \E w \in Widths : Start(w)
            \/ \E t \in Sessions : Build(t)
  <2>1. Same
    BY <1>12 DEF AttachClone, SetThreads, EnableBegin, EnableDone, CompiledPreprocess,
       CompiledRejects, ExecuteCompiled, BuildFails, CandidateRejected, Preprocess,
       PreprocessFails, NoPlan, Execute, Start, Build, slots, sessions
  <2> QED
    BY <2>1, <1>0
<1> QED
  BY <1>s, <1>1, <1>2, <1>3, <1>4, <1>5, <1>6, <1>7, <1>8, <1>9, <1>10, <1>11, <1>12
     DEF Next, Enable, Recognize, Configure

-----------------------------------------------------------------------------
(* The invariant and what it implies                                       *)

LEMMA Initially ==
  ASSUME Init
  PROVE  IInv
<1>e. Empty.session = Nil /\ Empty.width = 0 /\ Empty.plan = Nil
  BY DEF Empty
<1>n. \A s \in Sessions : s # Nil
  BY NilAssumption
<1>1. TypeOK
  <2>1. 0 \in 0 .. MaxWorkers
    BY MaxWorkersAssumption
  <2>2. /\ active \in Slot /\ cached \in Slot /\ resident \in [Widths -> Slot]
        /\ external \in [Sessions -> Attachment]
    BY Slots DEF Init
  <2> QED
    BY <2>1, <2>2 DEF Init, TypeOK
<1>2. ControlInv /\ WidthsInv /\ NoWidthLost
  BY <1>e DEF Init, ControlInv, WidthsInv, NoWidthLost
<1>3. OwnersInv
  BY <1>e, <1>n DEF Init, OwnersInv, SlotsFit, Fits, Apart, AllOwned, Live
<1>4. PoolInv
  BY NilAssumption, DetachedIsNone DEF Init, PoolInv, OnePool, Live, Compiled, PoolSize
<1>5. PlansInv
  BY <1>e, <1>n DEF Init, PlansInv
<1> QED
  BY <1>1, <1>2, <1>3, <1>4, <1>5 DEF IInv

LEMMA Inductive ==
  ASSUME IInv, [Next]_vars
  PROVE  IInv'
  BY TypeStep, ControlStep, OwnersStep, WidthsStep, PoolStep, PlansStep DEF IInv

(* All of it holds in every state of a handle. *)
THEOREM Invariant == Spec => []IInv
<1>1. Init => IInv
  BY Initially
<1>2. IInv /\ [Next]_vars => IInv'
  BY Inductive
<1> QED
  BY <1>1, <1>2, PTL DEF Spec

(* The invariant speaks of the owners by name, the property by place. *)
LEMMA OneOwnerHolds ==
  ASSUME IInv
  PROVE  OneOwner
<1> DEFINE A == <<"active", 0>>
           C == <<"cached", 0>>
           N == <<"candidate", 0>>
           R(w) == <<"resident", w>>
<1>1. \A p \in Places : p = A \/ p = C \/ p = N \/ \E w \in Widths : p = R(w)
  BY DEF Places
<1>2. A \in Places /\ C \in Places /\ N \in Places /\ \A w \in Widths : R(w) \in Places
  BY DEF Places
<1>3. /\ Contents(A).session = active.session /\ Contents(C).session = cached.session
      /\ Contents(N).session = candidate
      /\ \A w \in Widths : Contents(R(w)).session = resident[w].session
  BY DEF Contents, Empty
<1> HIDE DEF A, C, N, R
<1>4. ASSUME NEW p \in Places, Contents(p).session # Nil
      PROVE  Contents(p).session \in Live
  BY <1>1, <1>3, <1>4, WidthsAssumption
     DEF IInv, OwnersInv, SlotsFit, Fits, ControlInv, TypeOK, Slot, Live
<1>5. ASSUME NEW p \in Places, NEW q \in Places, Contents(p).session # Nil,
             Contents(p).session = Contents(q).session
      PROVE  p = q
  BY <1>1, <1>3, <1>5 DEF IInv, OwnersInv, Apart
<1>6. ASSUME NEW s \in Live
      PROVE  \E p \in Places : Contents(p).session = s
  BY <1>2, <1>3 DEF IInv, OwnersInv, AllOwned
<1>7. ASSUME NEW s \in Live
      PROVE  \E p \in Places : /\ Contents(p).session = s
                               /\ \A q \in Places \ {p} : Contents(q).session # s
  <2>1. PICK p \in Places : Contents(p).session = s
    BY <1>6
  <2>2. s # Nil
    BY NilAssumption DEF Live
  <2> QED
    BY <2>1, <2>2, <1>5
<1> QED
  BY <1>4, <1>7 DEF OneOwner

LEMMA AtMostTwoHolds ==
  ASSUME IInv
  PROVE  AtMostTwoWidths
<1> SUFFICES ASSUME ~resident_widths_enabled, pc # "enable"
             PROVE  /\ Cardinality(Live) <= 2
                    /\ \A s, t \in Live : width[s] = width[t] => s = t
  BY DEF AtMostTwoWidths
<1>n. \A s \in Sessions : s # Nil
  BY NilAssumption
<1> DEFINE other == IF candidate # Nil THEN candidate ELSE cached.session
<1>1. \A s \in Live : s \in {active.session, other}
  BY <1>n DEF IInv, OwnersInv, AllOwned, WidthsInv, ControlInv, Live
<1>2. Cardinality(Live) <= 2
  <2>1. Live \subseteq {active.session, other}
    BY <1>1
  <2>2. /\ IsFiniteSet({active.session, other})
        /\ Cardinality({active.session, other}) <= 2
    <3> HIDE DEF other
    <3>1. IsFiniteSet({other}) /\ Cardinality({other}) = 1
      BY FS_Singleton
    <3>2. {active.session, other} = {other} \cup {active.session}
      OBVIOUS
    <3> QED
      BY <3>1, <3>2, FS_AddElement
  <2>3. /\ IsFiniteSet(Live) /\ Cardinality(Live) <= Cardinality({active.session, other})
    BY <2>1, <2>2, FS_Subset
  <2>4. Cardinality(Live) \in Nat /\ Cardinality({active.session, other}) \in Nat
    BY <2>2, <2>3, FS_CardinalityType
  <2> QED
    BY <2>2, <2>3, <2>4
<1>3. active.session \in Live /\ other \in Live => width[active.session] # width[other]
  BY <1>n DEF IInv, OwnersInv, SlotsFit, Fits, WidthsInv, ControlInv, Live
<1> HIDE DEF other
<1> QED
  BY <1>1, <1>2, <1>3

LEMMA ExecutesHolds ==
  ASSUME IInv
  PROVE  ExecutesItsLine
<1>1. pc \in {"execute", "execute_plan"} => width[active.session] = target
  BY DEF IInv, ControlInv, OwnersInv, SlotsFit, Fits
<1>2. pc = "execute_plan" => active.plan = active.session
  BY DEF IInv, ControlInv
<1> QED
  BY <1>1, <1>2 DEF IInv, ControlInv, ExecutesItsLine

(* A session is freed once and not before its last use: exactly one place  *)
(* owns each live session and none names one that is freed.                *)
THEOREM OneOwnerAlways == Spec => []OneOwner
  BY Invariant, OneOwnerHolds, PTL

(* Without resident widths there are at most two sessions, of two widths.  *)
THEOREM AtMostTwoWidthsAlways == Spec => []AtMostTwoWidths
  BY Invariant, AtMostTwoHolds, PTL

(* The line is read from the buffer it was written to, by the graph of its *)
(* width.                                                                  *)
THEOREM ExecutesItsLineAlways == Spec => []ExecutesItsLine
  BY Invariant, ExecutesHolds, PTL

(* Every session and instance fans out over the handle's one pool.         *)
THEOREM OnePoolAlways == Spec => []OnePool
<1>1. IInv => OnePool
  BY DEF IInv, PoolInv
<1> QED
  BY <1>1, Invariant, PTL

(* With resident widths the slot of a width is always found, so that the   *)
(* error of configure_session for a width that is not resident is dead.    *)
THEOREM NoWidthLostAlways == Spec => []NoWidthLost
<1>1. IInv => NoWidthLost
  BY DEF IInv
<1> QED
  BY <1>1, Invariant, PTL

(* A fast plan is freed with its session or before it: the live plans are  *)
(* those of the slots, each on its slot's own live session.                *)
THEOREM PlansFollowSessions == Spec => [](PlansInv /\ SlotsFit)
<1>1. IInv => PlansInv /\ SlotsFit
  BY DEF IInv, OwnersInv
<1> QED
  BY <1>1, Invariant, PTL

(* A call that ends before a switch is complete leaves the active slot as  *)
(* it was.                                                                 *)
THEOREM FailedSwitchKeepsActiveAlways == Spec => FailedSwitchKeepsActive
<1> DEFINE A == (pc \in {"configure", "build", "publish"} /\ pc' = "idle") =>
                  (active' = active /\ active.session \in Live')
<1>1. ASSUME IInv, IInv', [Next]_vars
      PROVE  [A]_vars
  <2>1. SUFFICES ASSUME Next, pc \in {"configure", "build", "publish"}, pc' = "idle"
                 PROVE  active' = active /\ active.session \in Live'
    BY <1>1
  <2>2. BuildFails \/ CandidateRejected
    BY <2>1 DEF Next, Enable, Recognize, Configure, Create, Clone, AttachClone, Free,
       SetThreads, EnableBegin, EnableSlot, EnableFails, EnableDone, Start, Canonical,
       CompiledPreprocess, CompiledRejects, ExecuteCompiled, ConfigureResident,
       ActivateCached, ReleaseCached, Build, Publish, Preprocess, PreprocessFails, NoPlan,
       UsePlan, PlanFails, PlanRunFails, Execute, Finish
  <2>3. active' = active
    BY <2>2 DEF BuildFails, CandidateRejected, slots
  <2>4. active.session # Nil
    BY <1>1, <2>1 DEF IInv, ControlInv
  <2>5. width'[active.session] # 0 /\ active.session \in Sessions
    BY <1>1, <2>3, <2>4 DEF IInv, OwnersInv, SlotsFit, Fits, TypeOK, Slot
  <2> QED
    BY <2>3, <2>5 DEF Live
<1>2. Spec => [][A]_vars
  <2>1. IInv /\ IInv' /\ [Next]_vars => [A]_vars
    BY <1>1
  <2> QED
    BY <2>1, Invariant, PTL DEF Spec
<1> QED
  BY <1>2 DEF FailedSwitchKeepsActive
=============================================================================
