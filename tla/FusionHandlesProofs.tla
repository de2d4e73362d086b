-------------------------- MODULE FusionHandlesProofs --------------------------
(***************************************************************************)
(* Fusion slots are not shared and registrations are not lost, for any     *)
(* number of masters, slots, fusions and UARTs, other than by the memset   *)
(* of get_next_fusion_instance, which clears first slots: with one master  *)
(* it can only hit the slot it is about to hand out, with more it hits     *)
(* whoever has it.  The mapping of process data has one place for all      *)
(* fusions: a UART reads its own data if the UART modules are all of one.  *)
(***************************************************************************)
EXTENDS FusionHandles, WellFoundedInduction, TLAPS

(* A master that is down has no opened fusions. *)
OpenedOfUp == \A s \in opened : MasterOf[s] \in up

(* An open UART is of a fusion of a master that is up; what is registered  *)
(* or bound is open.                                                       *)
UartsInv ==
  /\ \A u \in Uarts : uart[u].alloc => uart[u].owner \in Fusions /\ MasterOf[uart[u].owner] \in up
  /\ \A u \in bound \cup registered : uart[u].alloc

TablesInv == TypeOK /\ OpenedOfUp /\ UartsInv /\ SlotPerSlave /\ RegistrationKept

(* The types of the tables' entries. *)
SlotType == [alloc : BOOLEAN, events : SUBSET Uarts]
UartType == [alloc : BOOLEAN, owner : Fusions \cup {None}, module : Nat, at : Uarts]
Tables == [Masters -> [Slots -> SlotType]]

LEMMA FreeEntries ==
  FreeSlot \in SlotType /\ Closed \in UartType /\ ~Closed.alloc
  <1>1. 0 \in Uarts
    BY SizesAssumption DEF Uarts
  <1>2. FreeSlot \in SlotType /\ Closed \in UartType
    BY <1>1 DEF FreeSlot, SlotType, Closed, UartType
  <1>3. ~Closed.alloc
    BY Zenon DEF Closed
  <1> QED
    BY <1>2, <1>3

(* A slot given back, a slot taken, and a slot with other events *)
Released(r) == [r EXCEPT !.alloc = FALSE]
Taken(r) == [r EXCEPT !.alloc = TRUE]
WithEvents(r, e) == [r EXCEPT !.events = e]

LEMMA EntryTypes ==
  ASSUME NEW r \in SlotType, NEW e \in SUBSET Uarts
  PROVE  /\ Released(r) \in SlotType
         /\ Taken(r) \in SlotType /\ Taken(r).alloc /\ Taken(r).events = r.events
         /\ WithEvents(r, e) \in SlotType /\ WithEvents(r, e).alloc = r.alloc
         /\ WithEvents(r, e).events = e
  BY DEF SlotType, Released, Taken, WithEvents

(* A table with one entry changed *)
Put(F, m, k, r) == [F EXCEPT ![m][k] = r]

LEMMA PutEntry ==
  ASSUME NEW F \in Tables, NEW m \in Masters, NEW k \in Slots, NEW r \in SlotType
  PROVE  /\ Put(F, m, k, r) \in Tables
         /\ Put(F, m, k, r)[m][k] = r
         /\ \A n \in Masters, j \in Slots :
              <<n, j>> # <<m, k>> => Put(F, m, k, r)[n][j] = F[n][j]
  BY DEF Tables, Put

(* A set of numbers that is not empty has a least one. *)
LEMMA LeastOf ==
  ASSUME NEW T \in SUBSET Nat, T # {}
  PROVE  \E i \in T : \A j \in T : i <= j
  <1>1. PICK i \in T : \A j \in T : <<j, i>> \notin OpToRel(<, Nat)
    BY NatLessThanWellFounded, WFMin
  <1>2. \A j \in T : ~(j < i)
    BY <1>1 DEF OpToRel
  <1> QED
    BY <1>2

(* A UART's data is looked for on one of the channels. *)
LEMMA ChannelOfTable == ASSUME NEW n PROVE Channel(n) \in Uarts
  <1> DEFINE found == {i \in Uarts : mapping[i].module = n}
  <1>1. CASE found = {}
    BY <1>1, SizesAssumption DEF Channel, Uarts
  <1>2. CASE found # {}
    <2>1. found \in SUBSET Nat
      BY SizesAssumption DEF Uarts
    <2>2. \E i \in found : \A j \in found : i <= j
      BY <1>2, <2>1, LeastOf
    <2>3. Channel(n) \in found
      BY <1>2, <2>2 DEF Channel
    <2> QED
      BY <2>3
  <1> QED
    BY <1>1, <1>2

(* Tables in which nothing is open. *)
LEMMA EmptyTables ==
  ASSUME up = {}, slot = FreeSlots, handle = NoHandles, count = NoFusions, uart = NoUarts,
         mapping = NoMapping, alive \in BOOLEAN, opened = {}, bound = {}, registered = {}
  PROVE  TablesInv
  <1>1. slot \in Tables /\ uart \in [Uarts -> UartType] /\ \A u \in Uarts : ~uart[u].alloc
    BY FreeEntries DEF FreeSlots, NoUarts, Tables
  <1>2. mapping \in [Uarts -> [owner : Fusions \cup {None}, module : Nat]]
    BY DEF NoMapping, Unmapped
  <1>3. handle \in [Fusions -> 0 .. MaxFusions] /\ count \in [Masters -> 0 .. MaxOpens]
    BY SizesAssumption, MaxOpensAssumption DEF NoHandles, NoFusions
  <1>4. TypeOK
    BY <1>1, <1>2, <1>3 DEF TypeOK, Tables, SlotType, UartType
  <1> QED
    BY <1>1, <1>4 DEF TablesInv, OpenedOfUp, UartsInv, SlotPerSlave, RegistrationKept

LEMMA InitTables == Init => TablesInv
  BY EmptyTables DEF Init

(* A crash leaves nothing open. *)
LEMMA CrashKeepsTables == ASSUME Dies PROVE TablesInv'
  <1>1. slot' \in Tables /\ uart' \in [Uarts -> UartType] /\ \A u \in Uarts : ~uart'[u].alloc
    BY FreeEntries DEF Dies, FreeSlots, NoUarts, Tables
  <1>2. mapping' \in [Uarts -> [owner : Fusions \cup {None}, module : Nat]]
    BY DEF Dies, NoMapping, Unmapped
  <1>3. handle' \in [Fusions -> 0 .. MaxFusions] /\ count' \in [Masters -> 0 .. MaxOpens]
    BY SizesAssumption, MaxOpensAssumption DEF Dies, NoHandles, NoFusions
  <1>4. TypeOK'
    BY <1>1, <1>2, <1>3 DEF Dies, TypeOK, Tables, SlotType, UartType
  <1> QED
    BY <1>1, <1>4 DEF Dies, TablesInv, OpenedOfUp, UartsInv, SlotPerSlave, RegistrationKept

(* A master that comes up has no opened fusions and no UARTs. *)
LEMMA InitKeepsTables ==
  ASSUME TablesInv, NEW m \in Masters, InitMaster(m) PROVE TablesInv'
  <1> USE DEF TablesInv
  <1>1. /\ UNCHANGED <<slot, uart, mapping, alive, opened, bound, registered>>
        /\ m \notin up /\ up' = up \cup {m}
        /\ handle' = [s \in Fusions |-> IF MasterOf[s] = m THEN 0 ELSE handle[s]]
        /\ count' = [count EXCEPT ![m] = 0]
    BY DEF InitMaster, history
  <1>2. TypeOK'
    <2>1. handle' \in [Fusions -> 0 .. MaxFusions] /\ count' \in [Masters -> 0 .. MaxOpens]
      BY <1>1, SizesAssumption, MaxOpensAssumption DEF TypeOK
    <2> QED
      BY <1>1, <2>1 DEF TypeOK
  <1>3. \A s \in opened : handle'[s] = handle[s]
    BY <1>1 DEF OpenedOfUp, TypeOK
  <1>4. \A u \in registered : handle'[uart[u].owner] = handle[uart[u].owner]
    BY <1>1 DEF UartsInv, TypeOK
  <1>5. OpenedOfUp' /\ UartsInv'
    BY <1>1 DEF OpenedOfUp, UartsInv
  <1>6. SlotPerSlave'
    BY <1>1, <1>3 DEF SlotPerSlave
  <1>7. RegistrationKept'
    BY <1>1, <1>4 DEF RegistrationKept
  <1> QED
    BY <1>2, <1>5, <1>6, <1>7

(* A master that goes down takes the UARTs with it, and its own slots.     *)
LEMMA DeinitKeepsTables ==
  ASSUME TablesInv, NEW m \in Masters, DeinitMaster(m) PROVE TablesInv'
  <1> USE DEF TablesInv
  <1>1. /\ UNCHANGED <<handle, count, mapping, alive>>
        /\ up' = up \ {m} /\ uart' = NoUarts /\ bound' = {} /\ registered' = {}
        /\ opened' = {s \in opened : MasterOf[s] # m}
        /\ slot' = [slot EXCEPT ![m] = [k \in Slots |-> Released(slot[m][k])]]
    BY DEF DeinitMaster, CloseAll, Released
  <1>2. slot \in Tables
    BY DEF TypeOK, Tables, SlotType
  <1>3. slot' \in Tables /\ \A n \in Masters : n # m => slot'[n] = slot[n]
    <2>1. \A k \in Slots : slot[m][k] \in SlotType
      BY <1>2 DEF Tables
    <2>2. \A k \in Slots : Released(slot[m][k]) \in SlotType
      BY <2>1, EntryTypes
    <2> QED
      BY <1>1, <1>2, <2>2 DEF Tables
  <1>4. uart' \in [Uarts -> UartType] /\ \A u \in Uarts : ~uart'[u].alloc
    BY <1>1, FreeEntries DEF NoUarts
  <1>5. TypeOK'
    BY <1>1, <1>3, <1>4 DEF TypeOK, Tables, SlotType, UartType
  <1>6. OpenedOfUp' /\ UartsInv' /\ RegistrationKept'
    BY <1>1, <1>4 DEF OpenedOfUp, UartsInv, RegistrationKept
  <1>7. SlotPerSlave'
    BY <1>1, <1>3, FusionsAssumption DEF SlotPerSlave, TypeOK
  <1> QED
    BY <1>5, <1>6, <1>7

(* Taking a slot: it is in use then, and sheltered slots that were in use, *)
(* and the events of all but first slots, are left alone.                  *)
LEMMA TakenSlot ==
  ASSUME TypeOK, NEW m \in Masters, NEW k \in Slots, TakeSlot(m, k)
  PROVE  /\ slot' \in Tables
         /\ slot'[m][k].alloc
         /\ \A n \in Masters, j \in Slots :
              Sheltered(j) /\ slot[n][j].alloc =>
                /\ slot'[n][j].alloc /\ slot'[n][j].events = slot[n][j].events
                /\ <<n, j>> # <<m, k>>
         /\ \A n \in Masters, j \in Slots : j # 0 => slot'[n][j].events = slot[n][j].events
  <1> DEFINE C == Cleared(m, k)
  <1>1. slot \in Tables /\ 0 \in Slots /\ ~slot[m][k].alloc /\ slot' = [C EXCEPT ![m][k].alloc = TRUE]
    BY SizesAssumption DEF TypeOK, Tables, SlotType, TakeSlot, NextSlot, Slots
  <1>2. /\ C \in Tables
        /\ \A n \in Masters, j \in Slots : j # 0 \/ n # k => C[n][j] = slot[n][j]
    <2>1. CASE k \notin Masters
      BY <1>1, <2>1 DEF Cleared
    <2>2. CASE k \in Masters
      <3>1. C = Put(slot, k, 0, FreeSlot)
        BY <2>2 DEF Cleared, Put
      <3>2. \A n \in Masters, j \in Slots : <<n, j>> # <<k, 0>> => C[n][j] = slot[n][j]
        BY <1>1, <2>2, <3>1, FreeEntries, PutEntry
      <3> QED
        BY <1>1, <2>2, <3>1, <3>2, FreeEntries, PutEntry
    <2> QED
      BY <2>1, <2>2
  <1> HIDE DEF C
  <1>3. /\ C[m][k] \in SlotType
        /\ Taken(C[m][k]) \in SlotType /\ Taken(C[m][k]).alloc
        /\ Taken(C[m][k]).events = C[m][k].events
    <2>1. C[m][k] \in SlotType
      BY <1>2 DEF Tables
    <2> QED
      BY <2>1, EntryTypes
  <1>4. slot' = Put(C, m, k, Taken(C[m][k]))
    BY <1>1, <1>2 DEF Tables, Put, Taken
  <1>5. /\ slot' \in Tables
        /\ slot'[m][k] = Taken(C[m][k])
        /\ \A n \in Masters, j \in Slots : <<n, j>> # <<m, k>> => slot'[n][j] = C[n][j]
    BY <1>2, <1>3, <1>4, PutEntry
  <1>6. ASSUME NEW n \in Masters, NEW j \in Slots, Sheltered(j), slot[n][j].alloc
        PROVE  <<n, j>> # <<m, k>> /\ (j # 0 \/ n # k)
    <2>1. <<n, j>> # <<m, k>>
      BY <1>1, <1>6
    <2>2. CASE j # 0
      BY <2>1, <2>2
    <2>3. CASE j = 0
      BY <1>6, <2>1, <2>3 DEF Sheltered
    <2> QED
      BY <2>2, <2>3
  <1>7. \A n \in Masters, j \in Slots : j # 0 => slot'[n][j].events = slot[n][j].events
    <2> SUFFICES ASSUME NEW n \in Masters, NEW j \in Slots, j # 0
                 PROVE  slot'[n][j].events = slot[n][j].events
      OBVIOUS
    <2>1. C[n][j] = slot[n][j]
      BY <1>2
    <2>2. CASE n = m /\ j = k
      BY <1>3, <1>5, <2>1, <2>2
    <2>3. CASE ~(n = m /\ j = k)
      BY <1>5, <2>1, <2>3
    <2> QED
      BY <2>2, <2>3
  <1> QED
    BY <1>2, <1>3, <1>5, <1>6, <1>7

(* Then the opened fusions have their slots and registrations still. *)
LEMMA TakingSparesOthers ==
  ASSUME TablesInv, NEW m \in Masters, NEW k \in Slots, TakeSlot(m, k)
  PROVE  /\ \A s \in opened : Sheltered(handle[s]) => slot'[MasterOf[s]][handle[s]].alloc
         /\ \A s \in opened : MasterOf[s] = m /\ Sheltered(handle[s]) => handle[s] # k
         /\ \A u \in registered :
              LET s == uart[u].owner
              IN  u < IntBits /\ handle[s] \in Slots /\ Sheltered(handle[s])
                    /\ (handle[s] # 0 \/ s \in opened)
                    => u \in slot'[MasterOf[s]][handle[s]].events
  <1> USE DEF TablesInv
  <1>1. \A s \in opened :
          /\ MasterOf[s] \in Masters /\ handle[s] \in Slots
          /\ Sheltered(handle[s]) => slot[MasterOf[s]][handle[s]].alloc
    BY FusionsAssumption DEF TypeOK, SlotPerSlave
  <1>2. \A s \in opened : Sheltered(handle[s]) => slot'[MasterOf[s]][handle[s]].alloc
    BY <1>1, TakenSlot
  <1>3. \A s \in opened : MasterOf[s] = m /\ Sheltered(handle[s]) => handle[s] # k
    BY <1>1, TakenSlot
  <1>4. ASSUME NEW u \in registered, u < IntBits, handle[uart[u].owner] \in Slots,
               Sheltered(handle[uart[u].owner]),
               handle[uart[u].owner] # 0 \/ uart[u].owner \in opened
        PROVE  u \in slot'[MasterOf[uart[u].owner]][handle[uart[u].owner]].events
    <2>1. u \in slot[MasterOf[uart[u].owner]][handle[uart[u].owner]].events
      BY <1>4 DEF RegistrationKept
    <2>2. MasterOf[uart[u].owner] \in Masters
      BY FusionsAssumption DEF UartsInv, TypeOK
    <2> QED
      BY <1>1, <1>4, <2>1, <2>2, TakenSlot
  <1> QED
    BY <1>2, <1>3, <1>4

(* An open that fails later only takes a slot. *)
LEMMA LeakKeepsTables ==
  ASSUME TablesInv, NEW s \in Fusions, NEW k \in Slots, VarInfoFails(s, k)
  PROVE  TablesInv'
  <1> USE DEF TablesInv
  <1>1. /\ UNCHANGED <<up, handle, count, uart, mapping, alive, opened, bound, registered>>
        /\ TakeSlot(MasterOf[s], k) /\ MasterOf[s] \in Masters
    BY FusionsAssumption DEF VarInfoFails, history
  <1>2. TypeOK'
    BY <1>1, TakenSlot DEF TypeOK, Tables, SlotType
  <1>3. OpenedOfUp' /\ UartsInv'
    BY <1>1 DEF OpenedOfUp, UartsInv
  <1>4. SlotPerSlave'
    BY <1>1, TakingSparesOthers DEF SlotPerSlave
  <1>5. RegistrationKept'
    BY <1>1, TakingSparesOthers DEF RegistrationKept
  <1> QED
    BY <1>2, <1>3, <1>4, <1>5

(* An open hands out a slot that is nobody's. *)
LEMMA OpenKeepsTables ==
  ASSUME TablesInv, NEW s \in Fusions, NEW k \in Slots, OpenFusion(s, k)
  PROVE  TablesInv'
  <1> USE DEF TablesInv
  <1> DEFINE m == MasterOf[s]
  <1>1. /\ UNCHANGED <<up, uart, alive, bound>>
        /\ TakeSlot(m, k) /\ m \in Masters /\ m \in up /\ count[m] < MaxOpens
        /\ handle' = [handle EXCEPT ![s] = k] /\ count' = [count EXCEPT ![m] = @ + 1]
        /\ opened' = opened \cup {s} /\ registered' = registered \ OwnedBy(s)
    BY FusionsAssumption DEF OpenFusion, TakeSlot
  <1>2. TypeOK'
    <2>1. handle' \in [Fusions -> 0 .. MaxFusions]
      BY <1>1, SizesAssumption DEF TypeOK, Slots
    <2>2. count' \in [Masters -> 0 .. MaxOpens]
      BY <1>1, MaxOpensAssumption DEF TypeOK
    <2>3. mapping' \in [Uarts -> [owner : Fusions \cup {None}, module : Nat]]
      <3>1. \A i \in Uarts : i + 1 \in DOMAIN Modules[s] => Modules[s][i + 1] \in Nat
        BY ModulesAssumption
      <3> QED
        BY <3>1 DEF OpenFusion, MapModules, TypeOK
    <2>4. slot' \in Tables
      BY <1>1, TakenSlot
    <2> QED
      BY <1>1, <2>1, <2>2, <2>3, <2>4 DEF TypeOK, Tables, SlotType
  <1>3. handle'[s] = k /\ \A t \in Fusions : t # s => handle'[t] = handle[t]
    BY <1>1 DEF TypeOK
  <1>4. OpenedOfUp' /\ UartsInv'
    BY <1>1 DEF OpenedOfUp, UartsInv
  <1>5. slot'[m][k].alloc
    BY <1>1, TakenSlot
  <1>6. SlotPerSlave'
    <2>1. \A t \in opened : t \in Fusions
      BY DEF TypeOK
    <2>2. \A t \in opened' : t = s \/ (t \in opened /\ t # s /\ handle'[t] = handle[t])
      BY <1>1, <1>3, <2>1
    <2>3. \A t \in opened' : handle'[t] \in Slots
      BY <1>3, <2>2 DEF SlotPerSlave
    <2>4. \A t \in opened' : Sheltered(handle'[t]) => slot'[MasterOf[t]][handle'[t]].alloc
      BY <1>1, <1>3, <1>5, <2>2, TakingSparesOthers
    <2>5. \A t \in opened : t # s /\ MasterOf[t] = m /\ Sheltered(k) => handle'[t] # k
      BY <1>1, <2>2, TakingSparesOthers
    <2>6. ASSUME NEW t \in opened', NEW v \in opened' \ {t}, MasterOf[v] = MasterOf[t],
                 Sheltered(handle'[t])
          PROVE  handle'[v] # handle'[t]
      <3>1. CASE t = s
        BY <1>1, <1>3, <2>5, <2>6, <3>1
      <3>2. CASE v = s
        BY <1>1, <1>3, <2>5, <2>6, <3>2
      <3>3. CASE t # s /\ v # s
        BY <2>2, <2>6, <3>3 DEF SlotPerSlave
      <3> QED
        BY <3>1, <3>2, <3>3
    <2>7. \A t \in opened' : Sheltered(handle'[t]) =>
            \A v \in opened' \ {t} : MasterOf[v] = MasterOf[t] => handle'[v] # handle'[t]
      BY <2>6
    <2> QED
      BY ONLY <2>3, <2>4, <2>7 DEF SlotPerSlave, Sheltered
  <1>7. RegistrationKept'
    <2>1. \A u \in registered' : /\ u \in registered /\ uart[u].owner # s
                                 /\ uart[u].owner \in Fusions
      BY <1>1 DEF OwnedBy, UartsInv, TypeOK
    <2>2. \A u \in registered' :
            /\ handle'[uart[u].owner] = handle[uart[u].owner]
            /\ uart[u].owner \in opened' => uart[u].owner \in opened
      BY <1>1, <1>3, <2>1
    <2> QED
      BY <1>1, <2>1, <2>2, TakingSparesOthers DEF RegistrationKept
  <1> QED
    BY <1>2, <1>4, <1>6, <1>7

(* A fusion opened when no slot is left is no longer one of those opened.  *)
LEMMA FullKeepsTables ==
  ASSUME TablesInv, NEW s \in Fusions, NoSlotLeft(s) PROVE TablesInv'
  <1> USE DEF TablesInv
  <1> DEFINE m == MasterOf[s]
  <1>1. CASE Dies
    BY <1>1, CrashKeepsTables
  <1>2. CASE ~Dies
    <2>1. /\ UNCHANGED <<up, slot, uart, mapping, alive>>
          /\ m \in Masters /\ count[m] < MaxOpens /\ count' = [count EXCEPT ![m] = @ + 1]
          /\ opened' = opened \ {s} /\ bound' = bound \ OwnedBy(s)
          /\ registered' = registered \ OwnedBy(s)
      BY <1>2, FusionsAssumption DEF NoSlotLeft
    <2>2. PICK k \in Slots \cup {MaxFusions} : handle' = [handle EXCEPT ![s] = k]
      BY <1>2 DEF NoSlotLeft
    <2>3. TypeOK'
      <3>1. handle' \in [Fusions -> 0 .. MaxFusions]
        BY <2>2, SizesAssumption DEF TypeOK, Slots
      <3>2. count' \in [Masters -> 0 .. MaxOpens]
        BY <2>1, MaxOpensAssumption DEF TypeOK
      <3> QED
        BY <2>1, <3>1, <3>2 DEF TypeOK
    <2>4. \A t \in Fusions : t # s => handle'[t] = handle[t]
      BY <2>2 DEF TypeOK
    <2>5. OpenedOfUp' /\ UartsInv'
      BY <2>1 DEF OpenedOfUp, UartsInv
    <2>6. SlotPerSlave'
      <3>1. \A t \in opened' : t \in opened /\ handle'[t] = handle[t]
        BY <2>1, <2>4 DEF TypeOK
      <3> QED
        BY <2>1, <3>1 DEF SlotPerSlave
    <2>7. RegistrationKept'
      <3>1. \A u \in registered' : /\ u \in registered /\ uart[u].owner # s
                                   /\ uart[u].owner \in Fusions
        BY <2>1 DEF OwnedBy, UartsInv, TypeOK
      <3>2. \A u \in registered' : handle'[uart[u].owner] = handle[uart[u].owner]
        BY <2>4, <3>1
      <3> QED
        BY <2>1, <3>1, <3>2 DEF RegistrationKept
    <2> QED
      BY <2>3, <2>5, <2>6, <2>7
  <1> QED
    BY <1>1, <1>2

(* A UART that is opened was not in use, so neither bound nor registered.  *)
LEMMA OpenUartKeepsTables ==
  ASSUME TablesInv, NEW u \in Uarts, NEW s \in Fusions, NEW n \in ModuleNumbers(s),
         OpenUart(u, s, n)
  PROVE  TablesInv'
  <1> USE DEF TablesInv
  <1> DEFINE r == [alloc |-> TRUE, owner |-> s, module |-> n, at |-> Channel(n)]
  <1>1. /\ UNCHANGED <<up, slot, handle, count, mapping, alive, opened, registered>>
        /\ MasterOf[s] \in up /\ ~uart[u].alloc /\ uart' = [uart EXCEPT ![u] = r]
        /\ bound' \subseteq bound \cup {u}
    BY DEF OpenUart, NextUart
  <1>2. r \in UartType /\ r.alloc /\ r.owner = s
    <2>1. n \in Nat
      BY ModulesAssumption DEF ModuleNumbers
    <2> QED
      BY <2>1, ChannelOfTable DEF UartType
  <1> HIDE DEF r
  <1>3. uart'[u] = r /\ \A v \in Uarts : v # u => uart'[v] = uart[v]
    BY <1>1 DEF TypeOK
  <1>4. TypeOK'
    BY <1>1, <1>2 DEF TypeOK, UartType
  <1>5. OpenedOfUp' /\ SlotPerSlave'
    BY <1>1 DEF OpenedOfUp, SlotPerSlave
  <1>6. UartsInv'
    BY <1>1, <1>2, <1>3 DEF UartsInv, TypeOK
  <1>7. RegistrationKept'
    <2>1. \A v \in registered : uart'[v] = uart[v]
      BY <1>1, <1>3 DEF UartsInv, TypeOK
    <2> QED
      BY <1>1, <2>1 DEF RegistrationKept
  <1> QED
    BY <1>4, <1>5, <1>6, <1>7

LEMMA CloseUartKeepsTables ==
  ASSUME TablesInv, NEW u \in Uarts, CloseUart(u) PROVE TablesInv'
  <1> USE DEF TablesInv
  <1>1. /\ UNCHANGED <<up, slot, handle, count, mapping, alive, opened>>
        /\ uart' = [uart EXCEPT ![u] = Closed]
        /\ bound' = bound \ {u} /\ registered' = registered \ {u}
    BY DEF CloseUart
  <1>2. uart'[u] = Closed /\ \A v \in Uarts : v # u => uart'[v] = uart[v]
    BY <1>1 DEF TypeOK
  <1>3. TypeOK'
    BY <1>1, FreeEntries DEF TypeOK, UartType
  <1>4. OpenedOfUp' /\ SlotPerSlave'
    BY <1>1 DEF OpenedOfUp, SlotPerSlave
  <1>5. UartsInv'
    BY <1>1, <1>2, FreeEntries DEF UartsInv, TypeOK
  <1>6. RegistrationKept'
    BY <1>1, <1>2 DEF RegistrationKept, TypeOK
  <1> QED
    BY <1>3, <1>4, <1>5, <1>6

(* A UART that is not too high for an int is among the bits it marks. *)
LEMMA ShiftHasBit ==
  ASSUME NEW u \in Uarts, NEW bits \in ShiftedOne(u)
  PROVE  bits \in SUBSET Uarts /\ (u < IntBits => u \in bits)
  BY SizesAssumption DEF ShiftedOne, Uarts

LEMMA RegisterKeepsTables ==
  ASSUME TablesInv, NEW u \in Uarts, Register(u) PROVE TablesInv'
  <1> USE DEF TablesInv
  <1> DEFINE s == uart[u].owner
             m == MasterOf[s]
             k == handle[s]
  <1>1. /\ UNCHANGED <<up, handle, count, uart, mapping, alive, opened, bound>>
        /\ uart[u].alloc /\ registered' = registered \cup {u}
    BY DEF Register
  <1>2. s \in Fusions /\ m \in Masters
    BY <1>1, FusionsAssumption DEF UartsInv
  <1>3. slot \in Tables
    BY DEF TypeOK, Tables, SlotType
  <1>4. /\ slot' \in Tables
        /\ k \in Slots /\ u < IntBits => u \in slot'[m][k].events
        /\ \A n \in Masters, j \in Slots : /\ slot'[n][j].alloc = slot[n][j].alloc
                                           /\ slot[n][j].events \subseteq slot'[n][j].events
    <2>1. CASE k \notin Slots
      BY <1>3, <2>1 DEF Register
    <2>2. CASE k \in Slots
      <3>1. PICK bits \in ShiftedOne(u) : slot' = [slot EXCEPT ![m][k].events = @ \cup bits]
        BY <2>2 DEF Register, Mark
      <3> DEFINE r == WithEvents(slot[m][k], slot[m][k].events \cup bits)
      <3>2. slot[m][k] \in SlotType /\ slot[m][k].events \cup bits \in SUBSET Uarts
        <4>1. slot[m][k] \in SlotType
          BY <1>2, <1>3, <2>2 DEF Tables
        <4>2. slot[m][k].events \in SUBSET Uarts
          BY <4>1 DEF SlotType
        <4> QED
          BY <4>1, <4>2, ShiftHasBit
      <3>3. r \in SlotType /\ r.alloc = slot[m][k].alloc /\ r.events = slot[m][k].events \cup bits
        BY <3>2, EntryTypes
      <3>4. slot' = Put(slot, m, k, r)
        BY <1>2, <1>3, <2>2, <3>1 DEF Tables, Put, WithEvents
      <3> HIDE DEF r, m, k
      <3>5. /\ slot' \in Tables /\ slot'[m][k] = r
            /\ \A n \in Masters, j \in Slots : <<n, j>> # <<m, k>> => slot'[n][j] = slot[n][j]
        BY <1>2, <1>3, <2>2, <3>3, <3>4, PutEntry
      <3>6. u < IntBits => u \in slot'[m][k].events
        BY <3>3, <3>5, ShiftHasBit
      <3>7. \A n \in Masters, j \in Slots : /\ slot'[n][j].alloc = slot[n][j].alloc
                                            /\ slot[n][j].events \subseteq slot'[n][j].events
        <4> SUFFICES ASSUME NEW n \in Masters, NEW j \in Slots
                     PROVE  /\ slot'[n][j].alloc = slot[n][j].alloc
                            /\ slot[n][j].events \subseteq slot'[n][j].events
          OBVIOUS
        <4>1. CASE n = m /\ j = k
          BY <3>3, <3>5, <4>1
        <4>2. CASE ~(n = m /\ j = k)
          BY <3>5, <4>2
        <4> QED
          BY <4>1, <4>2
      <3> QED
        BY <3>5, <3>6, <3>7
    <2> QED
      BY <2>1, <2>2
  <1>5. TypeOK'
    BY <1>1, <1>4 DEF TypeOK, Tables, SlotType
  <1>6. OpenedOfUp' /\ UartsInv'
    BY <1>1 DEF OpenedOfUp, UartsInv
  <1>7. SlotPerSlave'
    BY <1>1, <1>4, FusionsAssumption DEF SlotPerSlave, TypeOK
  <1>8. RegistrationKept'
    <2> SUFFICES ASSUME NEW v \in registered', v < IntBits, handle[uart[v].owner] \in Slots,
                        Sheltered(handle[uart[v].owner]),
                        handle[uart[v].owner] # 0 \/ uart[v].owner \in opened
                 PROVE  v \in slot'[MasterOf[uart[v].owner]][handle[uart[v].owner]].events
      BY <1>1 DEF RegistrationKept, Sheltered
    <2>1. CASE v = u
      BY <1>4, <2>1
    <2>2. CASE v # u
      <3>1. v \in registered /\ MasterOf[uart[v].owner] \in Masters
        BY <1>1, <2>2, FusionsAssumption DEF UartsInv, TypeOK
      <3>2. v \in slot[MasterOf[uart[v].owner]][handle[uart[v].owner]].events
        BY <3>1 DEF RegistrationKept
      <3> QED
        BY <1>4, <3>1, <3>2
    <2> QED
      BY <2>1, <2>2
  <1> QED
    BY <1>5, <1>6, <1>7, <1>8

(* The invariant of the tables. *)
THEOREM TablesInvariant == Spec => []TablesInv
  <1>1. TablesInv /\ [Next]_vars => TablesInv'
    <2> SUFFICES ASSUME TablesInv, [Next]_vars PROVE TablesInv'
      OBVIOUS
    <2>1. CASE UNCHANGED vars
      BY <2>1 DEF vars, tables, history, TablesInv, TypeOK, OpenedOfUp, UartsInv,
                  SlotPerSlave, RegistrationKept, Sheltered
    <2>2. CASE \E m \in Masters : InitMaster(m) \/ DeinitMaster(m)
      BY <2>2, InitKeepsTables, DeinitKeepsTables
    <2>3. CASE \E s \in Fusions : CfgInfoFails(s) \/ NoSlotLeft(s)
      BY <2>3, CrashKeepsTables, FullKeepsTables DEF CfgInfoFails
    <2>4. CASE \E s \in Fusions, k \in Slots : VarInfoFails(s, k) \/ OpenFusion(s, k)
      BY <2>4, LeakKeepsTables, OpenKeepsTables
    <2>5. CASE \E u \in Uarts, s \in Fusions : \E n \in ModuleNumbers(s) : OpenUart(u, s, n)
      BY <2>5, OpenUartKeepsTables
    <2>6. CASE \E u \in Uarts : CloseUart(u) \/ Register(u) \/ RegisterCrashes(u)
      BY <2>6, CloseUartKeepsTables, RegisterKeepsTables, CrashKeepsTables DEF RegisterCrashes
    <2> QED
      BY <2>1, <2>2, <2>3, <2>4, <2>5, <2>6 DEF Next
  <1> QED
    BY <1>1, InitTables, PTL DEF Spec

(* Types of the tables, with the handle a failed open leaves.              *)
THEOREM TableTypes == Spec => []TypeOK
  BY TablesInvariant, PTL DEF TablesInv

(* No two opened fusions of a master share a sheltered slot, and none      *)
(* loses its own (get_next_fusion_instance).                               *)
THEOREM SlotsNotShared == Spec => []SlotPerSlave
  BY TablesInvariant, PTL DEF TablesInv

(* No opening, closing or failing of anything else drops a registration in *)
(* a sheltered slot.                                                       *)
THEOREM RegistrationsStay == Spec => []RegistrationKept
  BY TablesInvariant, PTL DEF TablesInv
----------------------------------------------------------------------------
(* The process data *)

(* One of the fusions has all the UART modules. *)
OneUartFusion == \A s, t \in Fusions : s # t => Modules[s] = <<>> \/ Modules[t] = <<>>

(* The channels from the first one on are those of fusion s. *)
MapsOwn(s) ==
  \A i \in Uarts : i + 1 \in DOMAIN Modules[s] =>
    mapping[i] = [owner |-> s, module |-> Modules[s][i + 1]]

(* An opened fusion has its channels, and a UART that was opened on one of *)
(* its modules has the channel of that module.                             *)
MappingInv ==
  /\ \A s \in opened : MapsOwn(s)
  /\ \A u \in bound :
       /\ uart[u].owner \in opened
       /\ uart[u].at + 1 \in DOMAIN Modules[uart[u].owner]
       /\ Modules[uart[u].owner][uart[u].at + 1] = uart[u].module

LEMMA ChannelsOfFusion ==
  ASSUME NEW s \in Fusions
  PROVE  /\ Len(Modules[s]) \in Nat /\ DOMAIN Modules[s] = 1 .. Len(Modules[s])
         /\ \A i \in DOMAIN Modules[s] : i \in Nat /\ i - 1 \in Uarts /\ Modules[s][i] \in Nat
  <1>1. Modules[s] \in Seq(Nat) /\ Len(Modules[s]) <= MaxUarts
    BY ModulesAssumption
  <1>2. Len(Modules[s]) \in Nat /\ DOMAIN Modules[s] = 1 .. Len(Modules[s])
    BY <1>1
  <1>3. \A i \in DOMAIN Modules[s] : Modules[s][i] \in Nat
    BY <1>1
  <1> QED
    BY <1>1, <1>2, <1>3, SizesAssumption DEF Uarts

(* The channel found for a module of an opened fusion is one of its own,   *)
(* with that module: a channel that was never mapped comes after them.     *)
LEMMA FoundIsOwn ==
  ASSUME NEW s \in Fusions, MapsOwn(s), NEW n \in ModuleNumbers(s)
  PROVE  /\ Channel(n) + 1 \in DOMAIN Modules[s]
         /\ Modules[s][Channel(n) + 1] = n
  <1> DEFINE found == {j \in Uarts : mapping[j].module = n}
  <1>1. PICK i \in DOMAIN Modules[s] : Modules[s][i] = n
    BY DEF ModuleNumbers
  <1>2. \A j \in Uarts : j + 1 \in DOMAIN Modules[s] => mapping[j].module = Modules[s][j + 1]
    <2> SUFFICES ASSUME NEW j \in Uarts, j + 1 \in DOMAIN Modules[s]
                 PROVE  mapping[j].module = Modules[s][j + 1]
      OBVIOUS
    <2>1. mapping[j] = [owner |-> s, module |-> Modules[s][j + 1]]
      BY DEF MapsOwn
    <2> QED
      BY ONLY <2>1
  <1>3. i - 1 \in found
    <2>1. i - 1 \in Uarts /\ (i - 1) + 1 = i
      BY ChannelsOfFusion
    <2> QED
      BY <1>1, <1>2, <2>1
  <1>4. found \in SUBSET Nat
    BY SizesAssumption DEF Uarts
  <1>5. \E j \in found : \A k \in found : j <= k
    BY <1>3, <1>4, LeastOf
  <1>6. Channel(n) \in found /\ \A k \in found : Channel(n) <= k
    BY <1>3, <1>5 DEF Channel
  <1>7. Channel(n) <= i - 1 /\ Channel(n) \in Nat /\ i \in Nat
    BY <1>3, <1>4, <1>6, ChannelsOfFusion
  <1>8. Channel(n) + 1 \in DOMAIN Modules[s]
    BY <1>1, <1>7, ChannelsOfFusion
  <1>9. mapping[Channel(n)].module = n
    BY <1>6
  <1> QED
    BY <1>2, <1>6, <1>8, <1>9

(* What leaves the channels and the bound UARTs alone *)
LEMMA MappingStays ==
  ASSUME MappingInv, mapping' = mapping, opened' \subseteq opened, bound' \subseteq bound,
         \A u \in bound' : uart'[u] = uart[u] /\ uart[u].owner \in opened'
  PROVE  MappingInv'
  BY DEF MappingInv, MapsOwn

(* Only the fusion with the UART modules maps channels. *)
LEMMA OpenKeepsMapping ==
  ASSUME OneUartFusion, TypeOK, MappingInv, NEW s \in Fusions, NEW k \in Slots, OpenFusion(s, k)
  PROVE  MappingInv'
  <1>1. /\ bound' = bound /\ uart' = uart /\ opened' = opened \cup {s}
        /\ mapping' = [j \in Uarts |->
             IF j + 1 \in DOMAIN Modules[s] THEN [owner |-> s, module |-> Modules[s][j + 1]]
             ELSE mapping[j]]
    BY DEF OpenFusion, MapModules
  <1>2. MapsOwn(s)'
    BY <1>1 DEF MapsOwn
  <1>3. ASSUME NEW t \in opened, t # s PROVE MapsOwn(t)'
    <2>1. t \in Fusions /\ MapsOwn(t)
      BY DEF TypeOK, MappingInv
    <2>2. CASE Modules[t] = <<>>
      BY <2>2 DEF MapsOwn
    <2>3. CASE Modules[s] = <<>>
      <3>1. \A j \in Uarts : mapping'[j] = mapping[j]
        BY <1>1, <2>3
      <3> QED
        BY <2>1, <3>1 DEF MapsOwn
    <2> QED
      BY <1>3, <2>1, <2>2, <2>3 DEF OneUartFusion
  <1>4. \A t \in opened' : MapsOwn(t)'
    BY <1>1, <1>2, <1>3
  <1> QED
    BY <1>1, <1>4 DEF MappingInv

(* A UART looks for its channel when it is opened, and stays there. *)
LEMMA OpenUartKeepsMapping ==
  ASSUME TablesInv, MappingInv, NEW u \in Uarts, NEW s \in Fusions, NEW n \in ModuleNumbers(s),
         OpenUart(u, s, n)
  PROVE  MappingInv'
  <1>1. /\ UNCHANGED <<mapping, opened>> /\ ~uart[u].alloc
        /\ uart' = [uart EXCEPT ![u] =
                      [alloc |-> TRUE, owner |-> s, module |-> n, at |-> Channel(n)]]
        /\ bound' = IF s \in opened THEN bound \cup {u} ELSE bound
    BY DEF OpenUart, NextUart
  <1>2. /\ uart'[u].owner = s /\ uart'[u].module = n /\ uart'[u].at = Channel(n)
        /\ \A v \in Uarts : v # u => uart'[v] = uart[v]
    BY <1>1 DEF TablesInv, TypeOK
  <1>3. \A v \in bound : v \in Uarts /\ v # u
    BY <1>1 DEF TablesInv, TypeOK, UartsInv
  <1>4. \A t \in opened' : MapsOwn(t)'
    BY <1>1 DEF MappingInv, MapsOwn
  <1>5. s \in opened => /\ Channel(n) + 1 \in DOMAIN Modules[s]
                        /\ Modules[s][Channel(n) + 1] = n
    BY FoundIsOwn DEF MappingInv
  <1> QED
    BY <1>1, <1>2, <1>3, <1>4, <1>5 DEF MappingInv

(* When one fusion has all the UART modules, a UART opened on a module of  *)
(* it, after it was opened, reads and writes that module's process data,   *)
(* whatever is opened and closed again.                                    *)
THEOREM DataStaysOwn == ASSUME OneUartFusion PROVE Spec => []DataIsOwn
  <1>1. TablesInv /\ MappingInv /\ [Next]_vars => MappingInv'
    <2> SUFFICES ASSUME TablesInv, MappingInv, [Next]_vars PROVE MappingInv'
      OBVIOUS
    <2> USE DEF MappingInv
    <2>1. CASE UNCHANGED vars
      BY <2>1, MappingStays DEF vars, tables, history
    <2>2. CASE Dies
      BY <2>2 DEF Dies
    <2>3. ASSUME NEW m \in Masters, InitMaster(m) \/ DeinitMaster(m) PROVE MappingInv'
      <3>1. CASE InitMaster(m)
        BY <3>1, MappingStays DEF InitMaster, history
      <3>2. CASE DeinitMaster(m)
        BY <3>2, MappingStays DEF DeinitMaster, CloseAll
      <3> QED
        BY <2>3, <3>1, <3>2
    <2>4. ASSUME NEW s \in Fusions, NoSlotLeft(s), ~Dies PROVE MappingInv'
      <3>1. /\ UNCHANGED <<mapping, uart>> /\ opened' = opened \ {s}
            /\ bound' = bound \ OwnedBy(s)
        BY <2>4 DEF NoSlotLeft
      <3>2. \A u \in bound' : u \in bound /\ uart[u].owner # s
        BY <3>1 DEF OwnedBy, TablesInv, TypeOK
      <3> QED
        BY <3>1, <3>2, MappingStays
    <2>5. ASSUME NEW s \in Fusions, NEW k \in Slots, VarInfoFails(s, k) PROVE MappingInv'
      BY <2>5, MappingStays DEF VarInfoFails, history
    <2>6. ASSUME NEW s \in Fusions, NEW k \in Slots, OpenFusion(s, k) PROVE MappingInv'
      BY <2>6, OpenKeepsMapping DEF TablesInv
    <2>7. ASSUME NEW u \in Uarts, CloseUart(u) PROVE MappingInv'
      <3>1. \A v \in bound' : uart'[v] = uart[v]
        BY <2>7 DEF CloseUart, TablesInv, TypeOK
      <3> QED
        BY <2>7, <3>1, MappingStays DEF CloseUart
    <2>8. ASSUME NEW u \in Uarts, Register(u) PROVE MappingInv'
      BY <2>8, MappingStays DEF Register
    <2> QED
      BY <2>1, <2>2, <2>3, <2>4, <2>5, <2>6, <2>7, <2>8, OpenUartKeepsMapping
      DEF Next, CfgInfoFails, RegisterCrashes
  <1>2. TablesInv /\ MappingInv => DataIsOwn
    <2> SUFFICES ASSUME TypeOK, MappingInv, NEW u \in bound
                 PROVE  mapping[uart[u].at] = [owner |-> uart[u].owner, module |-> uart[u].module]
      BY DEF DataIsOwn, TablesInv
    <2>1. uart[u].at \in Uarts /\ uart[u].owner \in opened
      BY DEF TypeOK, MappingInv
    <2> QED
      BY <2>1 DEF MappingInv, MapsOwn
  <1>3. Init => MappingInv
    BY DEF Init, MappingInv
  <1> QED
    BY <1>1, <1>2, <1>3, TablesInvariant, PTL DEF Spec
=================================================================================
