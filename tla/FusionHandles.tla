---------------------------- MODULE FusionHandles ----------------------------
(***************************************************************************)
(* Fusion slots and UART handles: the tables of                            *)
(* ddi_em_slave_management.cpp, ddi_em_fusion_interface.cpp and            *)
(* ddi_em_fusion_uart.cpp, and how opening and closing move through them.  *)
(*                                                                         *)
(* One application thread makes the calls, and the cyclic threads only     *)
(* read these tables, so a call is one step.  What the EC-Master stack     *)
(* answers about a slave is external: an answer or an error.  How a slave  *)
(* is looked up (by id, address or position) makes no difference to these  *)
(* tables; a lookup that finds nothing, the open of a slave that is no     *)
(* fusion, and ddi_em_close_slave, which clears a flag nothing reads,      *)
(* change none of them.                                                    *)
(***************************************************************************)
EXTENDS Naturals, FiniteSets, Sequences

CONSTANTS
  Masters,     \* the master handles in use
  MaxFusions,  \* DDI_MAX_FUSION_INSTANCES, the fusion slots of each master
  Fusions,     \* the fusions: an em_handle with an es_handle (dwSlaveId)
  None,        \* no fusion
  MasterOf,    \* the master of each fusion
  Modules,     \* per fusion: the numbers of its UART modules, in bus order
  MaxUarts,    \* MAX_UART_INSTANCES
  IntBits,     \* the bits of an int: 32
  MaxOpens     \* bound: fusions opened with result ok, per init of a master

Slots == 0 .. MaxFusions - 1
Uarts == 0 .. MaxUarts - 1
ModuleNumbers(s) == {Modules[s][i] : i \in DOMAIN Modules[s]}

ASSUME MastersAssumption == Masters \subseteq Nat
ASSUME SizesAssumption ==
  MaxFusions \in Nat \ {0} /\ MaxUarts \in Nat \ {0} /\ IntBits \in Nat \ {0}
ASSUME FusionsAssumption == None \notin Fusions /\ MasterOf \in [Fusions -> Masters]
ASSUME ModulesAssumption ==
  /\ Modules \in [Fusions -> Seq(Nat)]
  /\ \A s \in Fusions : Len(Modules[s]) <= MaxUarts
ASSUME MaxOpensAssumption == MaxOpens \in Nat

VARIABLES
  up,          \* the masters between their init and their deinit
  slot,        \* g_fusion_instance
  handle,      \* slave_info[].fusion_handle of each fusion
  count,       \* ddi_fusion_count of each master
  uart,        \* g_uart_instance: in use, of which fusion and module, its channel
  mapping,     \* g_uart_pd_mapping: the module found there, and of which fusion
  alive,       \* has the process not crashed?
  opened,      \* history: fusions whose slot was handed out with their handle
  bound,       \* history: UARTs opened on a module of an opened fusion
  registered   \* history: UARTs registered since they and their fusion opened

tables == <<up, slot, handle, count, uart, mapping>>
history == <<opened, bound, registered>>
vars == <<tables, alive, history>>

FreeSlot == [alloc |-> FALSE, events |-> {}]
Closed == [alloc |-> FALSE, owner |-> None, module |-> 0, at |-> 0]
Unmapped == [owner |-> None, module |-> 0]
OwnedBy(s) == {u \in Uarts : uart[u].owner = s}

FreeSlots == [m \in Masters |-> [k \in Slots |-> FreeSlot]]
NoHandles == [s \in Fusions |-> 0]
NoFusions == [m \in Masters |-> 0]
NoUarts == [u \in Uarts |-> Closed]
NoMapping == [i \in Uarts |-> Unmapped]

Init ==
  /\ up = {}
  /\ slot = FreeSlots /\ handle = NoHandles /\ count = NoFusions
  /\ uart = NoUarts /\ mapping = NoMapping
  /\ alive = TRUE
  /\ opened = {} /\ bound = {} /\ registered = {}

(* The process crashes, and its tables go with it. *)
Dies ==
  /\ up' = {}
  /\ slot' = FreeSlots /\ handle' = NoHandles /\ count' = NoFusions
  /\ uart' = NoUarts /\ mapping' = NoMapping
  /\ alive' = FALSE
  /\ opened' = {} /\ bound' = {} /\ registered' = {}

----------------------------------------------------------------------------
(* Masters come and go *)

(* get_next_instance clears the instance and with it its slave handles *)
InitMaster(m) ==
  /\ alive /\ m \notin up
  /\ up' = up \cup {m}
  /\ handle' = [s \in Fusions |-> IF MasterOf[s] = m THEN 0 ELSE handle[s]]
  /\ count' = [count EXCEPT ![m] = 0]
  /\ UNCHANGED <<slot, uart, mapping, alive, history>>

(* The UARTs of all masters are closed (what is left in them is not used). *)
CloseAll(m) ==
  /\ up' = up \ {m}
  /\ uart' = NoUarts
  /\ opened' = {s \in opened : MasterOf[s] # m}
  /\ bound' = {}
  /\ registered' = {}
  /\ UNCHANGED <<handle, count, mapping, alive>>

(* Mutant: the slots of all masters are given back, as the UARTs are. *)
DeinitAll(m) ==
  /\ alive /\ m \in up
  /\ slot' = [g \in Masters |-> [k \in Slots |-> [slot[g][k] EXCEPT !.alloc = FALSE]]]
  /\ CloseAll(m)

(* ddi_em_close_all_slave_handles *)
DeinitMaster(m) ==
  /\ alive /\ m \in up
  /\ slot' = [slot EXCEPT ![m] = [k \in Slots |-> [@[k] EXCEPT !.alloc = FALSE]]]
  /\ CloseAll(m)

----------------------------------------------------------------------------
(* Opening a fusion: the open_slave_handle of ddi_em_open_slave_by_id,     *)
(* by_position and by_station_address, which ignore its result.            *)

(* emGetCfgSlaveInfo fails.  The way out frees pd_var_info, which nothing  *)
(* has set: the process crashes, or goes on with its tables as they are,   *)
(* which is no step here.  (What else the free of a wrong block damages is *)
(* on the heap; the tables are static.)                                    *)
CfgInfoFails(s) ==
  /\ alive /\ MasterOf[s] \in up
  /\ Dies

NextSlot(m, k) ==
  /\ ~slot[m][k].alloc
  /\ \A j \in Slots : j < k => slot[m][j].alloc

(* get_next_fusion_instance means to clear slot k of master m; its memset  *)
(* is one index short and clears the first slot of master k, whoever has   *)
(* it.  From k = DDI_EM_MAX_MASTER_INSTANCES on it clears what lies behind *)
(* the table.                                                              *)
Cleared(m, k) ==
  IF k \in Masters THEN [slot EXCEPT ![k][0] = FreeSlot] ELSE slot

(* A slot is taken. *)
TakeSlot(m, k) ==
  /\ alive /\ m \in up
  /\ count[m] < MaxOpens
  /\ NextSlot(m, k)
  /\ slot' = [Cleared(m, k) EXCEPT ![m][k].alloc = TRUE]

(* The variables of the slave cannot be read: its slot stays allocated. *)
VarInfoFails(s, k) ==
  /\ TakeSlot(MasterOf[s], k)
  /\ UNCHANGED <<up, handle, count, uart, mapping, alive, history>>

(* Mutant: the count of the channels does not advance. *)
MapToFirst(s) ==
  mapping' = IF Modules[s] = <<>> THEN mapping
             ELSE [mapping EXCEPT ![0] =
                     [owner |-> s, module |-> Modules[s][Len(Modules[s])]]]

(* Each UART module found is mapped to the next physical channel, from the *)
(* first one on for every fusion.  (A module's four channels count as one.)*)
MapModules(s) ==
  mapping' = [i \in Uarts |->
    IF i + 1 \in DOMAIN Modules[s] THEN [owner |-> s, module |-> Modules[s][i + 1]]
    ELSE mapping[i]]

(* The caller reports too many fusions when the count is exactly           *)
(* MaxFusions; that result is ignored as well.                             *)
OpenFusion(s, k) ==
  /\ TakeSlot(MasterOf[s], k)
  /\ MapModules(s)
  /\ handle' = [handle EXCEPT ![s] = k]
  /\ count' = [count EXCEPT ![MasterOf[s]] = @ + 1]
  /\ opened' = opened \cup {s}
  /\ registered' = registered \ OwnedBy(s)
  /\ UNCHANGED <<up, uart, alive, bound>>

(* No slot is left.  The error is translated from the status of the call   *)
(* before, which was success, and pd_var_info is freed unset: the process  *)
(* crashes, or the open goes on with an uninitialised handle.  MaxFusions  *)
(* stands for all values outside the table.                                *)
NoSlotLeft(s) ==
  LET m == MasterOf[s]
  IN  /\ alive /\ m \in up
      /\ count[m] < MaxOpens
      /\ \A k \in Slots : slot[m][k].alloc
      /\ \/ Dies
         \/ /\ \E k \in Slots \cup {MaxFusions} : handle' = [handle EXCEPT ![s] = k]
            /\ count' = [count EXCEPT ![m] = @ + 1]
            /\ opened' = opened \ {s}
            /\ bound' = bound \ OwnedBy(s)
            /\ registered' = registered \ OwnedBy(s)
            /\ UNCHANGED <<up, slot, uart, mapping, alive>>

----------------------------------------------------------------------------
(* UARTs *)

NextUart(u) == ~uart[u].alloc /\ \A v \in Uarts : v < u => uart[v].alloc

(* The first physical channel whose module has number n, on any fusion *)
Channel(n) ==
  LET found == {i \in Uarts : mapping[i].module = n}
  IN  IF found = {} THEN 0 ELSE CHOOSE i \in found : \A j \in found : i <= j

(* The application names a module of the fusion.  Whether the fusion was   *)
(* opened is not looked at.                                                *)
OpenUart(u, s, n) ==
  /\ alive /\ MasterOf[s] \in up
  /\ NextUart(u)
  /\ uart' = [uart EXCEPT ![u] =
       [alloc |-> TRUE, owner |-> s, module |-> n, at |-> Channel(n)]]
  /\ bound' = IF s \in opened THEN bound \cup {u} ELSE bound
  /\ UNCHANGED <<up, slot, handle, count, mapping, alive, opened, registered>>

CloseUart(u) ==
  /\ alive /\ uart[u].alloc
  /\ uart' = [uart EXCEPT ![u] = Closed]
  /\ bound' = bound \ {u}
  /\ registered' = registered \ {u}
  /\ UNCHANGED <<up, slot, handle, count, mapping, alive, opened>>

(* The bits 1 << u may have, an int widened to 64 bits.  The top bit of an *)
(* int is its sign; a shift by more than that is undefined.                *)
ShiftedOne(u) ==
  IF u >= IntBits THEN SUBSET Uarts
  ELSE IF u = IntBits - 1 THEN {{v \in Uarts : v >= u}} ELSE {{u}}

(* Mutant: the bits are stored, not added. *)
MarkOnly(m, k, bits) == slot' = [slot EXCEPT ![m][k].events = bits]

(* ddi_em_fusion_set_registered_uart_events *)
Mark(m, k, bits) == slot' = [slot EXCEPT ![m][k].events = @ \cup bits]

(* ddi_fusion_uart_register_event.  A handle outside the table marks what  *)
(* lies there.  (In a slot of another master that only adds events, which  *)
(* is left out.)                                                           *)
Register(u) ==
  /\ alive /\ uart[u].alloc
  /\ LET s == uart[u].owner
     IN  IF handle[s] \in Slots
         THEN \E bits \in ShiftedOne(u) : Mark(MasterOf[s], handle[s], bits)
         ELSE slot' = slot
  /\ registered' = registered \cup {u}
  /\ UNCHANGED <<up, handle, count, uart, mapping, alive, opened, bound>>

(* The same, where the handle leads out of the process's memory. *)
RegisterCrashes(u) ==
  /\ alive /\ uart[u].alloc
  /\ handle[uart[u].owner] \notin Slots
  /\ Dies

----------------------------------------------------------------------------
Next ==
  \/ \E m \in Masters : InitMaster(m) \/ DeinitMaster(m)
  \/ \E s \in Fusions : CfgInfoFails(s) \/ NoSlotLeft(s)
  \/ \E s \in Fusions, k \in Slots : VarInfoFails(s, k) \/ OpenFusion(s, k)
  \/ \E u \in Uarts, s \in Fusions : \E n \in ModuleNumbers(s) : OpenUart(u, s, n)
  \/ \E u \in Uarts : CloseUart(u) \/ Register(u) \/ RegisterCrashes(u)

Spec == Init /\ [][Next]_vars

----------------------------------------------------------------------------
TypeOK ==
  /\ up \subseteq Masters
  /\ slot \in [Masters -> [Slots -> [alloc : BOOLEAN, events : SUBSET Uarts]]]
  /\ handle \in [Fusions -> 0 .. MaxFusions]
  /\ count \in [Masters -> 0 .. MaxOpens]
  /\ uart \in [Uarts -> [alloc : BOOLEAN, owner : Fusions \cup {None},
                         module : Nat, at : Uarts]]
  /\ mapping \in [Uarts -> [owner : Fusions \cup {None}, module : Nat]]
  /\ alive \in BOOLEAN
  /\ opened \subseteq Fusions
  /\ bound \subseteq Uarts /\ registered \subseteq Uarts

(* Is slot k of a master safe from the memset of get_next_fusion_instance, *)
(* which clears the first slots of the masters, whoever has them?          *)
Sheltered(k) == k # 0 \/ Masters = {0}

(* Fusions opened with a slot have it for themselves and keep it, the      *)
(* sheltered ones, whatever is opened, closed or fails and whichever       *)
(* master comes and goes (get_next_fusion_instance).  A fusion opened when *)
(* the table was full has no slot.                                         *)
SlotPerSlave ==
  \A s \in opened :
    LET m == MasterOf[s]
        k == handle[s]
    IN  /\ k \in Slots
        /\ Sheltered(k) =>
             /\ slot[m][k].alloc
             /\ \A t \in opened \ {s} : MasterOf[t] = m => handle[t] # k

(* The registration of a UART whose bit an int can hold stays in the slot  *)
(* its fusion's handle names, the sheltered ones, until the UART closes or *)
(* the fusion is opened again (ddi_em_fusion_set_registered_uart_events);  *)
(* in the first slot of a single master, if the fusion was opened with it. *)
RegistrationKept ==
  \A u \in registered :
    LET s == uart[u].owner
        k == handle[s]
    IN  u < IntBits /\ k \in Slots /\ Sheltered(k) /\ (k # 0 \/ s \in opened)
          => u \in slot[MasterOf[s]][k].events

(* The process data of a UART opened on a module of an opened fusion is    *)
(* that module's, of that fusion (ddi_fusion_uart_open finds the channel   *)
(* ddi_em_open_fusion_interface has mapped).                               *)
DataIsOwn ==
  \A u \in bound :
    mapping[uart[u].at] = [owner |-> uart[u].owner, module |-> uart[u].module]
=============================================================================
