---------------------------- MODULE BeaconState ------------------------------
(***************************************************************************)
(* What the relay knows of the beacon chain: MultiSlotState and            *)
(* AtomicState of beacon/state.go.  Withdrawals and randao are kept for    *)
(* two slots, in a ring indexed by the slot modulo two; an entry is        *)
(* replaced whole when another slot is written to its place.               *)
(*                                                                         *)
(* The root of the withdrawals and the randao that a node announces for a  *)
(* slot and a parent are represented by that pair.  Each method holds the  *)
(* mutex of MultiSlotState, so it is one step.                             *)
(***************************************************************************)
EXTENDS Integers, FiniteSets

CONSTANTS
    Hash,           \* hashes of parent blocks
    SlotsPerEpoch,
    CapellaEpoch,   \* first epoch of Capella in the nodes' fork schedule
    NoHash          \* the zero hash

NumberOfSlotsInState == 2

VARIABLES
    headSlot,         \* -1 while it is nil
    slots,            \* the ring
    parentBlockHash,
    duties,           \* slot the duties were fetched at, slots with a registered proposer
    knownValidators,  \* slot the known validators were fetched at
    fork              \* the fork schedule has been read

stateVars == <<headSlot, slots, parentBlockHash, duties, knownValidators, fork>>

Attributes(slot, parent) == [slot |-> slot, parent |-> parent]

\* The zero AtomicState, and the one a first write to a slot creates.
AtomicState(slot) == [slot |-> slot, withdrawals |-> {}, randao |-> {}]

StateInit ==
    /\ headSlot = -1
    /\ slots = [i \in 0 .. NumberOfSlotsInState - 1 |-> AtomicState(0)]
    /\ parentBlockHash = NoHash
    /\ duties = [slot |-> 0, entries |-> {}]
    /\ knownValidators = 0
    /\ fork = FALSE

Epoch(slot) == slot \div SlotsPerEpoch

\* ForkState.Version: all the slots of the model are Bellatrix or Capella.
Version(slot) ==
    IF ~fork THEN "unknown" ELSE IF Epoch(slot) >= CapellaEpoch THEN "capella" ELSE "bellatrix"

SetHeadSlotIfHigher(slot) == headSlot' = IF slot > headSlot THEN slot ELSE headSlot

\* Mutated form of Entry: the place is taken over without new maps.
StaleEntry(slot) == [slots[slot % NumberOfSlotsInState] EXCEPT !.slot = slot]

\* The entry of a slot, a new one if its place holds another slot.
Entry(slot) ==
    LET curr == slots[slot % NumberOfSlotsInState]
    IN  IF curr.slot # slot THEN AtomicState(slot) ELSE curr

\* A map from parent hash to attributes, with one key overwritten.
Put(m, a) == { b \in m : b.parent # a.parent } \cup {a}

SetWithdrawals(a) ==
    slots' = [slots EXCEPT ![a.slot % NumberOfSlotsInState] =
                [Entry(a.slot) EXCEPT !.withdrawals = Put(Entry(a.slot).withdrawals, a)]]

SetRandao(a) ==
    slots' = [slots EXCEPT ![a.slot % NumberOfSlotsInState] =
                [Entry(a.slot) EXCEPT !.randao = Put(Entry(a.slot).randao, a)]]

\* The lookups: {} stands for the zero value.
Withdrawals(slot, parent) ==
    LET ws == slots[slot % NumberOfSlotsInState]
    IN  IF ws.slot = slot THEN { a \in ws.withdrawals : a.parent = parent } ELSE {}

Randao(slot, parent) ==
    LET rs == slots[slot % NumberOfSlotsInState]
    IN  IF rs.slot = slot THEN { a \in rs.randao : a.parent = parent } ELSE {}
==============================================================================
