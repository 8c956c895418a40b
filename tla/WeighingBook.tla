---------------------------- MODULE WeighingBook ----------------------------
(***************************************************************************)
(* What finalization promises to the rest of the system, with no database  *)
(* transaction, no lock and no caller: a book of immutable weighings, one  *)
(* OPEN -> WEIGHED transition per transport, and a stock per branch and    *)
(* grain that moves only together with the book.  The statement-level      *)
(* module Finalization implements this specification.                      *)
(***************************************************************************)
EXTENDS Integers

CONSTANTS Transports, Branches, Grains,
          BranchOf,   \* transport_transactions.branch_id
          GrainOf,    \* transport_transactions.grain_type_id
          ScaleBranch, \* scales.branch_id
          NoEvent     \* the NULL event_id

VARIABLES status,     \* transport -> "NONE" (no row yet) or its status column
          inventory,  \* <<branch, grain>> -> current_inventory_grams
          weighings   \* the rows of table weighings

vars == <<status, inventory, weighings>>

Bins == Branches \X Grains

BinOf(t) == <<BranchOf[t], GrainOf[t]>>

\* The unique indexes of weighings do not let v and w live together.
Clash(v, w) ==
    \/ v.session = w.session
    \/ v.event = w.event /\ v.event # NoEvent

Init ==
    /\ status = [t \in Transports |-> "NONE"]
    /\ inventory = [b \in Bins |-> 0]
    /\ weighings = {}

Open(t) ==
    /\ status[t] = "NONE"
    /\ status' = [status EXCEPT ![t] = "OPEN"]
    /\ UNCHANGED <<inventory, weighings>>

Cancel(t) ==
    /\ status[t] = "OPEN"
    /\ status' = [status EXCEPT ![t] = "CANCELLED"]
    /\ UNCHANGED <<inventory, weighings>>

(***************************************************************************)
(* A successful finalization in one step: the transport is still OPEN, the *)
(* row is new under both keys, comes from a scale of the transport's own   *)
(* branch and holds a positive net weight, and the stock of its branch and *)
(* grain grows by exactly that weight.                                     *)
(***************************************************************************)
Record(w) ==
    /\ w.transport \in Transports
    /\ status[w.transport] = "OPEN"
    /\ \A v \in weighings : ~Clash(v, w)
    /\ ScaleBranch[w.scale] = BranchOf[w.transport]
    /\ w.net = w.gross - w.tare
    /\ w.net > 0
    /\ status' = [status EXCEPT ![w.transport] = "WEIGHED"]
    /\ inventory' = [inventory EXCEPT ![BinOf(w.transport)] = @ + w.net]
    /\ weighings' = weighings \cup {w}

Next ==
    \/ \E t \in Transports : Open(t) \/ Cancel(t)
    \/ \E w \in weighings' \ weighings : Record(w)

Spec == Init /\ [][Next]_vars
=============================================================================
