----------------------------- MODULE TagRecord -----------------------------
(***************************************************************************)
(* The record of a tag (shared_proto_adv_field_t) and what the setters of  *)
(* components/storage_sync make of it.                                     *)
(*                                                                         *)
(* Abstracted: magic and battery never change after storage_sync_init;     *)
(* the sixteen-bit seq counts modulo SeqMod.                               *)
(***************************************************************************)
EXTENDS Naturals

CONSTANTS
  TagIds,   \* tag numbers a BIND_TAG command may carry
  Qtys,     \* quantities an UPDATE_QTY command may carry
  SeqMod    \* 2^16 in the code

ASSUME QtyAssumption == Qtys \subseteq Nat

Status == {"NORMAL", "FINDING", "OUTSTOCK"}
Record == [tag_id : TagIds, qty : Qtys \cup {0}, status : Status, seq : 0 .. SeqMod - 1]

\* RAM before storage_sync_init: all bytes zero.
ZeroRecord == [tag_id |-> 0, qty |-> 0, status |-> "NORMAL", seq |-> 0]

\* Mutant: the counter does not wrap.
BumpedNoWrap(f) == f.seq + 1

Bumped(f) == (f.seq + 1) % SeqMod

\* Mutant: new stock does not clear OUTSTOCK.
WithQtySticky(f, q) ==
  [f EXCEPT !.qty = q, !.seq = Bumped(f), !.status = IF q = 0 THEN "OUTSTOCK" ELSE @]

WithQty(f, q) ==
  [f EXCEPT !.qty = q,
            !.seq = Bumped(f),
            !.status = IF q = 0 THEN "OUTSTOCK"
                       ELSE IF @ = "OUTSTOCK" THEN "NORMAL" ELSE @]

WithFindStatus(f, active) ==
  [f EXCEPT !.status = IF active THEN "FINDING"
                       ELSE IF f.qty = 0 THEN "OUTSTOCK" ELSE "NORMAL",
            !.seq = Bumped(f)]

\* Mutant: a bind does not count as a change.
WithTagIdSilent(f, t) == [f EXCEPT !.tag_id = t]

WithTagId(f, t) == [f EXCEPT !.tag_id = t, !.seq = Bumped(f)]

=============================================================================
