---------------------------- MODULE MCTransporter ----------------------------
(* Small sessions of Transporter for TLC. *)
EXTENDS Transporter

CONSTANT o1

Shape(kind, db, owner, hi, arg) ==
    [id |-> 0, kind |-> kind, db |-> db, owner |-> owner, hi |-> hi, arg |-> arg]

Plain == Shape("plain", NoDb, NoOwner, FALSE, 0)
InDb(db) == Shape("plain", db, NoOwner, FALSE, 0)
Owned == Shape("plain", NoDb, o1, FALSE, 0)
OwnedTransaction == Shape("transaction", 1, o1, FALSE, 1)
Urgent == Shape("plain", NoDb, NoOwner, TRUE, 0)
UserSelect == Shape("select", NoDb, NoOwner, FALSE, 2)
Pipeline == Shape("pipeline", NoDb, NoOwner, FALSE, 2)
Transaction == Shape("transaction", 1, NoOwner, FALSE, 2)

SessionBatches ==
    {<<Plain>>, <<InDb(1)>>, <<Urgent>>, <<UserSelect>>, <<Pipeline>>, <<Transaction>>}
LivenessBatches == {<<Plain>>, <<InDb(0)>>}
DbBatches == {<<InDb(1)>>}
CancelBatches == {<<Owned>>, <<OwnedTransaction, InDb(0)>>, <<Urgent>>}

=============================================================================
